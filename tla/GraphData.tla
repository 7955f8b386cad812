----------------------------- MODULE GraphData -----------------------------
(***************************************************************************)
(* webgraph/graph_store.rs: BlockedCachedTree, Adjacency and GraphStore as *)
(* operators on their data.  A graph is a record of five trees:            *)
(*                                                                         *)
(*    adjacency, reversed_adjacency : block -> (node id -> list of ids)    *)
(*    node2id : node -> id         id2node : block -> (id -> node)         *)
(*    meta : "next_id" -> the first id not yet given out                   *)
(*                                                                         *)
(* Edge labels are carried along by the code and looked at by nothing in   *)
(* it: they are left out.                                                  *)
(***************************************************************************)
EXTENDS LruTree, FiniteSets

CONSTANTS Nodes,
          BlockSize,       \* block_size, 1_024 in the code
          CacheSizes,      \* the cache sizes to explore: a set of [Trees -> Nat]
          MaxEdges         \* bound: edges inserted in a behaviour

Trees == {"adjacency", "reversed_adjacency", "node2id", "id2node", "meta"}

ASSUME GraphAssumption ==
  /\ IsFiniteSet(Nodes)
  /\ NoValue \notin Nodes
  /\ BlockSize \in Nat \ {0}
  /\ CacheSizes \subseteq [Trees -> Nat \ {0}]
  /\ MaxEdges \in Nat

BlockOf(id) == id \div BlockSize

----------------------------------------------------------------------------
\* BlockedCachedTree

\* The tree after insert(id, |block| block[id] = v).
BlockedInsert(t, id, v) ==
  LET b == BlockOf(id)
  IN  IF Known(t, b)
      THEN Mutate(t, b, With(Peek(t, b), id, v))
      ELSE Insert(t, b, With(NoEntries, id, v))

BlockedGet(t, id) == Get(t, BlockOf(id))

BlockedKnown(t, id) ==
  /\ Known(t, BlockOf(id))
  /\ id \in DOMAIN Peek(t, BlockOf(id))

BlockedPeek(t, id) == Peek(t, BlockOf(id))[id]

----------------------------------------------------------------------------
\* Adjacency: edges(node) is empty for a node without an entry.

EdgesOf(t, id) == IF BlockedKnown(t, id) THEN BlockedPeek(t, id) ELSE <<>>

\* Start the list of a node anew.
AdjacencyInsert_Overwrites(t, from, to) == BlockedInsert(t, from, <<to>>)

AdjacencyInsert(t, from, to) == BlockedInsert(t, from, Append(EdgesOf(t, from), to))

----------------------------------------------------------------------------
\* GraphStore

NextIdKey == "next_id"
NextId(g) == IF Known(g.meta, NextIdKey) THEN Peek(g.meta, NextIdKey) ELSE 0

\* id_and_increment: next_id, increment_next_id.
IncrementNextId(g) ==
  [g EXCEPT !.meta = Insert(Get(g.meta, NextIdKey), NextIdKey, NextId(g) + 1)]

AssignId(g, node, id) ==
  [g EXCEPT !.node2id = Insert(g.node2id, node, id),
            !.id2node = BlockedInsert(g.id2node, id, node)]

LookUpNode(g, node) == [g EXCEPT !.node2id = Get(g.node2id, node)]

\* The id is handed out without moving next_id on.
IdOrAssign_NoIncrement(g, node) ==
  LET seen == LookUpNode(g, node)
  IN  IF Known(g.node2id, node) THEN seen ELSE AssignId(seen, node, NextId(g))

IdOrAssign(g, node) ==
  LET seen == LookUpNode(g, node)
  IN  IF Known(g.node2id, node)
      THEN seen
      ELSE AssignId(IncrementNextId(seen), node, NextId(g))

IdOf(g, node) == Peek(g.node2id, node)

\* GraphStore::insert.  from's id is taken before to's is looked up: the
\* lookup of to may push from's entry out of the node2id cache.
InsertEdge(g, from, to) ==
  LET g1 == IdOrAssign(g, from)
      g2 == IdOrAssign(g1, to)
      fromId == IdOf(g1, from)
      toId == IdOf(g2, to)
  IN  [g2 EXCEPT
         !.adjacency = AdjacencyInsert(g2.adjacency, fromId, toId),
         !.reversed_adjacency = AdjacencyInsert(g2.reversed_adjacency, toId, fromId)]

\* Leave meta for later: next_id is a counter, not data.
FlushGraph_SkipsMeta(g) ==
  [f \in DOMAIN g |-> IF f = "meta" THEN g[f] ELSE Flush(g[f])]

FlushGraph(g) == [f \in DOMAIN g |-> Flush(g[f])]

\* flush takes one tree after the other: all of the first n, and m entries of
\* the next.
FlushOrder == <<"adjacency", "reversed_adjacency", "node2id", "id2node", "meta">>

TornFlush(g, n, m) ==
  [f \in DOMAIN g |->
     IF \E i \in 1 .. n : FlushOrder[i] = f THEN Flush(g[f])
     ELSE IF FlushOrder[n + 1] = f THEN FlushSome(g[f], m) ELSE g[f]]

\* nodes(): an iteration over the store of node2id, past its cache.
NodeIds(g) == {g.node2id.store[n] : n \in DOMAIN g.node2id.store}

\* Drop the graph and open the same path again.
ReopenGraph(g) == [f \in DOMAIN g |-> Reopen(g[f])]

\* GraphStore::open on an empty directory; caps names each cache_size.
NewGraph(caps) == [f \in DOMAIN caps |-> OpenTree(NoEntries, caps[f])]

----------------------------------------------------------------------------
\* What the data stands for.

Blocks(t) == DOMAIN t.cache \cup DOMAIN t.store

\* The ids with an entry in a blocked tree.
Ids(t) == UNION {DOMAIN Peek(t, b) : b \in Blocks(t)}

\* How often x is listed.
Count(s, x) == Cardinality({i \in 1 .. Len(s) : s[i] = x})

\* The edges of an adjacency tree as counts, between ids ...
EdgesBetween(t, i, j) == Count(EdgesOf(t, i), j)

\* ... and, read through both node2id and id2node, between nodes.
EdgeCount(g, a, b) ==
  IF Known(g.node2id, a) /\ Known(g.node2id, b)
  THEN EdgesBetween(g.adjacency, IdOf(g, a), IdOf(g, b))
  ELSE 0
=============================================================================
