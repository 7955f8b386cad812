----------------------------- MODULE GraphStore ----------------------------
(***************************************************************************)
(* webgraph/graph_store.rs: a GraphStore in use.  Inserts need the store   *)
(* exclusively (&mut self) and every other call takes one tree's Mutex at  *)
(* a time and changes only that tree, so each call is one action.          *)
(***************************************************************************)
EXTENDS GraphData

CONSTANT TornSizes         \* cache sizes to explore with flushes that may be cut

ASSUME GraphStoreAssumption == TornSizes \subseteq [Trees -> Nat \ {0}]

VARIABLES graph,
          inserted,        \* the edges ever inserted, in order (history)
          tears,           \* may the process die in the middle of a flush
          restarted        \* has the process been restarted yet (history)

vars == <<graph, inserted, tears, restarted>>
history == <<inserted, tears, restarted>>

Init ==
  /\ tears \in BOOLEAN
  /\ \E caps \in IF tears THEN TornSizes ELSE CacheSizes : graph = NewGraph(caps)
  /\ inserted = <<>>
  /\ restarted = FALSE

\* Every tree's cache holds all the entries the nodes here can make, and no
\* flush is cut: a restart finds the five trees as one flush left them.
HasRoom == ~tears /\ \A f \in Trees : graph[f].cap >= Cardinality(Nodes)

\* Bound: a store that a restart may find with trees of different ages is only
\* read after it.
CallInsert(from, to) ==
  /\ Len(inserted) < MaxEdges
  /\ restarted => HasRoom
  /\ graph' = InsertEdge(graph, from, to)
  /\ inserted' = Append(inserted, <<from, to>>)
  /\ UNCHANGED <<tears, restarted>>

\* The calls that read: each may load one entry and push out another.
CallNode2Id(node) ==
  /\ graph' = LookUpNode(graph, node)
  /\ UNCHANGED history

CallId2Node(id) ==
  /\ graph' = [graph EXCEPT !.id2node = BlockedGet(graph.id2node, id)]
  /\ UNCHANGED history

CallOutgoingEdges(id) ==
  /\ graph' = [graph EXCEPT !.adjacency = BlockedGet(graph.adjacency, id)]
  /\ UNCHANGED history

CallIngoingEdges(id) ==
  /\ graph' = [graph EXCEPT
       !.reversed_adjacency = BlockedGet(graph.reversed_adjacency, id)]
  /\ UNCHANGED history

CallFlush ==
  /\ graph' = FlushGraph(graph)
  /\ UNCHANGED history

\* A new process opens the directory.
Reopened(left) ==
  /\ graph' = ReopenGraph(left)
  /\ restarted' = TRUE
  /\ UNCHANGED <<inserted, tears>>

Restart == Reopened(graph)

\* The process dies in a flush, and leaves trees of different ages.
CrashInFlush ==
  /\ tears
  /\ \E n \in 0 .. 4 : \E m \in 0 .. Len(graph[FlushOrder[n + 1]].lru) :
       Reopened(TornFlush(graph, n, m))

\* The ids the code can ask for: those it was given.
GivenIds == 0 .. NextId(graph) - 1

Next ==
  \/ \E from, to \in Nodes : CallInsert(from, to)
  \/ \E node \in Nodes : CallNode2Id(node)
  \/ \E id \in GivenIds : CallId2Node(id) \/ CallOutgoingEdges(id) \/ CallIngoingEdges(id)
  \/ CallFlush
  \/ Restart
  \/ CrashInFlush

Spec == Init /\ [][Next]_vars

----------------------------------------------------------------------------
\* The type of the state: only known nodes, and lists of given-out ids.
TypeOK ==
  /\ DOMAIN graph = Trees
  /\ \A f \in Trees : Len(graph[f].lru) <= graph[f].cap
  /\ DOMAIN graph.node2id.store \cup DOMAIN graph.node2id.cache \subseteq Nodes
  /\ \A id \in Ids(graph.id2node) : BlockedPeek(graph.id2node, id) \in Nodes
  /\ inserted \in Seq(Nodes \X Nodes)
  /\ tears \in BOOLEAN /\ restarted \in BOOLEAN

\* node2id and id2node are each other's inverse, and hold exactly the ids
\* below next_id: no id is given to two nodes and no node has two ids, even
\* across a restart that lost the entries (and the counter) of some nodes.
IdsAreABijection ==
  HasRoom =>
    /\ \A node \in Nodes : Known(graph.node2id, node) =>
         /\ BlockedKnown(graph.id2node, IdOf(graph, node))
         /\ BlockedPeek(graph.id2node, IdOf(graph, node)) = node
    /\ \A id \in Ids(graph.id2node) :
         LET node == BlockedPeek(graph.id2node, id)
         IN  Known(graph.node2id, node) /\ IdOf(graph, node) = id
    /\ Ids(graph.id2node) = GivenIds

\* However small the caches, and after a restart as well, be it one that
\* found trees of different ages because an eviction wrote one of them back
\* or a flush was cut: what is left of the graph is part of what was put in.
\* Entries may be lost, but an edge that can still be read leads between two
\* nodes it was inserted for.  (An insert into such trees could break this:
\* it may give an id that an entry on disk still uses to another node.)
NothingIsInvented ==
  \A i, j \in Ids(graph.id2node) :
    EdgesBetween(graph.adjacency, i, j)
      <= Count(inserted, <<BlockedPeek(graph.id2node, i), BlockedPeek(graph.id2node, j)>>)

\* With room in the caches the store is the multigraph its callers take it
\* for, a restart included.
NoEdges == [e \in Nodes \X Nodes |-> 0]
EdgesOfGraph(g) ==
  IF HasRoom
  THEN [e \in Nodes \X Nodes |-> EdgeCount(g, e[1], e[2])] ELSE NoEdges
Multigraph == INSTANCE EdgeMultigraph
  WITH edges <- EdgesOfGraph(graph), saved <- EdgesOfGraph(ReopenGraph(graph))
ImplementsEdgeMultigraph == Multigraph!Spec

\* Every edge inserted since the store was opened is read back, as the tests
\* of graph_store.rs and webgraph/mod.rs assert of their small graphs.
InsertedEdgesAreRead ==
  ~restarted =>
    \A a, b \in Nodes : EdgeCount(graph, a, b) = Count(inserted, <<a, b>>)
=============================================================================
