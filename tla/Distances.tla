----------------------------- MODULE Distances -----------------------------
(***************************************************************************)
(* webgraph/mod.rs: shortest paths and harmonic centrality over one        *)
(* GraphStore, entrypoint/centrality.rs and ranking/centrality_store.rs.   *)
(* Reading goes through the caches, so every operator that reads also says *)
(* what graph it leaves: one read may push out what another has loaded.    *)
(*                                                                         *)
(* A direction is the tree that is followed: "adjacency" for outgoing      *)
(* edges, "reversed_adjacency" for ingoing ones.                           *)
(***************************************************************************)
EXTENDS GraphStore, SequencesExt

CONSTANT Unit        \* 1.0; divisible by every distance there is

ASSUME DistancesAssumption == Unit \in Nat \ {0}

ReadEdges(g, tree, id) == [g EXCEPT ![tree] = BlockedGet(g[tree], id)]

----------------------------------------------------------------------------
\* Webgraph::dijkstra.  A search is the graph, the distances found and the
\* heap of <<cost, id>>.

Least(queue) ==
  CHOOSE e \in queue : \A o \in queue : e[1] < o[1] \/ (e[1] = o[1] /\ e[2] <= o[2])

Relax(s, tree, cost, v) ==
  LET closer == {w \in ToSet(EdgesOf(s.graph[tree], v)) :
                   w \in DOMAIN s.dist => cost + 1 < s.dist[w]}
  IN  [graph |-> ReadEdges(s.graph, tree, v),
       queue |-> s.queue \cup {<<cost + 1, w>> : w \in closer},
       dist |-> [w \in closer |-> cost + 1] @@ s.dist]

RECURSIVE Search(_, _)
Search(s, tree) ==
  IF s.queue = {} THEN s
  ELSE LET least == Least(s.queue)
           rest == [s EXCEPT !.queue = @ \ {least}]
       IN  Search(IF least[1] > s.dist[least[2]] THEN rest
                  ELSE Relax(rest, tree, least[1], least[2]), tree)

Dijkstra(g, tree, source) ==
  LET seen == LookUpNode(g, source)
  IN  IF Known(g.node2id, source)
      THEN Search([graph |-> seen, queue |-> {<<0, IdOf(seen, source)>>},
                   dist |-> IdOf(seen, source) :> 0], tree)
      ELSE [graph |-> seen, queue |-> {}, dist |-> <<>>]

----------------------------------------------------------------------------
\* id2node(id).expect(..) for one id after the other, in an order the
\* HashMap gives: [graph, names, ok].  Nothing follows a panic.
NameIds(g, ids) ==
  FoldLeft(LAMBDA s, id :
             IF s.ok /\ BlockedKnown(s.graph.id2node, id)
             THEN [graph |-> [s.graph EXCEPT !.id2node = BlockedGet(@, id)],
                   names |-> (id :> BlockedPeek(s.graph.id2node, id)) @@ s.names,
                   ok |-> TRUE]
             ELSE [s EXCEPT !.ok = FALSE],
           [graph |-> g, names |-> <<>>, ok |-> TRUE], ids)

\* Webgraph::ingoing_edges(node): both ends of every edge are named.
IngoingOf(g, node) ==
  LET seen == LookUpNode(g, node)
      id == IdOf(g, node)
      froms == EdgesOf(g.reversed_adjacency, id)
  IN  IF Known(g.node2id, node)
      THEN NameIds(ReadEdges(seen, "reversed_adjacency", id),
                   FlattenSeq([i \in DOMAIN froms |-> <<froms[i], id>>]))
      ELSE [graph |-> seen, names |-> <<>>, ok |-> TRUE]

----------------------------------------------------------------------------
\* Follow the edges the way they point.
RawReversedDistances_Forwards(g, node) == Dijkstra(g, "adjacency", node)

RawReversedDistances(g, node) == Dijkstra(g, "reversed_adjacency", node)

\* The sum of 1/distance over the other nodes that reach this one.
Closeness(dist, id) == MapThenSumSet(LAMBDA w : Unit \div dist[w], DOMAIN dist \ {id})

\* calculate_centrality over nodes() in some order: [graph, scores, ok].  A
\* score is a sum and the norm that it is divided by.  Only a positive one is
\* kept: 0/0, of the only node, is not.  The norm of no node at all underflows;
\* a debug build panics there, and another goes on, as there is no sum.
CalculateCentrality(g, order) ==
  LET norm == Len(order) - 1
      Score(s, id) ==
        LET named == NameIds(s.graph, <<id>>)
            found == RawReversedDistances(named.graph, named.names[id])
            sum == Closeness(found.dist, id)
        IN  IF ~(s.ok /\ named.ok) THEN [s EXCEPT !.ok = FALSE]
            ELSE [graph |-> found.graph,
                  scores |-> IF sum > 0 /\ norm > 0
                               THEN (named.names[id] :> <<sum, norm>>) @@ s.scores
                               ELSE s.scores,
                  ok |-> TRUE]
  IN  FoldLeft(Score, [graph |-> g, scores |-> <<>>, ok |-> norm >= 0], order)

\* CentralityStore::append: what was stored for a name is overwritten, and
\* what was stored for others stays.
AppendScores(store, scores) == scores @@ store

\* WebgraphBuilder::open on the directory of a graph.
OpenGraph(g, caps) == [f \in Trees |-> OpenTree(g[f].store, caps[f])]

----------------------------------------------------------------------------
\* What a process that opens the directory to read it makes of it, at every
\* moment of the store.

\* The pairs of nodes with a way of at most k edges on disk.
Ways(g) ==
  LET ways[k \in 0 .. Cardinality(Nodes)] ==
        IF k = 0 THEN {<<a, a>> : a \in Nodes}
        ELSE {<<a, c>> \in Nodes \X Nodes :
                \E b \in Nodes : <<a, b>> \in ways[k - 1] /\ (b = c \/ EdgeCount(g, b, c) > 0)}
  IN  ways

Harmonic(g, node) ==
  LET ways == Ways(g)
      Sources == {a \in Nodes \ {node} : \E k \in DOMAIN ways : <<a, node>> \in ways[k]}
      Length(a) == CHOOSE k \in DOMAIN ways \ {0} : <<a, node>> \in ways[k] \ ways[k - 1]
  IN  MapThenSumSet(LAMBDA a : Unit \div Length(a), Sources)

\* The centrality entry point (Centrality::run) opens the directory in a
\* process of its own and follows edges backwards, node by node: whatever the
\* size of its caches and the order of nodes(), it names every node it meets
\* and what it stores is the harmonic centrality of the flushed graph, divided
\* by the number of other nodes, for the nodes that another one reaches and for
\* no other; only on a graph without nodes it may panic.  The edges into a node
\* are found there by name as well, and both ends of each are named.
CentralitiesAreHarmonic ==
  HasRoom =>
    LET onDisk == ReopenGraph(graph)
        Scored == {a \in Nodes : Harmonic(onDisk, a) > 0}
        others == Cardinality(NodeIds(onDisk)) - 1
        expected == [a \in Scored |-> <<Harmonic(onDisk, a), others>>]
    IN  \A caps \in CacheSizes, order \in SetToSeqs(NodeIds(onDisk)) :
          LET opened == OpenGraph(graph, caps)
              run == CalculateCentrality(opened, order)
          IN  /\ run.ok \/ others < 0
              /\ AppendScores(<<>>, run.scores) = expected
              /\ \A node \in Nodes :
                   LET read == IngoingOf(opened, node)
                       Froms == {a \in Nodes : EdgeCount(onDisk, a, node) > 0}
                   IN  /\ read.ok
                       /\ {read.names[id] : id \in DOMAIN read.names}
                            = IF Froms = {} THEN {} ELSE Froms \cup {node}
=============================================================================
