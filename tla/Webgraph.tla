------------------------------ MODULE Webgraph -----------------------------
(***************************************************************************)
(* webgraph/mod.rs: webgraph segments that are built, frozen, sent and     *)
(* merged two by two until one is left (entrypoint/webgraph.rs: Reduce).   *)
(*                                                                         *)
(* A segment has a full graph (pages) and a host graph, or only one of     *)
(* them, and all segments have the same: a function from a subset of Parts *)
(* to GraphData records.  A merge runs edge by edge, as append() drives    *)
(* the EdgeIterator of the other graph; the two segments are owned by the  *)
(* merging thread meanwhile.                                               *)
(***************************************************************************)
EXTENDS GraphData, FiniteSetsExt

CONSTANTS Pages, Hosts,
          HostOf,          \* Node::into_host, a function [Pages -> Hosts]
          Segments,
          Builds           \* the graphs the segments have: sets of Parts

Parts == {"full", "host"}

ASSUME WebgraphAssumption ==
  /\ Pages \cup Hosts \subseteq Nodes
  /\ HostOf \in [Pages -> Hosts]
  /\ Builds \subseteq SUBSET Parts

VARIABLES seg,             \* the segments still there: [alive -> webgraph]
          merge,           \* the merge in progress
          put              \* the edges each segment should hold (history)

webgraphVars == <<seg, merge, put>>

Idle == [phase |-> "idle"]

InitWebgraph ==
  /\ \E build \in Builds, caps \in CacheSizes :
       seg = [s \in Segments |-> [part \in build |-> NewGraph(caps)]]
  /\ merge = Idle
  /\ put = [s \in Segments |-> <<>>]

Alive == DOMAIN seg

----------------------------------------------------------------------------
\* Webgraph::insert: an edge between pages goes into the host graph as an
\* edge between their hosts, which may be one and the same.
InsertInPart(part, g, from, to) ==
  IF part = "host" THEN InsertEdge(g, HostOf[from], HostOf[to])
  ELSE InsertEdge(g, from, to)

EdgesPut == MapThenSumSet(LAMBDA s : Len(put[s]), Alive)

InsertLink(s, from, to) ==
  /\ merge = Idle
  /\ EdgesPut < MaxEdges
  /\ seg' = [seg EXCEPT ![s] =
       [part \in DOMAIN @ |-> InsertInPart(part, @[part], from, to)]]
  /\ put' = [put EXCEPT ![s] = Append(@, <<from, to>>)]
  /\ UNCHANGED merge

\* FrozenWebgraph::from(graph), the transfer, and Webgraph::from(frozen):
\* flush, drop, read the directory; wipe the path, write it, open it.  (Or,
\* as a slip, drop without the flush.)
Thaw_Unflushed(w) == [part \in DOMAIN w |-> ReopenGraph(w[part])]

Thaw(w) == [part \in DOMAIN w |-> ReopenGraph(FlushGraph(w[part]))]

FreezeAndThaw(s) ==
  /\ merge = Idle
  /\ seg' = [seg EXCEPT ![s] = Thaw(@)]
  /\ UNCHANGED <<merge, put>>

----------------------------------------------------------------------------
\* Webgraph::merge, and GraphStore::append with the EdgeIterator it drives.

\* full first, then host; "none" after both.
NextPart(part) == IF part = "full" THEN "host" ELSE "none"

StartMerge(into, other) ==
  /\ merge = Idle
  /\ merge' = [phase |-> "part", into |-> into, other |-> other, part |-> "full"]
  /\ UNCHANGED <<seg, put>>

Has(s, part) == part \in DOMAIN seg[s]

\* Neither segment has this graph: the (None, None) of the two matches.
SkipPart ==
  /\ merge.phase = "part" /\ merge.part /= "none"
  /\ ~Has(merge.into, merge.part)
  /\ merge' = [merge EXCEPT !.part = NextPart(@)]
  /\ UNCHANGED <<seg, put>>

\* edges(): flush, then EdgeIterator::new, which notes the stored blocks.
BeginAppend ==
  /\ merge.phase = "part" /\ merge.part /= "none"
  /\ Has(merge.into, merge.part)
  /\ LET theirs == FlushGraph(seg[merge.other][merge.part])
     IN  /\ seg' = [seg EXCEPT ![merge.other][merge.part] = theirs]
         /\ merge' = [phase |-> "append", into |-> merge.into, other |-> merge.other,
                      part |-> merge.part, blocks |-> DOMAIN theirs.adjacency.store,
                      loaded |-> FALSE, current |-> {}, begun |-> {}]
  /\ UNCHANGED put

\* The edges of one block, each with its place in the list of its node.
EdgesOfBlock(block) ==
  UNION {{<<from, k, block[from][k]>> : k \in DOMAIN block[from]} : from \in DOMAIN block}

\* EdgeIterator::next, when it has to load: only while there is no current
\* block, and a block that ran empty is still one.  The store lists the blocks
\* by the bytes of their encoded keys, least significant first: here, any order.
MayLoad == ~merge.loaded /\ merge.blocks /= {}

LoadNextBlock ==
  /\ merge.phase = "append"
  /\ MayLoad
  /\ \E b \in merge.blocks :
       LET tree == seg[merge.other][merge.part].adjacency
       IN  /\ merge' = [merge EXCEPT !.blocks = @ \ {b}, !.loaded = TRUE,
                                      !.current = EdgesOfBlock(Peek(tree, b))]
           /\ seg' = [seg EXCEPT ![merge.other][merge.part].adjacency = Get(tree, b)]
  /\ UNCHANGED put

\* The edge that comes next: a list that is begun is finished before the next,
\* and the nodes come in the order of a HashMap, which is any.
ComesNext(edge) ==
  /\ \A e \in merge.current : e[1] = edge[1] => edge[2] <= e[2]
  /\ edge[1] \in merge.begun \/ \A e \in merge.current : e[1] \notin merge.begun

\* One turn of the loop of append: both ends are read back by their ids,
\* and the edge is inserted under the names found.  expect() panics when an
\* id is not there.
AppendEdge ==
  /\ merge.phase = "append"
  /\ \E edge \in merge.current :
       LET theirs == seg[merge.other][merge.part].id2node
           readFrom == BlockedGet(theirs, edge[1])
           readBoth == BlockedGet(readFrom, edge[3])
       IN  /\ ComesNext(edge)
           /\ IF BlockedKnown(theirs, edge[1]) /\ BlockedKnown(readFrom, edge[3])
              THEN /\ merge' = [merge EXCEPT !.current = @ \ {edge}, !.begun = {edge[1]}]
                   /\ seg' = [seg EXCEPT
                        ![merge.other][merge.part].id2node = readBoth,
                        ![merge.into][merge.part] =
                          InsertEdge(@, BlockedPeek(theirs, edge[1]),
                                        BlockedPeek(readFrom, edge[3]))]
              ELSE merge' = [phase |-> "panicked"] /\ UNCHANGED seg
  /\ UNCHANGED put

\* The iterator returned None.
EndAppend ==
  /\ merge.phase = "append"
  /\ merge.current = {} /\ ~MayLoad
  /\ merge' = [phase |-> "part", into |-> merge.into, other |-> merge.other,
               part |-> NextPart(merge.part)]
  /\ UNCHANGED <<seg, put>>

\* merge ends with a flush; then the caller removes the other directory.
FinishMerge ==
  /\ merge.phase = "part" /\ merge.part = "none"
  /\ seg' = [s \in Alive \ {merge.other} |->
       IF s = merge.into
       THEN [part \in DOMAIN seg[s] |-> FlushGraph(seg[s][part])]
       ELSE seg[s]]
  /\ put' = [s \in Alive \ {merge.other} |->
       IF s = merge.into THEN put[s] \o put[merge.other] ELSE put[s]]
  /\ merge' = Idle

NextWebgraph ==
  \/ \E s \in Alive, from, to \in Pages : InsertLink(s, from, to)
  \/ \E s \in Alive : FreezeAndThaw(s)
  \/ \E into, other \in Alive : into /= other /\ StartMerge(into, other)
  \/ SkipPart
  \/ BeginAppend
  \/ LoadNextBlock
  \/ AppendEdge
  \/ EndAppend
  \/ FinishMerge

SpecWebgraph == InitWebgraph /\ [][NextWebgraph]_webgraphVars

----------------------------------------------------------------------------
\* The type of the merge in progress and of the segments.
WebgraphTypeOK ==
  /\ Alive \subseteq Segments /\ Alive /= {} /\ DOMAIN put = Alive
  /\ \A s \in Alive : DOMAIN seg[s] \subseteq Parts /\ put[s] \in Seq(Pages \X Pages)
  /\ merge.phase \in {"idle", "part", "append", "panicked"}
  /\ merge.phase \in {"part", "append"} => {merge.into, merge.other} \subseteq Alive

NodesIn(part) == IF part = "host" THEN Hosts ELSE Pages

\* A link in the terms of the part, and how often it was put.
LinkIn(part, link) == IF part = "host" THEN <<HostOf[link[1]], HostOf[link[2]]>> ELSE link

PutCount(links, part, e) == Cardinality({i \in DOMAIN links : LinkIn(part, links[i]) = e})

\* A segment between merges holds exactly the edges put into it and into the
\* segments merged into it, each as often as it was put: what the merge test
\* of webgraph/mod.rs asserts of two edges.
HoldsWhatWasPut(s, part) ==
  \A e \in NodesIn(part) \X NodesIn(part) :
    EdgeCount(seg[s][part], e[1], e[2]) = PutCount(put[s], part, e)

SegmentsHoldWhatWasPut ==
  merge = Idle => \A s \in Alive : \A part \in DOMAIN seg[s] : HoldsWhatWasPut(s, part)

\* The code keeps that promise, through builds, freezes and merges, while
\* its caches have room for everything and the nodes fit one block.
IsRoomy(g) == \A f \in Trees : g[f].cap >= Cardinality(Pages)
OneBlock(s, part) ==
  Cardinality({e \in NodesIn(part) :
    \E f \in NodesIn(part) : PutCount(put[s], part, <<e, f>>)
                               + PutCount(put[s], part, <<f, e>>) > 0}) <= BlockSize

SmallSegmentsHoldWhatWasPut ==
  merge = Idle =>
    \A s \in Alive : \A part \in DOMAIN seg[s] :
      IsRoomy(seg[s][part]) /\ OneBlock(s, part) => HoldsWhatWasPut(s, part)

\* Whatever the caches lost and the iteration skipped, and in the middle of
\* a merge as well: no segment shows an edge that was not put into it or
\* into the one being merged into it, and append never meets an edge with an
\* end it cannot name, .expect("node not found").  (Ids grow, so id2node is
\* filled block after block and none is loaded again before it was written.)
NoEdgeIsInvented ==
  /\ merge.phase /= "panicked"
  /\ \A s \in Alive : \A part \in DOMAIN seg[s] :
       LET g == seg[s][part]
           links == IF merge.phase \in {"part", "append"} /\ s = merge.into
                    THEN put[s] \o put[merge.other] ELSE put[s]
       IN  \A e \in NodesIn(part) \X NodesIn(part) :
             EdgeCount(g, e[1], e[2]) <= PutCount(links, part, e)
=============================================================================
