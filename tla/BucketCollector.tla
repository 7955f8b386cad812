-------------------------- MODULE BucketCollector --------------------------
(***************************************************************************)
(* collector.rs: TopDocs over the segments of an index.  Each segment      *)
(* feeds its documents to a collector of its own, whose sorted fruit goes  *)
(* into a second collector; that one is emptied into the ranking, with the *)
(* documents that resemble the ones already shown pushed back if asked.    *)
(*                                                                         *)
(* A collector is a double-ended heap: a function from documents to the    *)
(* divisor of their last adjusted score.  It pops any of the documents     *)
(* that tie, except that the one it showed last, when nothing changed      *)
(* since, is the one that it pops.                                         *)
(***************************************************************************)
EXTENDS Ranking

CONSTANTS
  Docs,          \* the documents that match, numbered in the order of collection
  Segments,      \* the segments, numbered in the order of their fruits
  SegmentOf,     \* the segment of each document
  Pages,         \* the scores and hashes a document may have
  Requests       \* the collectors built: top_n, offset, max_docs of a segment, de_rank

ASSUME BucketCollectorAssumption ==
  /\ Docs \subseteq Nat /\ IsFiniteSet(Docs)
  /\ IsFiniteSet(Segments) /\ Segments = 1 .. Cardinality(Segments)
  /\ SegmentOf \in [Docs -> Segments]
  /\ Pages \subseteq [score : Nat, site : Hashes, title : Hashes, url : Hashes]
  /\ Requests \subseteq [top : Nat \ {0}, offset : Nat, max : Nat, deRank : BOOLEAN]

VARIABLES
  doc,           \* the documents of the index
  top,           \* the TopDocs
  waiting,       \* the documents of each segment not collected yet
  taken,         \* num_docs_taken
  segment,       \* the heap of each TopSegmentCollector
  fruit,         \* what the segments harvested
  heap,          \* the heap of the merging collector
  best,          \* its best_doc, if update_best_doc has stopped at one
  count,         \* its BucketCount
  res,           \* the ranking so far
  phase          \* "segments", "merge", "pop", "adjust" or "done"

request == <<doc, top>>
segments == <<waiting, taken, segment, fruit>>
vars == <<request, segments, heap, best, count, res, phase>>

DocsOf(s) == {i \in Docs : SegmentOf[i] = s}
Sorted(heap1, i, k) == ~Exceeds(doc[k], heap1[k], doc[i], heap1[i])
Largest(heap1) == {i \in DOMAIN heap1 : \A k \in DOMAIN heap1 : Sorted(heap1, i, k)}
Smallest(heap1) == {i \in DOMAIN heap1 : \A k \in DOMAIN heap1 : Sorted(heap1, k, i)}
WithoutDoc(heap1, i) == [k \in DOMAIN heap1 \ {i} |-> heap1[k]]
EmptyHeap == [i \in {} |-> 0]

\* Keep what is shown, and forget what is skipped.
TopN_NoOffset == top.top

\* Both collectors keep as many as are shown and skipped.
TopN == top.top + top.offset

\* BucketCollector::insert: push the document and prune to top_n + 1.
Inserted(heap1, i) ==
  LET pushed == [k \in DOMAIN heap1 \cup {i} |->
                   IF k = i THEN AdjustScore(NoCounts, doc[i]) ELSE heap1[k]]
  IN  IF Cardinality(DOMAIN pushed) > TopN + 1
      THEN {WithoutDoc(pushed, m) : m \in Smallest(pushed)}
      ELSE {pushed}

\* into_sorted_vec(false): the heap from its largest element down.
SortedVecs(heap1) ==
  LET size == IF Cardinality(DOMAIN heap1) < TopN THEN Cardinality(DOMAIN heap1) ELSE TopN
  IN  {ids \in [1 .. size -> DOMAIN heap1] :
         /\ \A i, k \in 1 .. size : i < k => ids[i] /= ids[k] /\ Sorted(heap1, ids[i], ids[k])
         /\ \A d \in DOMAIN heap1 :
              (\A i \in 1 .. size : ids[i] /= d) => \A i \in 1 .. size : Sorted(heap1, ids[i], d)}

Init ==
  /\ doc \in [Docs -> Pages]
  /\ top \in Requests
  /\ waiting = [s \in Segments |-> DocsOf(s)]
  /\ taken = [s \in Segments |-> 0]
  /\ segment = [s \in Segments |-> EmptyHeap]
  /\ fruit = <<>>
  /\ heap = EmptyHeap /\ best = {}
  /\ count = NoCounts
  /\ res = <<>>
  /\ phase = "segments"

\* TopSegmentCollector::collect, in the order of the documents.
Collect(s) ==
  /\ phase = "segments" /\ Len(fruit) = s - 1
  /\ \E i \in waiting[s] :
       /\ \A k \in waiting[s] : i <= k
       /\ waiting' = [waiting EXCEPT ![s] = @ \ {i}]
       /\ IF taken[s] >= top.max
          THEN UNCHANGED <<taken, segment>>
          ELSE /\ taken' = [taken EXCEPT ![s] = @ + 1]
               /\ \E h \in Inserted(segment[s], i) : segment' = [segment EXCEPT ![s] = h]
  /\ UNCHANGED <<request, fruit, heap, best, count, res, phase>>

\* harvest
Harvest(s) ==
  /\ phase = "segments" /\ Len(fruit) = s - 1 /\ waiting[s] = {}
  /\ \E ids \in SortedVecs(segment[s]) : fruit' = Append(fruit, ids)
  /\ phase' = IF s + 1 \in Segments THEN "segments" ELSE "merge"
  /\ UNCHANGED <<request, waiting, taken, segment, heap, best, count, res>>

\* merge_fruits inserts the documents of one fruit after the other.
Merge ==
  /\ phase = "merge"
  /\ IF fruit = <<>> THEN phase' = "pop" /\ UNCHANGED <<fruit, heap>>
     ELSE IF Head(fruit) = <<>>
     THEN fruit' = Tail(fruit) /\ UNCHANGED <<heap, phase>>
     ELSE /\ \E h \in Inserted(heap, Head(Head(fruit))) : heap' = h
          /\ fruit' = <<Tail(Head(fruit))>> \o Tail(fruit)
          /\ UNCHANGED phase
  /\ UNCHANGED <<request, waiting, taken, segment, best, count, res>>

\* into_sorted_vec: show the largest; update_best_doc has nothing to do when
\* one document is left.
Pop ==
  /\ phase = "pop"
  /\ best' = {}
  /\ IF DOMAIN heap = {} \/ Len(res) = TopN
     THEN phase' = "done" /\ UNCHANGED <<heap, count, res>>
     ELSE \E i \in IF best = {} THEN Largest(heap) ELSE best :
            /\ res' = Append(res, i)
            /\ heap' = WithoutDoc(heap, i)
            /\ IF top.deRank
               THEN /\ count' = UpdateCounts(count, doc[i])
                    /\ phase' = IF Cardinality(DOMAIN heap') > 1 THEN "adjust" ELSE "pop"
               ELSE UNCHANGED <<count, phase>>
  /\ UNCHANGED <<request, segments>>

\* Adjust the largest once.
Adjust_Once ==
  /\ phase = "adjust"
  /\ \E i \in Largest(heap) :
       heap' = [heap EXCEPT ![i] = AdjustScore(count, doc[i])] /\ best' = {i}
  /\ phase' = "pop"
  /\ UNCHANGED <<request, segments, count, res>>

\* Go on while anything is left.
Adjust_NeverBreaks ==
  /\ phase = "adjust"
  /\ \E i \in Largest(heap) : heap' = [heap EXCEPT ![i] = AdjustScore(count, doc[i])]
  /\ UNCHANGED <<request, segments, best, count, res, phase>>

\* One turn of update_best_doc: adjust the largest, until its score stays.
Adjust ==
  /\ phase = "adjust"
  /\ \E i \in Largest(heap) :
       /\ heap' = [heap EXCEPT ![i] = AdjustScore(count, doc[i])]
       /\ IF doc[i].score * heap'[i] = doc[i].score * heap[i]
          THEN phase' = "pop" /\ best' = {i}
          ELSE UNCHANGED <<phase, best>>
  /\ UNCHANGED <<request, segments, count, res>>

Next == (\E s \in Segments : Collect(s) \/ Harvest(s)) \/ Merge \/ Pop \/ Adjust

\* One thread runs the collectors to their end.
Spec == Init /\ [][Next]_vars /\ WF_vars(Next)

----------------------------------------------------------------------------
\* The documents that the maximum number per segment lets in.
Considered ==
  {i \in Docs : Cardinality({k \in DocsOf(SegmentOf[i]) : k < i}) < top.max}

\* The page: the ranking without the offset.
Page == SubSeq(res, top.offset + 1, Len(res))

IsHeap(h) == DOMAIN h \subseteq Docs /\ Cardinality(DOMAIN h) <= TopN + 1
             /\ \A i \in DOMAIN h : h[i] \in Nat

\* The type of the state; the heaps stay as small as prune_buckets makes them.
TypeOK ==
  /\ doc \in [Docs -> Pages] /\ top \in Requests
  /\ waiting \in [Segments -> SUBSET Docs] /\ taken \in [Segments -> Nat]
  /\ \A s \in Segments : IsHeap(segment[s])
  /\ fruit \in Seq(Seq(Docs)) /\ IsHeap(heap)
  /\ best \subseteq DOMAIN heap
  /\ count \in [Hashes -> Nat] /\ res \in Seq(Docs)
  /\ phase \in {"segments", "merge", "pop", "adjust", "done"}

\* With similar documents pushed back, the ranking that update_best_doc finds
\* by adjusting only the largest, again and again, is a greedy one over the
\* top_n + 1 best documents that the segments handed over.
ShowsAGreedyRanking ==
  phase = "done" /\ top.deRank =>
    \E handed \in SUBSET Considered :
      /\ \A s \in Segments : AreTheBest(doc, handed \cap DocsOf(s), Considered \cap DocsOf(s), TopN)
      /\ \E kept \in SUBSET handed :
           /\ AreTheBest(doc, kept, handed, TopN + 1)
           /\ IsGreedyRanking(doc, res, kept, TopN)

\* Without it, how the documents are spread over segments does not show: the
\* page has the scores of the same page of all considered documents in order.
SegmentsDoNotShow ==
  phase = "done" /\ ~top.deRank =>
    /\ AreTheBest(doc, {res[i] : i \in 1 .. Len(res)}, Considered, TopN)
    /\ \A i, k \in 1 .. Len(res) : i < k => res[i] /= res[k] /\ doc[res[i]].score >= doc[res[k]].score
    /\ Len(Page) <= top.top
    /\ Cardinality(Considered) >= TopN => Len(Page) = top.top

\* The loop of update_best_doc, and with it the search, ends: the penalties of
\* the documents left do not change while it runs.
RankingEnds == <>(phase = "done")
=============================================================================
