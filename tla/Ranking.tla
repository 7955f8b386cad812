------------------------------ MODULE Ranking ------------------------------
(***************************************************************************)
(* collector.rs: how documents are scored against what has been shown, and *)
(* the definition of a diversified ranking that the collector is checked   *)
(* against.  A document is a record with a score and the hashes of its     *)
(* site, title and url.  An adjusted score is the score divided by a       *)
(* divisor: with the scales 14, 6 and 0.1 the penalties                    *)
(*    14 / (14 + sites) * 6 / (6 + titles) * 0.1 / (0.1 + urls)            *)
(* are 84 over an integer, and two adjusted scores compare by products.    *)
(***************************************************************************)
EXTENDS Naturals, Sequences, FiniteSets

CONSTANT Hashes         \* the 128-bit hashes of sites, titles and urls

NoCounts == [h \in Hashes |-> 0]

\* One map counts all three kinds of hashes.
UpdateCounts(count, d) ==
  [h \in Hashes |-> count[h] + Cardinality({f \in {"site", "url", "title"} : d[f] = h})]

AdjustScore(count, d) ==
  (14 + count[d.site]) * (1 + 10 * count[d.url]) * (6 + count[d.title])

\* d over its divisor scores more than e over its own.
Exceeds(d, divisor, e, other) == d.score * other > e.score * divisor

\* What has been counted when the first n documents of ids were shown.
CountsAfter(doc, ids, n) ==
  LET count[i \in 0 .. n] ==
        IF i = 0 THEN NoCounts ELSE UpdateCounts(count[i - 1], doc[ids[i]])
  IN  count[n]

\* The set ids holds n of the documents in from (all, if there are fewer),
\* none of them scoring less than one left out.
AreTheBest(doc, ids, from, n) ==
  /\ ids \subseteq from
  /\ Cardinality(ids) = IF Cardinality(from) < n THEN Cardinality(from) ELSE n
  /\ \A i \in ids, k \in from \ ids : doc[i].score >= doc[k].score

\* The sequence shows n of the documents in kept (or all), each time one that
\* has the best adjusted score of those left.
IsGreedyRanking(doc, shown, kept, n) ==
  /\ Len(shown) = IF Cardinality(kept) < n THEN Cardinality(kept) ELSE n
  /\ \A i \in 1 .. Len(shown) :
       LET before == {shown[k] : k \in 1 .. i - 1}
           count == CountsAfter(doc, shown, i - 1)
       IN  /\ shown[i] \in kept \ before
           /\ \A d \in kept \ before :
                ~Exceeds(doc[d], AdjustScore(count, doc[d]),
                         doc[shown[i]], AdjustScore(count, doc[shown[i]]))
=============================================================================
