----------------------------- MODULE IndexData -----------------------------
(***************************************************************************)
(* The data of an index and what is done to it (index.rs,                  *)
(* inverted_index.rs, spell/dictionary.rs, subdomain_count.rs).            *)
(*                                                                         *)
(* An index is a directory with                                            *)
(*   segments   the tantivy segments that meta.json lists, each a bag of   *)
(*              pages                                                      *)
(*   made       it has an inverted index and a dictionary: opening it      *)
(*              creates nothing                                            *)
(*   broken     it cannot be opened: some of its files are not there       *)
(*   words      the dictionary: how often each word occurs, pruned         *)
(*   regions    how many pages there are of each region                    *)
(*   hosts      the domains with their subdomains                          *)
(* The image stores are left out.                                          *)
(***************************************************************************)
EXTENDS Integers, Sequences, SequencesExt, Bags, TLC

CONSTANTS TopN,            \* words that a dictionary keeps: 100 000 in the code
          FinalSegments    \* the segments of a finished index: 20 in the code

ASSUME IndexDataAssumption ==
  TopN \in Nat \ {0} /\ FinalSegments \in Nat \ {0}

NewIndex == [segments |-> <<>>, made |-> FALSE, broken |-> FALSE,
             words |-> EmptyBag, regions |-> EmptyBag, hosts |-> {}]

Copies(x, bag) == IF x \in DOMAIN bag THEN bag[x] ELSE 0

\* The sum of the values of a function: how many pairs of an argument and a
\* number up to its value there are.
Points(count) == UNION {{<<i, n>> : n \in 1 .. count[i]} : i \in DOMAIN count}
Total(count) == Cardinality(Points(count))

NumDocs(segment) == Total(segment)

CopiesAmong(page, segments) == Total([k \in DOMAIN segments |-> Copies(page, segments[k])])

PagesIn(segments) ==
  [page \in UNION {DOMAIN segments[k] : k \in DOMAIN segments} |-> CopiesAmong(page, segments)]

\* InvertedIndex::commit; NoMergePolicy leaves the other segments alone.
AddSegment(segments, pages) ==
  IF pages = EmptyBag THEN segments ELSE Append(segments, pages)

\* Some of the segments in another order: upTo has the places of those that
\* come up to each of them.
Listed(segments, upTo) ==
  [r \in 1 .. Cardinality(DOMAIN upTo) |->
     segments[CHOOSE k \in DOMAIN upTo : Cardinality(upTo[k]) = r]]

\* sort_by_key, which leaves segments of the same size as they stand.
LargestFirst(segments) ==
  LET UpTo(k) == {l \in DOMAIN segments :
                    \/ NumDocs(segments[l]) > NumDocs(segments[k])
                    \/ NumDocs(segments[l]) = NumDocs(segments[k]) /\ l <= k}
  IN  Listed(segments, [k \in DOMAIN segments |-> UpTo(k)])

\* The metadata that InvertedIndex::merge writes.
MergedSegments(own, others) == LargestFirst(own \o others)

\* store_union: a heap drops the rarest word, of equal ones the last.
Pruned(words) ==
  LET Before(v, w) == words[v] > words[w] \/ (words[v] = words[w] /\ v < w)
      kept == {w \in DOMAIN words :
                 Cardinality({v \in DOMAIN words : Before(v, w)}) < TopN}
  IN  [w \in kept |-> words[w]]

\* How many documents merge k has when segment i is to be given to one.
Given(segments, turn, i, k) ==
  Total([l \in {m \in 1 .. i - 1 : turn[m] = k} |-> NumDocs(segments[l])])

\* min_by: each segment goes to the first of the merges that are smallest when
\* the segments before it have gone to theirs.
GoesToSmallest(segments, turn) ==
  \A i \in DOMAIN segments : \A k \in 1 .. FinalSegments :
    \/ Given(segments, turn, i, turn[i]) < Given(segments, turn, i, k)
    \/ Given(segments, turn, i, turn[i]) = Given(segments, turn, i, k) /\ turn[i] <= k

\* merge_into_segments: the largest segment first; merges of nothing are left out.
MergeIntoSegments(segments) ==
  LET sorted == LargestFirst(segments)
      turn == CHOOSE t \in [DOMAIN sorted -> 1 .. FinalSegments] : GoesToSmallest(sorted, t)
      Merge(k) == {i \in DOMAIN sorted : turn[i] = k}
      used == {k \in 1 .. FinalSegments : Merge(k) /= {}}
      merged == [k \in used |-> PagesIn([i \in Merge(k) |-> sorted[i]])]
  IN  IF Len(segments) > 1
        THEN Listed(merged, [k \in used |-> {l \in used : l <= k}])
        ELSE segments
=============================================================================
