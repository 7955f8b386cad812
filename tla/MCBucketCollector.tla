-------------------------- MODULE MCBucketCollector -------------------------
(* Four documents in two segments; pages of one site, of the same url, one  *)
(* whose title is the name of another's site, ties, and a score of zero.    *)
EXTENDS BucketCollector

MCHashes == 1 .. 7
MCDocs == 1 .. 4
MCSegments == 1 .. 2
MCSegmentOf == [i \in MCDocs |-> IF i <= 3 THEN 1 ELSE 2]
Page1(score, site, title, url) ==
  [score |-> score, site |-> site, title |-> title, url |-> url]
MCPages == {Page1(30, 1, 3, 4), Page1(29, 1, 3, 5), Page1(29, 2, 1, 6), Page1(29, 2, 6, 7), Page1(0, 2, 2, 4)}
MCRequests ==
  {[top |-> t, offset |-> o, max |-> m, deRank |-> d] :
     t \in {1, 2}, o \in {0, 1}, m \in {2, 9}, d \in BOOLEAN}
=============================================================================
