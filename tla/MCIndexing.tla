----------------------------- MODULE MCIndexing ----------------------------
(***************************************************************************)
(* Two jobs that may be interrupted, or three that are not, over three     *)
(* files, one of which is damaged so that three reads give nothing.        *)
(***************************************************************************)
EXTENDS Indexing

CONSTANTS us, fr, h1, h2

MCPlans == {[jobs |-> <<{"f1", "f2"}, {"f3"}>>, runs |-> 1, images |-> FALSE],
            [jobs |-> <<{"f1"}, {"f3"}>>, runs |-> 2, images |-> FALSE],
            [jobs |-> <<{"f1"}, {"f2"}, {"f3"}>>, runs |-> 1, images |-> FALSE],
            [jobs |-> <<{"f1"}, {"f3"}>>, runs |-> 2, images |-> TRUE]}

Captures == {"a1", "a2", "b1", "b2", "b3", "c1", "c2"}

MCContent == [f1 |-> FileOf(<<"a1", "a2">>, <<>>),
              f2 |-> FileOf(<<"b1", "b2", "b3">>, [b1 |-> 3]),
              f3 |-> FileOf(<<"c1", "c2">>, <<>>)]

MCWanted == Captures \ {"c1"}

MCTitled == Captures \ {"a2"}

MCRegionOf == [c \in Captures |-> CASE c = "b2" -> Unknown
                                    [] c = "c2" -> fr
                                    [] OTHER -> us]

MCHostOf == [c \in Captures |-> CASE c \in {"a1", "c2"} -> h1
                                  [] c = "b3" -> h2
                                  [] OTHER -> Unknown]

MCWordsOf == [c \in Captures |-> CASE c = "a1" -> 1 :> 2
                                   [] c = "a2" -> 1 :> 1 @@ 2 :> 1
                                   [] c = "b2" -> 2 :> 1
                                   [] OTHER -> 3 :> 2]
=============================================================================
