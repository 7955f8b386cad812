------------------------------ MODULE DocSets ------------------------------
(***************************************************************************)
(* The three DocSets of the goggle queries over posting lists:             *)
(*                                                                         *)
(*   "union"         Union            (query/union.rs)                     *)
(*   "intersection"  Intersection     (query/intersection.rs)              *)
(*   "pattern"       PatternScorer    (ranking/goggles/pattern_query.rs),  *)
(*                   which filters an Intersection                         *)
(*                                                                         *)
(* A step is one call to a posting list.  The lists are SegmentPostings of *)
(* tantivy, in the order in which the compound DocSet keeps them.          *)
(***************************************************************************)
EXTENDS Integers, Sequences

CONSTANTS NumDocs,     \* documents are 0 .. NumDocs - 1
          Inputs       \* kind, lists, and what a match of the pattern says

ASSUME DocSetsAssumption ==
  /\ NumDocs \in Nat
  /\ \A in \in Inputs :
       /\ in.kind \in {"union", "intersection", "pattern"}
       /\ in.lists \in Seq(SUBSET (0 .. NumDocs - 1))
       /\ in.kind = "intersection" => Len(in.lists) >= 2

Docs == 0 .. NumDocs - 1
Terminated == NumDocs
Positions == 0 .. NumDocs

VARIABLES input,       \* the DocSet: an element of Inputs
          heads,       \* the position of each posting list
          request,     \* the call that the DocSet works on
          at,          \* what the last call returned
          furthest,    \* history: the greatest aim of all calls
          pc,          \* where in its loops it is
          candidate,   \* the local variable of this name
          turn         \* the posting list whose turn it is in a loop

vars == <<input, heads, request, at, furthest, pc, candidate, turn>>

NoRequest == [op |-> "none", aim |-> 0]

Ask(op, aim) == /\ request' = [op |-> op, aim |-> aim]
                /\ furthest' = IF aim > furthest THEN aim ELSE furthest

Lists == 1 .. Len(input.lists)

\* SegmentPostings::seek: to the first document from t on, never back.
FirstFrom(in, k, t) ==
  CHOOSE d \in in.lists[k] \cup {Terminated} :
    /\ d >= t
    /\ \A e \in in.lists[k] : e >= t => d <= e

SeekIn(k, t) == FirstFrom(input, k, IF t > heads[k] THEN t ELSE heads[k])

\* SegmentPostings::advance, which stays where it is at the end.
AdvanceIn(k) == SeekIn(k, IF heads[k] = Terminated THEN Terminated
                                                   ELSE heads[k] + 1)

Greatest(h) == CHOOSE d \in {h[k] : k \in DOMAIN h} : \A k \in DOMAIN h : h[k] <= d

\* Union::doc: the least head; the end if there is none.
Least(h) == CHOOSE d \in {h[k] : k \in DOMAIN h} \cup {Terminated} :
              \A k \in DOMAIN h : d <= h[k]

IsUnion == input.kind = "union"

FirstHeads(in) == [k \in 1 .. Len(in.lists) |-> FirstFrom(in, k, 0)]

\* Union::from needs no call; Intersection::new goes to the first document,
\* and asserts that there are at least two lists.
Init ==
  /\ input \in Inputs
  /\ heads = FirstHeads(input)
  /\ turn = 1
  /\ furthest = 0
  /\ IF IsUnion
       THEN /\ pc = "idle"
            /\ at = Least(heads)
            /\ candidate = 0
            /\ request = NoRequest
       ELSE IF Len(input.lists) < 2
              THEN pc = "panicked" /\ at = 0 /\ candidate = 0
                   /\ request = [op |-> "new", aim |-> 0]
              ELSE /\ pc = "first"
                   /\ at = 0
                   /\ candidate = Greatest(heads)
                   /\ request = [op |-> "new", aim |-> 0]
-----------------------------------------------------------------------------
(* Union *)

UnionCall(op, aim) ==
  /\ IsUnion
  /\ pc = "idle"
  /\ Ask(op, aim)
  /\ pc' = "heads"
  /\ UNCHANGED <<input, heads, at, candidate, turn>>

\* The heap gives any of the least heads.
OldHeads == {k \in Lists : heads[k] = at /\ heads[k] = Least(heads)}

\* Without the comparison with the target, a seek to where it stands hangs.
StillOld_IgnoresTarget == OldHeads /= {}

StillOld == /\ OldHeads /= {}
            /\ request.op = "seek" => at /= request.aim

UnionMoveHead ==
  /\ IsUnion
  /\ pc = "heads"
  /\ StillOld
  /\ \E k \in OldHeads :
       heads' = [heads EXCEPT ![k] = IF request.op = "seek"
                                       THEN SeekIn(k, request.aim)
                                       ELSE AdvanceIn(k)]
  /\ UNCHANGED <<input, request, at, furthest, pc, candidate, turn>>

UnionReturn ==
  /\ IsUnion
  /\ pc = "heads"
  /\ ~StillOld
  /\ at' = Least(heads)
  /\ request' = NoRequest
  /\ pc' = "idle"
  /\ UNCHANGED <<input, heads, furthest, candidate, turn>>
-----------------------------------------------------------------------------
(* Intersection *)

AdvanceLeft ==
  /\ heads' = [heads EXCEPT ![1] = AdvanceIn(1)]
  /\ candidate' = AdvanceIn(1)
  /\ pc' = "right"
  /\ UNCHANGED <<input, turn, at>>

IntersectionAdvance ==
  /\ ~IsUnion
  /\ pc = "idle"
  /\ at /= Terminated
  /\ Ask("advance", at + 1)
  /\ AdvanceLeft

\* seek moves the left list to the target and then looks for a first document.
IntersectionSeek(aim) ==
  /\ ~IsUnion
  /\ pc = "idle"
  /\ Ask("seek", aim)
  /\ heads' = [heads EXCEPT ![1] = SeekIn(1, aim)]
  /\ candidate' = Greatest(heads')
  /\ turn' = 1
  /\ pc' = "first"
  /\ UNCHANGED <<input, at>>

\* Without "continue 'outer" the lists before this one stay behind.
GoToFirst_GoesOn ==
  /\ pc = "first"
  /\ LET d == SeekIn(turn, candidate) IN
       /\ heads' = [heads EXCEPT ![turn] = d]
       /\ candidate' = IF d > candidate THEN d ELSE candidate
  /\ IF turn < Len(input.lists)
       THEN turn' = turn + 1 /\ UNCHANGED pc
       ELSE turn' = 1 /\ pc' = "found"
  /\ UNCHANGED <<input, request, at, furthest>>

\* go_to_first_doc, one turn of its loop.
GoToFirst ==
  /\ pc = "first"
  /\ LET d == SeekIn(turn, candidate) IN
       /\ heads' = [heads EXCEPT ![turn] = d]
       /\ IF d > candidate
            THEN candidate' = d /\ turn' = 1 /\ UNCHANGED pc
            ELSE /\ UNCHANGED candidate
                 /\ IF turn < Len(input.lists)
                      THEN turn' = turn + 1 /\ UNCHANGED pc
                      ELSE turn' = 1 /\ pc' = "found"
  /\ UNCHANGED <<input, request, at, furthest>>

SeekRight ==
  /\ pc = "right"
  /\ heads' = [heads EXCEPT ![2] = SeekIn(2, candidate)]
  /\ pc' = "left"
  /\ UNCHANGED <<input, request, at, furthest, candidate, turn>>

SeekLeft ==
  /\ pc = "left"
  /\ LET d == SeekIn(1, heads[2]) IN
       /\ heads' = [heads EXCEPT ![1] = d]
       /\ candidate' = d
       /\ IF d /= heads[2]
            THEN pc' = "right" /\ UNCHANGED turn
            ELSE IF Len(input.lists) = 2
                   THEN pc' = "found" /\ UNCHANGED turn
                   ELSE pc' = "others" /\ turn' = 3
  /\ UNCHANGED <<input, request, at, furthest>>

SeekOther ==
  /\ pc = "others"
  /\ LET d == SeekIn(turn, candidate) IN
       IF d > candidate
         THEN /\ heads' = [heads EXCEPT ![turn] = d, ![1] = SeekIn(1, d)]
              /\ candidate' = SeekIn(1, d)
              /\ pc' = "right"
              /\ turn' = 1
         ELSE /\ heads' = [heads EXCEPT ![turn] = d]
              /\ UNCHANGED candidate
              /\ IF turn < Len(input.lists)
                   THEN turn' = turn + 1 /\ UNCHANGED pc
                   ELSE turn' = 1 /\ pc' = "found"
  /\ UNCHANGED <<input, request, at, furthest>>
-----------------------------------------------------------------------------
(* PatternScorer *)

\* A seek that returns what the intersection gives.
LooksAtPositions_NotInSeek == /\ input.kind = "pattern"
                              /\ request.op = "advance"
                              /\ candidate /= Terminated

\* The positions are looked at after a call, but not for the first document.
LooksAtPositions == /\ input.kind = "pattern"
                    /\ request.op /= "new"
                    /\ candidate /= Terminated

Return ==
  /\ pc = "found"
  /\ LooksAtPositions => candidate \in input.matching
  /\ at' = candidate
  /\ request' = NoRequest
  /\ pc' = "idle"
  /\ UNCHANGED <<input, heads, furthest, candidate, turn>>

NoMatch ==
  /\ pc = "found"
  /\ LooksAtPositions
  /\ candidate \notin input.matching \cup input.panics
  /\ AdvanceLeft
  /\ UNCHANGED <<request, furthest>>

\* docset_mut_specialized: there are fewer lists than parts of the pattern.
IndexOutOfBounds ==
  /\ pc = "found"
  /\ LooksAtPositions
  /\ candidate \in input.panics
  /\ pc' = "panicked"
  /\ UNCHANGED <<input, heads, request, at, furthest, candidate, turn>>
-----------------------------------------------------------------------------
Advance == \/ IntersectionAdvance
           \/ at /= Terminated /\ UnionCall("advance", at + 1)

Seek == /\ at /= Terminated
        /\ \E aim \in at .. Terminated :
             IntersectionSeek(aim) \/ UnionCall("seek", aim)

Work == \/ UnionMoveHead \/ UnionReturn
        \/ GoToFirst \/ SeekRight \/ SeekLeft \/ SeekOther
        \/ Return \/ NoMatch \/ IndexOutOfBounds

Next == Advance \/ Seek \/ Work

Spec == Init /\ [][Next]_vars /\ WF_vars(Work)
-----------------------------------------------------------------------------
TypeOK ==
  /\ input.lists \in Seq(SUBSET Docs)
  /\ heads \in [Lists -> Positions]
  /\ at \in Positions
  /\ candidate \in Positions
  /\ turn \in 1 .. (IF Len(input.lists) = 0 THEN 1 ELSE Len(input.lists))
  /\ request \in [op : {"none", "new", "advance", "seek"}, aim : Positions]
  /\ pc \in {"idle", "heads", "first", "right", "left", "others", "found", "panicked"}

(* What the loops of Intersection rely on and its debug assertions say       *)
(* (intersection.rs, 75 to 99; pattern_query.rs, 365): no posting list is    *)
(* asked to seek back, and all stand on the document that is returned.       *)
DebugAssertionsHold ==
  /\ pc = "first" => heads[turn] <= candidate
  /\ pc = "right" => heads[1] = candidate /\ heads[2] <= candidate
  /\ pc = "left" => heads[1] <= heads[2]
  /\ pc = "others" => /\ heads[1] = candidate /\ heads[2] = candidate
                      /\ heads[turn] <= candidate
  /\ pc = "found" => /\ \A k \in Lists : heads[k] = candidate
                     /\ candidate >= request.aim

(* The documents of the compound DocSet: of some list, of all lists, or of   *)
(* all lists and with the terms in the places that the pattern asks for.     *)
Found == {d \in Docs :
            IF IsUnion
              THEN \E k \in Lists : d \in input.lists[k]
              ELSE /\ \A k \in Lists : d \in input.lists[k]
                   /\ input.kind = "pattern" => d \in input.meaning}

FirstOf(S) == CHOOSE d \in S \cup {Terminated} : \A e \in S : d <= e

\* What the positions of a document say of a pattern is what it means, if it
\* can be used at all.
MeaningIsRight(in) ==
  in.kind = "pattern" =>
    \A d \in Docs : (\A k \in 1 .. Len(in.lists) : d \in in.lists[k]) =>
      /\ d \in in.matching => d \in in.meaning
      /\ d \in in.meaning => d \in in.matching \cup in.panics

IsNew == request.op = "new"

(* Every DocSet is a cursor: from the first document that all lists share    *)
(* on, each call goes to the first document from its aim, skipping none and  *)
(* inventing none.  A seek of a union may stop short (union.rs, 97 to 123). *)
Abstract == INSTANCE Cursor WITH
  list <- Found,
  exact <- ~IsUnion,
  at <- IF IsNew THEN FirstOf({d \in Docs : \A k \in Lists : d \in input.lists[k]})
                 ELSE at,
  request <- IF IsNew THEN NoRequest ELSE request

ImplementsCursor == Abstract!Spec

(* The loops end: every call returns, or panics over an unusable pattern.    *)
CallsReturn == request /= NoRequest ~> request = NoRequest \/ pc = "panicked"
=============================================================================
