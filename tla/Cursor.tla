------------------------------- MODULE Cursor ------------------------------
(***************************************************************************)
(* A cursor over a sorted list of documents, which is what a DocSet is.    *)
(* It is somewhere from the start, and a call moves it to the first        *)
(* document of the list from an aim on.  An exact cursor keeps the         *)
(* contract of tantivy's DocSet::seek.  One that is not exact is weaker:   *)
(* it may stop short of the aim of a seek, and it may then leave out any   *)
(* document before that aim; it never skips one beyond all aims so far.    *)
(* Only a Union is not exact.  tantivy's queries take what a seek returns  *)
(* for what they asked for: what then goes wrong is in Queries.            *)
(***************************************************************************)
EXTENDS Integers

CONSTANT NumDocs

Terminated == NumDocs              \* follows all documents
Positions == 0 .. NumDocs

VARIABLES list,        \* the documents that the cursor runs over
          exact,       \* whether a seek reaches its aim
          at,          \* where the last call left the cursor
          request,     \* the call that is not answered yet
          furthest     \* the greatest aim so far

vars == <<list, exact, at, request, furthest>>

NoRequest == [op |-> "none", aim |-> 0]

LowerBound == IF exact \/ request.op = "advance" THEN request.aim ELSE at

Lands(d) == /\ d \in list \cup {Terminated}
            /\ d >= LowerBound
            /\ \A e \in list : e >= furthest => d <= e

Init == at \in Positions /\ request = NoRequest /\ furthest = 0

Ask(op, aim) == /\ request' = [op |-> op, aim |-> aim]
                /\ furthest' = IF aim > furthest THEN aim ELSE furthest
                /\ UNCHANGED <<list, exact, at>>

CallAdvance == /\ request = NoRequest
               /\ at /= Terminated
               /\ Ask("advance", at + 1)

CallSeek == /\ request = NoRequest
            /\ at /= Terminated
            /\ \E aim \in at .. Terminated : Ask("seek", aim)

Answer == /\ request /= NoRequest
          /\ \E d \in Positions : Lands(d) /\ at' = d
          /\ request' = NoRequest
          /\ UNCHANGED <<list, exact, furthest>>

Next == CallAdvance \/ CallSeek \/ Answer

Spec == Init /\ [][Next]_vars
=============================================================================
