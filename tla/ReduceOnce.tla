----------------------------- MODULE ReduceOnce ----------------------------
(***************************************************************************)
(* What Manager::run promises: the results of all jobs, each reduced into  *)
(* the accumulator exactly once and in some order, or a panic.             *)
(***************************************************************************)
EXTENDS Naturals, Sequences

CONSTANT NJobs

Jobs == 1 .. NJobs

VARIABLES acc,           \* the jobs reduced so far
          outcome        \* "running", "returned" or "panicked"

vars == <<acc, outcome>>

Reduced == {acc[i] : i \in 1 .. Len(acc)}

Init == acc = <<>> /\ outcome = "running"

Reduce == /\ outcome = "running"
          /\ \E j \in Jobs \ Reduced : acc' = Append(acc, j)
          /\ UNCHANGED outcome

Return == /\ outcome = "running"
          /\ Reduced = Jobs
          /\ outcome' = "returned"
          /\ UNCHANGED acc

Panic == /\ outcome = "running"
         /\ Reduced /= Jobs
         /\ outcome' = "panicked"
         /\ UNCHANGED acc

Next == Reduce \/ Return \/ Panic

Spec == Init /\ [][Next]_vars
=============================================================================
