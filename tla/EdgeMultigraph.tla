--------------------------- MODULE EdgeMultigraph --------------------------
(***************************************************************************)
(* What a GraphStore is to the code above it: a multiset of edges between  *)
(* nodes, kept across a restart as it was at the last flush.               *)
(***************************************************************************)
EXTENDS Naturals

CONSTANT Nodes

VARIABLES edges,         \* [Nodes \X Nodes -> Nat]
          saved

vars == <<edges, saved>>

Init == /\ edges = [e \in Nodes \X Nodes |-> 0]
        /\ saved = edges

Plus(f, e) == [f EXCEPT ![e] = @ + 1]

Add == /\ LET now == edges
              next == edges'
          IN  next /= now /\ next \in {Plus(now, e) : e \in Nodes \X Nodes}
       /\ UNCHANGED saved

Save == /\ saved' = edges
        /\ UNCHANGED edges

Restart == /\ edges' = saved
           /\ UNCHANGED saved

Next == Save \/ Restart \/ Add

Spec == Init /\ [][Next]_vars
=============================================================================
