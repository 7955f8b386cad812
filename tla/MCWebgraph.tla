----------------------------- MODULE MCWebgraph ----------------------------
(* Three pages on two hosts, two segments; the two pages of one host are   *)
(* interchangeable, and so are the segments.                               *)
EXTENDS Webgraph, TLC

CONSTANTS a1, a2, b1, h1, h2, s1, s2

MCPages == {a1, a2, b1}
MCHosts == {h1, h2}
MCNodes == MCPages \cup MCHosts
MCHostOf == [p \in MCPages |-> IF p = b1 THEN h2 ELSE h1]
MCSegments == {s1, s2}
MCBuilds == {Parts, {"host"}}
MCFullOnly == {{"full"}}
MCRoomy == {[f \in Trees |-> 3]}
MCTight == {[f \in Trees |-> 1]}
MCBoth == MCRoomy \cup MCTight
MCSymmetry == Permutations({a1, a2}) \cup Permutations({s1, s2})
=============================================================================
