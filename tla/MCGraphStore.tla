---------------------------- MODULE MCGraphStore ---------------------------
(* Three nodes in blocks of two ids, so a second block is in use once all  *)
(* are inserted; caches of one entry, or with room for everything.         *)
EXTENDS Distances, TLC

CONSTANTS n1, n2, n3

MCNodes == {n1, n2, n3}
MCTight == [f \in Trees |-> 1]
MCRoomy == [f \in Trees |-> 3]
MCBoth == {MCTight, MCRoomy}
MCTightOnly == {MCTight}
MCRoomyOnly == {MCRoomy}
MCNone == {}
MCSymmetry == Permutations(MCNodes)
=============================================================================
