--------------------------- MODULE MCCachedTree ----------------------------
(* Three keys and two values; the cache holds one, two or all of the keys. *)
EXTENDS CachedTree

CONSTANTS k1, k2, k3, v1, v2

MCKeys == {k1, k2, k3}
MCValues == {v1, v2}
MCCapacities == {1, 2, 3}
=============================================================================
