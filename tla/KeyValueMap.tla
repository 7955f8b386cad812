---------------------------- MODULE KeyValueMap ----------------------------
(***************************************************************************)
(* A map with nothing to forget: the contract the callers of CachedTree    *)
(* (GraphStore, and through it Webgraph) rely on.                          *)
(***************************************************************************)
CONSTANTS Keys, Values, NoValue

VARIABLE content

Init == content = [k \in Keys |-> NoValue]

Write(k, v) == content' = [content EXCEPT ![k] = v]

Next == \E k \in Keys, v \in Values : Write(k, v)

Spec == Init /\ [][Next]_content
=============================================================================
