--------------------------- MODULE ForgetfulMap ----------------------------
(***************************************************************************)
(* What a CachedTree promises its callers, whatever the capacity: a map    *)
(* with a durable copy.  A write is visible at once.  A read may make the  *)
(* map forget ONE other key, whose value falls back to its durable one; a  *)
(* write that has no old value to look up first never forgets anything.    *)
(* A restart falls back to the durable copy everywhere.                    *)
(***************************************************************************)
EXTENDS Naturals

CONSTANTS Keys, Values, NoValue

VARIABLES content,       \* [Keys -> Values \cup {NoValue}], what a read returns
          durable        \* what a restart leaves

vars == <<content, durable>>

Init == /\ content = [k \in Keys |-> NoValue]
        /\ durable = [k \in Keys |-> NoValue]

Forget(f, S) == [k \in Keys |-> IF k \in S THEN durable[k] ELSE f[k]]

\* A fresh write: at most one key is made durable to make room.
Write(k, v) ==
  /\ content' = [content EXCEPT ![k] = v]
  /\ \/ UNCHANGED durable
     \/ \E j \in Keys : durable' = [durable EXCEPT ![j] = content[j]]

Read(k) ==
  /\ \E j \in Keys \ {k} : content' = Forget(content, {j})
  /\ UNCHANGED durable

\* A read and then a write of the value found.
Modify(k, v) ==
  /\ content[k] /= NoValue
  /\ \/ content' = [content EXCEPT ![k] = v]
     \/ \E j \in Keys \ {k} : content' = [Forget(content, {j}) EXCEPT ![k] = v]
  /\ UNCHANGED durable

Persist == /\ durable' = content
           /\ UNCHANGED content

Restart == /\ content' = durable
           /\ UNCHANGED durable

Next == \/ \E k \in Keys, v \in Values : Write(k, v) \/ Modify(k, v)
        \/ \E k \in Keys : Read(k)
        \/ Persist
        \/ Restart

Spec == Init /\ [][Next]_vars
=============================================================================
