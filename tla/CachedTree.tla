----------------------------- MODULE CachedTree ----------------------------
(***************************************************************************)
(* webgraph/graph_store.rs: one CachedTree, driven by any sequence of      *)
(* legal calls.  The structure itself is in LruTree; here are the calls,   *)
(* one action each, and what they may and may not do to what a reader      *)
(* sees.  A GraphStore keeps each tree behind a Mutex: a call is atomic.   *)
(***************************************************************************)
EXTENDS LruTree, FiniteSets

CONSTANTS Keys, Values,
          Capacities       \* the cache_size the tree may be built with

ASSUME CachedTreeAssumption ==
  /\ IsFiniteSet(Keys)
  /\ NoValue \notin Values
  /\ Capacities \subseteq Nat \ {0}

VARIABLE tree

Init == \E cap \in Capacities : tree = OpenTree(NoEntries, cap)

CallGet(k) == tree' = Get(tree, k)

\* get_mut finds the key and the caller writes v through the reference.
CallGetMut(k, v) ==
  /\ Known(tree, k)
  /\ tree' = Mutate(tree, k, v)

CallInsert(k, v) == tree' = Insert(tree, k, v)

CallFlush == tree' = Flush(tree)

\* The process dies between two calls, or drops the tree without a flush.
Restart == tree' = Reopen(tree)

Next ==
  \/ \E k \in Keys : CallGet(k)
  \/ \E k \in Keys, v \in Values : CallGetMut(k, v)
  \/ \E k \in Keys, v \in Values : CallInsert(k, v)
  \/ CallFlush
  \/ Restart

Spec == Init /\ [][Next]_tree

----------------------------------------------------------------------------
Entries == UNION {[S -> Values] : S \in SUBSET Keys}

\* The type of the state.
TypeOK ==
  tree \in [store : Entries, cache : Entries, lru : Seq(Keys), cap : Capacities]

\* The recency list and the table of the LRU cache never drift apart: the
\* list names exactly the cached keys, once each, never more than the
\* capacity.  (insert writes back what pop_lru returns, the list's tail: a
\* tail that is not cached, or listed twice, would be written back wrongly.)
LruConsistent ==
  /\ {tree.lru[i] : i \in 1 .. Len(tree.lru)} = DOMAIN tree.cache
  /\ \A i, j \in 1 .. Len(tree.lru) : tree.lru[i] = tree.lru[j] => i = j
  /\ Len(tree.lru) <= tree.cap

\* What every key reads as, and what the store alone would give.
View == [k \in Keys |-> Peek(tree, k)]
Durable == [k \in Keys |-> Lookup(tree.store, k)]

\* Once nothing is dirty (after flush, in a graph opened to be read) no
\* sequence of gets changes what a later get returns, however small the
\* cache and whatever it evicts.
Clean == \A k \in Keys : ~Dirty(tree, k)
CleanReadsLoseNothing ==
  [][Clean /\ (\E k \in Keys : CallGet(k)) => View' = View /\ Clean']_tree

\* insert pushes a dirty entry out only after it wrote it to the store: no
\* other key changes under an insert.
InsertLosesNothing ==
  [][\A k \in Keys, v \in Values :
       CallInsert(k, v) => View' = [View EXCEPT ![k] = v]]_tree

\* A tree implements the ForgetfulMap, whatever its capacity: nothing is
\* lost except the one entry a load pushes out of a full cache, and what a
\* restart finds is a value each key really had.
Forgetful == INSTANCE ForgetfulMap WITH content <- View, durable <- Durable
ImplementsForgetfulMap == Forgetful!Spec

\* With room for every key in the cache the tree is a plain map: a write
\* writes its key, and neither a read nor a flush changes what any key reads
\* as; only a restart loses a write.  (The code never checks that there is
\* room: its capacities are 1_000, 10_000 and 100_000 entries.)
Reliable == INSTANCE KeyValueMap WITH content <- View
HasRoom == Cardinality(Keys) <= tree.cap
ActsAsMap ==
  /\ \A k \in Keys : CallGet(k) => UNCHANGED View
  /\ \A k \in Keys, v \in Values :
       CallGetMut(k, v) \/ CallInsert(k, v) => Reliable!Write(k, v)
  /\ CallFlush => UNCHANGED View
ReliableWithRoom == [][HasRoom => ActsAsMap]_tree
=============================================================================
