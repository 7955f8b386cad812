------------------------------ MODULE LruTree ------------------------------
(***************************************************************************)
(* The data structure behind webgraph/graph_store.rs: CachedTree, a        *)
(* write-back LRU cache (the lru crate's LruCache) in front of a Kv store  *)
(* (RocksDB).  A tree is a record                                          *)
(*                                                                         *)
(*    store : a partial function, what the Kv store holds                  *)
(*    cache : a partial function, what the LruCache holds                  *)
(*    lru   : the cached keys, the most recently used first                *)
(*    cap   : the capacity the LruCache was built with                     *)
(*                                                                         *)
(* Definitions whose name ends in a slip (_NoWriteBack ...) are what the   *)
(* one they precede could plausibly have been; nothing uses them.          *)
(***************************************************************************)
EXTENDS Naturals, Sequences

NoValue == "no value"            \* Option::None

With(f, k, v) == [x \in DOMAIN f \cup {k} |-> IF x = k THEN v ELSE f[x]]
Without(f, k) == [x \in DOMAIN f \ {k} |-> f[x]]
Lookup(f, k) == IF k \in DOMAIN f THEN f[k] ELSE NoValue
NoEntries == [x \in {} |-> NoValue]

\* CachedTree::new on the path of a store with these entries.
OpenTree(entries, cap) ==
  [store |-> entries, cache |-> NoEntries, lru |-> <<>>, cap |-> cap]

----------------------------------------------------------------------------
\* LruCache (external): what contains, get, put, push and pop_lru do.

\* k becomes the most recently used key, wherever it was.
MoveToFront(s, k) ==
  IF \E i \in 1 .. Len(s) : s[i] = k
  THEN LET p == CHOOSE i \in 1 .. Len(s) : s[i] = k
       IN  [i \in 1 .. Len(s) |-> IF i = 1 THEN k
                                  ELSE IF i <= p THEN s[i - 1] ELSE s[i]]
  ELSE [i \in 1 .. Len(s) + 1 |-> IF i = 1 THEN k ELSE s[i - 1]]

IsFull(t) == Len(t.lru) = t.cap
Oldest(t) == t.lru[Len(t.lru)]

\* The table and the recency list after removing the oldest entry ...
PopLru(t) == [t EXCEPT !.cache = Without(t.cache, Oldest(t)),
                       !.lru = SubSeq(t.lru, 1, Len(t.lru) - 1)]

CacheTouch(t, k) ==
  IF k \in DOMAIN t.cache THEN [t EXCEPT !.lru = MoveToFront(t.lru, k)] ELSE t

\* ... and after a put or push: a full cache drops its oldest entry for a
\* new key, whatever the entry holds.
CachePut(t, k, v) ==
  LET room == IF k \notin DOMAIN t.cache /\ IsFull(t) THEN PopLru(t) ELSE t
  IN  [room EXCEPT !.cache = With(room.cache, k, v),
                   !.lru = MoveToFront(room.lru, k)]

----------------------------------------------------------------------------
\* CachedTree

\* Load the stored value without looking at the cache first.
UpdateCache_IgnoresCache(t, k) ==
  IF k \in DOMAIN t.store THEN CachePut(t, k, t.store[k]) ELSE t

UpdateCache(t, k) ==
  IF k \notin DOMAIN t.cache /\ k \in DOMAIN t.store
  THEN CachePut(t, k, t.store[k])
  ELSE t

\* The tree after get(k) or get_mut(k) ...
Get(t, k) == CacheTouch(UpdateCache(t, k), k)

\* ... and the value they find: the cached one, else the stored one.
Peek(t, k) == IF k \in DOMAIN t.cache THEN t.cache[k] ELSE Lookup(t.store, k)

\* get_mut(k) found the key and the caller overwrote the value in place.
Mutate(t, k, v) ==
  LET found == Get(t, k) IN [found EXCEPT !.cache = With(found.cache, k, v)]

\* Push the entry out of the full cache without storing it.
Insert_NoWriteBack(t, k, v) == CachePut(IF IsFull(t) THEN PopLru(t) ELSE t, k, v)

WriteBackOldest(t) ==
  [PopLru(t) EXCEPT !.store = With(t.store, Oldest(t), t.cache[Oldest(t)])]

\* The length is tested before the key is looked for: a full cache makes
\* room even when it holds k already.
Insert(t, k, v) == CachePut(IF IsFull(t) THEN WriteBackOldest(t) ELSE t, k, v)

Flush(t) ==
  [t EXCEPT !.store = [k \in DOMAIN t.store \cup DOMAIN t.cache |-> Peek(t, k)]]

\* The store when the process dies in a flush: it writes the cached entries
\* one by one, the most recently used first, and had come to the m-th.
FlushSome(t, m) ==
  LET written == {t.lru[i] : i \in 1 .. m}
  IN  [t EXCEPT !.store = [k \in DOMAIN t.store \cup written |->
         IF k \in written THEN t.cache[k] ELSE t.store[k]]]

\* The process that held the tree is gone; a new one opens the same path.
Reopen(t) == OpenTree(t.store, t.cap)

\* Some get(k) would find a value.
Known(t, k) == k \in DOMAIN t.cache \cup DOMAIN t.store

\* A cached entry the store does not hold, or holds in an older version.
Dirty(t, k) ==
  /\ k \in DOMAIN t.cache
  /\ k \notin DOMAIN t.store \/ t.store[k] /= t.cache[k]
=============================================================================
