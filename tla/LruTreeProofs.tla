--------------------------- MODULE LruTreeProofs ---------------------------
(***************************************************************************)
(* What the operators of LruTree do to a tree, for any keys and values.    *)
(* To one that is not full: no entry is dropped and nothing reaches the    *)
(* store but by a flush.  To any: no version of an entry comes up that was *)
(* not there or written just now.  (CachedTreeProofs says more of a full   *)
(* one: what is lost.)                                                     *)
(***************************************************************************)
EXTENDS LruTree, FiniteSetTheorems, FunctionTheorems, SequenceTheorems, TLAPS

Listed(s) == {s[i] : i \in 1 .. Len(s)}
Unrepeated(s) == \A i, j \in 1 .. Len(s) : s[i] = s[j] => i = j

----------------------------------------------------------------------------
\* Recency lists.
LEMMA ListIntro ==
  ASSUME NEW K, NEW n \in Nat, NEW s \in [1 .. n -> K]
  PROVE  s \in Seq(K) /\ Len(s) = n
  OBVIOUS

LEMMA MoveToFrontFacts ==
  ASSUME NEW K, NEW s \in Seq(K), Unrepeated(s), NEW k \in K
  PROVE  /\ MoveToFront(s, k) \in Seq(K)
         /\ Unrepeated(MoveToFront(s, k))
         /\ Listed(MoveToFront(s, k)) = Listed(s) \cup {k}
         /\ Len(MoveToFront(s, k)) = IF k \in Listed(s) THEN Len(s) ELSE Len(s) + 1
<1> DEFINE m == MoveToFront(s, k)
<1>0. Len(s) \in Nat /\ \A i \in 1 .. Len(s) : s[i] \in K
  BY ElementOfSeq
<1>1. CASE \E i \in 1 .. Len(s) : s[i] = k
  <2> DEFINE p == CHOOSE i \in 1 .. Len(s) : s[i] = k
  <2>1. p \in 1 .. Len(s) /\ s[p] = k
    BY <1>1
  <2>2. m = [i \in 1 .. Len(s) |-> IF i = 1 THEN k ELSE IF i <= p THEN s[i - 1] ELSE s[i]]
    BY <1>1 DEF MoveToFront
  <2> HIDE DEF p, m
  <2>3. m \in [1 .. Len(s) -> K]
    BY <1>0, <2>1, <2>2
  <2>4. m \in Seq(K) /\ Len(m) = Len(s)
    BY <1>0, <2>3, ListIntro
  <2>5. Unrepeated(m)
    BY <1>0, <2>1, <2>2, <2>4 DEF Unrepeated
  <2>6. \A i \in 1 .. Len(m) : m[i] \in Listed(s)
    BY <1>0, <2>1, <2>2, <2>4 DEF Listed
  <2>7. \A i \in 1 .. Len(s) : \E j \in 1 .. Len(m) : m[j] = s[i]
    <3> SUFFICES ASSUME NEW i \in 1 .. Len(s) PROVE \E j \in 1 .. Len(m) : m[j] = s[i]
      OBVIOUS
    <3>1. CASE i = p
      BY <1>0, <2>1, <2>2, <2>4, <3>1
    <3>2. CASE i < p
      <4>1. i + 1 \in 1 .. Len(m) /\ m[i + 1] = s[i]
        BY <1>0, <2>1, <2>2, <2>4, <3>2
      <4>2. QED
        BY <4>1
    <3>3. CASE i > p
      <4>1. i \in 1 .. Len(m) /\ m[i] = s[i]
        BY <1>0, <2>1, <2>2, <2>4, <3>3
      <4>2. QED
        BY <4>1
    <3>4. QED
      BY <1>0, <2>1, <3>1, <3>2, <3>3
  <2>8. Listed(m) = Listed(s) /\ k \in Listed(s)
    BY <2>1, <2>6, <2>7 DEF Listed
  <2>9. QED
    BY <2>4, <2>5, <2>8 DEF m
<1>2. CASE ~\E i \in 1 .. Len(s) : s[i] = k
  <2>1. m = [i \in 1 .. Len(s) + 1 |-> IF i = 1 THEN k ELSE s[i - 1]]
    BY <1>2 DEF MoveToFront
  <2> HIDE DEF m
  <2>2. m \in [1 .. Len(s) + 1 -> K]
    BY <1>0, <2>1
  <2>3. m \in Seq(K) /\ Len(m) = Len(s) + 1
    BY <1>0, <2>2, ListIntro
  <2>4. Unrepeated(m)
    BY <1>0, <1>2, <2>1, <2>3 DEF Unrepeated
  <2>5. \A i \in 1 .. Len(m) : m[i] \in Listed(s) \cup {k}
    BY <1>0, <2>1, <2>3 DEF Listed
  <2>6. m[1] = k /\ 1 \in 1 .. Len(m)
    BY <1>0, <2>1, <2>3
  <2>7. \A i \in 1 .. Len(s) : i + 1 \in 1 .. Len(m) /\ m[i + 1] = s[i]
    BY <1>0, <2>1, <2>3
  <2>8. k \notin Listed(s)
    BY <1>2 DEF Listed
  <2>9. Listed(m) = Listed(s) \cup {k}
    <3>1. Listed(m) \subseteq Listed(s) \cup {k}
      BY <2>5 DEF Listed
    <3>2. \A i \in 1 .. Len(s) : s[i] \in Listed(m)
      BY <2>7 DEF Listed
    <3>3. k \in Listed(m)
      BY <2>6 DEF Listed
    <3>4. Listed(s) \subseteq Listed(m)
      BY <3>2 DEF Listed
    <3>5. QED
      BY <3>1, <3>3, <3>4
  <2>10. QED
    BY <2>3, <2>4, <2>8, <2>9 DEF m
<1>3. QED
  BY <1>1, <1>2

LEMMA PrefixFacts ==
  ASSUME NEW K, NEW s \in Seq(K), s /= <<>>, Unrepeated(s)
  PROVE  LET p == SubSeq(s, 1, Len(s) - 1)
         IN  /\ Len(s) \in Nat \ {0}
             /\ s[Len(s)] \in K /\ s[Len(s)] \in Listed(s)
             /\ p \in Seq(K) /\ Len(p) = Len(s) - 1
             /\ Unrepeated(p) /\ Listed(p) = Listed(s) \ {s[Len(s)]}
<1> DEFINE n == Len(s) - 1
           p == SubSeq(s, 1, n)
<1>1. n \in Nat /\ Len(s) = n + 1
  BY EmptySeq
<1>2. \A i \in 1 .. n + 1 : s[i] \in K
  BY <1>1, ElementOfSeq
<1>3. p \in Seq(K) /\ Len(p) = n /\ \A i \in 1 .. n : p[i] = s[i]
  <2> HIDE DEF n
  <2>1. \A i \in 1 .. n : s[i] \in K
    BY <1>1, <1>2
  <2>2. /\ p \in Seq(K)
        /\ Len(p) = IF 1 <= n THEN n - 1 + 1 ELSE 0
        /\ \A i \in 1 .. n - 1 + 1 : p[i] = s[1 + i - 1]
    BY <1>1, <2>1, SubSeqProperties
  <2>3. QED
    BY <1>1, <2>2
<1> HIDE DEF n, p
<1>4. Unrepeated(p)
  BY <1>1, <1>3 DEF Unrepeated
<1>5. Listed(p) = Listed(s) \ {s[n + 1]}
  <2>1. \A i \in 1 .. n : s[i] /= s[n + 1]
    BY <1>1 DEF Unrepeated
  <2>2. \A i \in 1 .. n + 1 : i \in 1 .. n \/ i = n + 1
    BY <1>1
  <2>3. Listed(s) = {s[i] : i \in 1 .. n} \cup {s[n + 1]}
    BY <1>1, <2>2 DEF Listed
  <2>4. Listed(p) = {s[i] : i \in 1 .. n}
    BY <1>1, <1>3 DEF Listed
  <2>5. QED
    BY <2>1, <2>3, <2>4
<1>6. s[n + 1] \in K /\ s[n + 1] \in Listed(s)
  BY <1>1, <1>2 DEF Listed
<1>7. QED
  BY <1>1, <1>3, <1>4, <1>5, <1>6 DEF n, p

----------------------------------------------------------------------------
\* A tree whose recency list names the cached keys, once each, all from K.
Shape(t) == DOMAIN t = {"store", "cache", "lru", "cap"}

Sound(t, K) ==
  /\ Shape(t)
  /\ DOMAIN t.store \subseteq K /\ DOMAIN t.cache \subseteq K
  /\ t.lru \in Seq(K) /\ Listed(t.lru) = DOMAIN t.cache /\ Unrepeated(t.lru)

\* The keys of a tree, and what they read as: now, and after a restart.
KeysOf(t) == DOMAIN t.cache \cup DOMAIN t.store
Content(t) == [k \in KeysOf(t) |-> Peek(t, k)]
Stored(t) == [k \in DOMAIN t.store |-> t.store[k]]

\* Every operator leaves the capacity as it is.
Resized(t, u) == Shape(u) /\ u.cap = t.cap

LEMMA PopLruShape ==
  ASSUME NEW t, Shape(t) PROVE Resized(t, PopLru(t))
  BY DEF Shape, Resized, PopLru

LEMMA CachePutShape ==
  ASSUME NEW t, Shape(t), NEW k, NEW v PROVE Resized(t, CachePut(t, k, v))
<1> DEFINE room == IF k \notin DOMAIN t.cache /\ IsFull(t) THEN PopLru(t) ELSE t
<1>1. Resized(t, room)
  BY PopLruShape DEF Resized
<1>2. CachePut(t, k, v) = [room EXCEPT !.cache = With(room.cache, k, v),
                                       !.lru = MoveToFront(room.lru, k)]
  BY DEF CachePut
<1> HIDE DEF room
<1>3. QED
  BY <1>1, <1>2 DEF Shape, Resized

LEMMA GetShape ==
  ASSUME NEW t, Shape(t), NEW k PROVE Resized(t, Get(t, k))
<1> DEFINE u == UpdateCache(t, k)
<1>1. Resized(t, u)
  BY CachePutShape DEF UpdateCache, Resized
<1> HIDE DEF u
<1>2. Resized(t, CacheTouch(u, k))
  BY <1>1 DEF CacheTouch, Resized, Shape
<1>3. QED
  BY <1>2 DEF Get, u

LEMMA MutateShape ==
  ASSUME NEW t, Shape(t), NEW k, NEW v PROVE Resized(t, Mutate(t, k, v))
<1> DEFINE u == Get(t, k)
<1>1. Resized(t, u)
  BY GetShape
<1>2. Mutate(t, k, v) = [u EXCEPT !.cache = With(u.cache, k, v)]
  BY DEF Mutate
<1> HIDE DEF u
<1>3. QED
  BY <1>1, <1>2 DEF Resized, Shape

LEMMA InsertShape ==
  ASSUME NEW t, Shape(t), NEW k, NEW v PROVE Resized(t, Insert(t, k, v))
<1> DEFINE u == IF IsFull(t) THEN WriteBackOldest(t) ELSE t
<1>1. Resized(t, WriteBackOldest(t))
  BY PopLruShape DEF WriteBackOldest, Resized, Shape
<1>2. Resized(t, u)
  BY <1>1 DEF Resized
<1> HIDE DEF u
<1>3. Resized(u, CachePut(u, k, v))
  BY <1>2, CachePutShape DEF Resized
<1>4. QED
  BY <1>2, <1>3 DEF Insert, Resized, u

LEMMA FlushShape ==
  ASSUME NEW t, Shape(t) PROVE Resized(t, Flush(t)) /\ Resized(t, Reopen(t))
<1>1. Resized(t, Flush(t))
  BY DEF Flush, Resized, Shape
<1>2. Resized(t, Reopen(t))
  BY DEF Reopen, OpenTree, Resized, Shape
<1>3. QED
  BY <1>1, <1>2

LEMMA FlushSomeShape ==
  ASSUME NEW t, Shape(t), NEW m PROVE Resized(t, FlushSome(t, m))
  BY DEF FlushSome, Resized, Shape

----------------------------------------------------------------------------
\* Where the keys of a finite set fit into the cache, it is not full as long as
\* one of them is missing.
LEMMA NotYetFull ==
  ASSUME NEW K, NEW t, Sound(t, K), t.cap \in Nat,
         NEW F, IsFiniteSet(F), Cardinality(F) <= t.cap,
         DOMAIN t.cache \subseteq F, NEW k \in F, k \notin DOMAIN t.cache
  PROVE  ~IsFull(t)
<1> DEFINE n == Len(t.lru)
<1>1. n \in Nat /\ t.lru \in [1 .. n -> K]
  BY LenProperties DEF Sound
<1>2. /\ IsFiniteSet(F \ {k}) /\ Cardinality(F \ {k}) = Cardinality(F) - 1
      /\ Cardinality(F) \in Nat /\ Cardinality(F \ {k}) \in Nat
  BY FS_RemoveElement, FS_CardinalityType
<1>3. t.lru \in Injection(1 .. n, F \ {k})
  <2>1. \A i \in 1 .. n : t.lru[i] \in DOMAIN t.cache
    BY DEF Sound, Listed
  <2>2. t.lru \in [1 .. n -> F \ {k}]
    BY <1>1, <2>1
  <2>3. IsInjective(t.lru)
    BY <1>1 DEF Sound, Unrepeated, IsInjective
  <2>4. QED
    BY <2>2, <2>3 DEF Injection
<1>4. Cardinality(1 .. n) <= Cardinality(F \ {k})
  BY <1>2, <1>3, FS_Injection
<1>5. Cardinality(1 .. n) = n
  BY <1>1, FS_Interval
<1>6. QED
  BY <1>1, <1>2, <1>4, <1>5 DEF IsFull

LEMMA PutInRoom ==
  ASSUME NEW K, NEW t, Sound(t, K), NEW k \in K, NEW v,
         k \in DOMAIN t.cache \/ ~IsFull(t)
  PROVE  LET u == CachePut(t, k, v)
         IN  /\ Sound(u, K) /\ u.store = t.store
             /\ u.cache = With(t.cache, k, v)
<1> DEFINE u == CachePut(t, k, v)
           m == MoveToFront(t.lru, k)
<1>1. u = [t EXCEPT !.cache = With(t.cache, k, v), !.lru = m]
  BY DEF CachePut
<1>2. m \in Seq(K) /\ Unrepeated(m) /\ Listed(m) = Listed(t.lru) \cup {k}
  BY MoveToFrontFacts DEF Sound
<1> HIDE DEF m, u
<1>3. /\ Shape(u) /\ u.store = t.store /\ u.lru = m
      /\ u.cache = With(t.cache, k, v)
  BY <1>1 DEF Sound, Shape
<1>4. DOMAIN u.cache = DOMAIN t.cache \cup {k}
  BY <1>3 DEF With
<1>5. Sound(u, K)
  BY <1>2, <1>3, <1>4 DEF Sound
<1>6. QED
  BY <1>3, <1>5 DEF u

\* A read changes nothing but the order of the recency list and what is cached.
LEMMA GetInRoom ==
  ASSUME NEW K, NEW t, Sound(t, K), NEW k \in K,
         k \in DOMAIN t.store \ DOMAIN t.cache => ~IsFull(t)
  PROVE  LET u == Get(t, k)
         IN  /\ Sound(u, K) /\ u.store = t.store /\ Content(u) = Content(t)
             /\ k \in KeysOf(t) => k \in DOMAIN u.cache
             /\ DOMAIN u.cache \subseteq DOMAIN t.cache \cup {k}
<1> DEFINE w == UpdateCache(t, k)
           u == CacheTouch(w, k)
<1>1. /\ Sound(w, K) /\ w.store = t.store
      /\ w.cache = IF k \in DOMAIN t.store \ DOMAIN t.cache
                   THEN With(t.cache, k, t.store[k]) ELSE t.cache
  BY PutInRoom DEF UpdateCache
<1> HIDE DEF w
<1>2. /\ \A x \in KeysOf(t) : Peek(w, x) = Peek(t, x)
      /\ KeysOf(w) = KeysOf(t)
      /\ k \in KeysOf(t) => k \in DOMAIN w.cache
      /\ DOMAIN w.cache \subseteq DOMAIN t.cache \cup {k}
  BY <1>1 DEF KeysOf, Peek, Lookup, With
<1>3. Content(w) = Content(t)
  BY <1>2 DEF Content
<1>4. Sound(u, K) /\ u.store = w.store /\ u.cache = w.cache
  <2> DEFINE m == MoveToFront(w.lru, k)
  <2>1. CASE k \in DOMAIN w.cache
    <3>1. u = [w EXCEPT !.lru = m]
      BY <2>1 DEF CacheTouch
    <3>2. m \in Seq(K) /\ Unrepeated(m) /\ Listed(m) = Listed(w.lru) \cup {k}
      BY <1>1, MoveToFrontFacts DEF Sound
    <3> HIDE DEF m, u
    <3>3. Shape(u) /\ u.store = w.store /\ u.cache = w.cache /\ u.lru = m
      BY <1>1, <3>1 DEF Sound, Shape
    <3>4. QED
      BY <1>1, <2>1, <3>2, <3>3 DEF Sound
  <2>2. CASE k \notin DOMAIN w.cache
    BY <1>1, <2>2 DEF CacheTouch
  <2>3. QED
    BY <2>1, <2>2
<1> HIDE DEF u
<1>5. Content(u) = Content(w)
  BY <1>4 DEF Content, KeysOf, Peek, Lookup
<1>6. Get(t, k) = u
  BY DEF Get, u, w
<1>7. QED
  BY <1>1, <1>2, <1>3, <1>4, <1>5, <1>6

LEMMA InsertInRoom ==
  ASSUME NEW K, NEW t, Sound(t, K), NEW k \in K, NEW v, ~IsFull(t)
  PROVE  LET u == Insert(t, k, v)
         IN  Sound(u, K) /\ u.store = t.store /\ Content(u) = With(Content(t), k, v)
<1> DEFINE u == Insert(t, k, v)
<1>1. Sound(u, K) /\ u.store = t.store /\ u.cache = With(t.cache, k, v)
  BY PutInRoom DEF Insert
<1> HIDE DEF u
<1>2. KeysOf(u) = KeysOf(t) \cup {k}
  BY <1>1 DEF KeysOf, With
<1>3. \A x \in KeysOf(u) : Peek(u, x) = IF x = k THEN v ELSE Peek(t, x)
  BY <1>1 DEF KeysOf, Peek, Lookup, With
<1>4. Content(u) = With(Content(t), k, v)
  BY <1>2, <1>3 DEF Content, With
<1>5. QED
  BY <1>1, <1>4 DEF u

LEMMA MutateInRoom ==
  ASSUME NEW K, NEW t, Sound(t, K), NEW k \in KeysOf(t), NEW v,
         k \in DOMAIN t.store \ DOMAIN t.cache => ~IsFull(t)
  PROVE  LET u == Mutate(t, k, v)
         IN  Sound(u, K) /\ u.store = t.store /\ Content(u) = With(Content(t), k, v)
<1> DEFINE w == Get(t, k)
           u == Mutate(t, k, v)
<1>0. k \in K
  BY DEF Sound, KeysOf
<1>1. /\ Sound(w, K) /\ w.store = t.store /\ Content(w) = Content(t)
      /\ k \in DOMAIN w.cache
  BY <1>0, GetInRoom
<1>2. u = [w EXCEPT !.cache = With(w.cache, k, v)]
  BY DEF Mutate
<1> HIDE DEF w, u
<1>3. /\ Shape(u) /\ u.store = w.store /\ u.lru = w.lru
      /\ u.cache = With(w.cache, k, v)
  BY <1>1, <1>2 DEF Sound, Shape
<1>4. DOMAIN u.cache = DOMAIN w.cache
  BY <1>1, <1>3 DEF With
<1>5. Sound(u, K)
  BY <1>1, <1>3, <1>4 DEF Sound
<1>6. KeysOf(u) = KeysOf(w) /\ k \in KeysOf(w)
  BY <1>1, <1>3, <1>4 DEF KeysOf
<1>7. \A x \in KeysOf(u) : Peek(u, x) = IF x = k THEN v ELSE Peek(w, x)
  BY <1>1, <1>3 DEF KeysOf, Peek, Lookup, With
<1>8. Content(u) = With(Content(w), k, v)
  BY <1>6, <1>7 DEF Content, With
<1>9. QED
  BY <1>1, <1>3, <1>5, <1>8 DEF u

LEMMA FlushAll ==
  ASSUME NEW K, NEW t, Sound(t, K)
  PROVE  LET u == Flush(t)
         IN  Sound(u, K) /\ Content(u) = Content(t) /\ Stored(u) = Content(t)
<1> DEFINE u == Flush(t)
<1>1. /\ Shape(u) /\ u.lru = t.lru /\ u.cache = t.cache
      /\ u.store = [k \in DOMAIN t.store \cup DOMAIN t.cache |-> Peek(t, k)]
  BY DEF Flush, Sound, Shape
<1> HIDE DEF u
<1>2. DOMAIN u.store = KeysOf(t) /\ KeysOf(u) = KeysOf(t)
  BY <1>1 DEF KeysOf
<1>3. \A x \in KeysOf(t) : u.store[x] = Peek(t, x) /\ Peek(u, x) = Peek(t, x)
  BY <1>1, <1>2 DEF KeysOf, Peek, Lookup
<1>4. Content(u) = Content(t) /\ Stored(u) = Content(t)
  BY <1>2, <1>3 DEF Content, Stored
<1>5. Sound(u, K)
  BY <1>1, <1>2 DEF Sound, KeysOf
<1>6. QED
  BY <1>4, <1>5 DEF u

LEMMA ReopenAll ==
  ASSUME NEW K, NEW t, Sound(t, K)
  PROVE  LET u == Reopen(t)
         IN  Sound(u, K) /\ Content(u) = Stored(t) /\ Stored(u) = Stored(t)
<1> DEFINE u == Reopen(t)
<1>1. u = [store |-> t.store, cache |-> NoEntries, lru |-> <<>>, cap |-> t.cap]
  BY DEF Reopen, OpenTree
<1>2. DOMAIN NoEntries = {} /\ <<>> \in Seq(K) /\ Listed(<<>>) = {} /\ Unrepeated(<<>>)
  BY EmptySeq DEF NoEntries, Listed, Unrepeated
<1> HIDE DEF u
<1>3. Sound(u, K)
  BY <1>1, <1>2 DEF Sound, Shape
<1>4. u.store = t.store /\ KeysOf(u) = DOMAIN t.store
  BY <1>1, <1>2 DEF KeysOf
<1>5. \A x \in KeysOf(u) : Peek(u, x) = t.store[x]
  BY <1>1, <1>2, <1>4 DEF Peek, Lookup
<1>6. Content(u) = Stored(t) /\ Stored(u) = Stored(t)
  BY <1>4, <1>5 DEF Content, Stored
<1>7. QED
  BY <1>3, <1>6 DEF u
----------------------------------------------------------------------------
\* Any tree, full or not.  The versions of its entries, cached and stored: what
\* a key may read as, now or after entries were evicted or lost.
Versions(t) == {<<k, t.cache[k]>> : k \in DOMAIN t.cache}
                 \cup {<<k, t.store[k]>> : k \in DOMAIN t.store}

\* A tree that can hold an entry.
Usable(t, K) == Sound(t, K) /\ t.cap \in Nat \ {0}

\* A call brings no version but <<k, v>>, and caches that one.
Brings(t, u, K, k, v) ==
  /\ Sound(u, K) /\ Versions(u) \subseteq Versions(t) \cup {<<k, v>>}
  /\ k \in DOMAIN u.cache /\ u.cache[k] = v

LEMMA VersionsIntro ==
  ASSUME NEW t, NEW W, \A k \in DOMAIN t.cache : <<k, t.cache[k]>> \in W,
         \A k \in DOMAIN t.store : <<k, t.store[k]>> \in W
  PROVE  Versions(t) \subseteq W
  BY DEF Versions

LEMMA VersionsElim ==
  ASSUME NEW t
  PROVE  /\ \A k \in DOMAIN t.cache : <<k, t.cache[k]>> \in Versions(t)
         /\ \A k \in DOMAIN t.store : <<k, t.store[k]>> \in Versions(t)
         /\ \A k \in KeysOf(t) : <<k, Peek(t, k)>> \in Versions(t)
  BY DEF Versions, KeysOf, Peek, Lookup

LEMMA FullHasOldest ==
  ASSUME NEW K, NEW t, Usable(t, K), IsFull(t)
  PROVE  t.lru /= <<>>
  BY EmptySeq DEF Usable, IsFull

LEMMA PopLeaves ==
  ASSUME NEW K, NEW t, Sound(t, K), t.lru /= <<>>
  PROVE  LET u == PopLru(t)
         IN  /\ Sound(u, K) /\ u.store = t.store /\ u.cache = Without(t.cache, Oldest(t))
             /\ Oldest(t) \in DOMAIN t.cache /\ Len(u.lru) = Len(t.lru) - 1
             /\ Len(t.lru) \in Nat \ {0}
<1> DEFINE p == SubSeq(t.lru, 1, Len(t.lru) - 1)
           u == PopLru(t)
<1>1. /\ Len(t.lru) \in Nat \ {0} /\ Oldest(t) \in Listed(t.lru)
      /\ p \in Seq(K) /\ Len(p) = Len(t.lru) - 1
      /\ Unrepeated(p) /\ Listed(p) = Listed(t.lru) \ {Oldest(t)}
  BY PrefixFacts DEF Sound, Oldest
<1>2. u = [t EXCEPT !.cache = Without(t.cache, Oldest(t)), !.lru = p]
  BY DEF PopLru
<1> HIDE DEF p, u
<1>3. /\ Shape(u) /\ u.store = t.store /\ u.lru = p
      /\ u.cache = Without(t.cache, Oldest(t))
  BY <1>2 DEF Sound, Shape
<1>4. DOMAIN u.cache = DOMAIN t.cache \ {Oldest(t)}
  BY <1>3 DEF Without
<1>5. Sound(u, K)
  BY <1>1, <1>3, <1>4 DEF Sound
<1>6. QED
  BY <1>1, <1>3, <1>5 DEF Sound, u

LEMMA PutBrings ==
  ASSUME NEW K, NEW t, Usable(t, K), NEW k \in K, NEW v
  PROVE  LET u == CachePut(t, k, v) IN Brings(t, u, K, k, v) /\ u.store = t.store
<1> DEFINE room == IF k \notin DOMAIN t.cache /\ IsFull(t) THEN PopLru(t) ELSE t
           u == CachePut(t, k, v)
<1>1. /\ Sound(room, K) /\ room.store = t.store
      /\ \A x \in DOMAIN room.cache : x \in DOMAIN t.cache /\ room.cache[x] = t.cache[x]
  <2>1. CASE k \notin DOMAIN t.cache /\ IsFull(t)
    <3>1. Sound(PopLru(t), K) /\ PopLru(t).store = t.store
          /\ PopLru(t).cache = Without(t.cache, Oldest(t))
      BY <2>1, FullHasOldest, PopLeaves DEF Usable
    <3>2. QED
      BY <2>1, <3>1 DEF Without
  <2>2. CASE ~(k \notin DOMAIN t.cache /\ IsFull(t))
    BY <2>2 DEF Usable
  <2>3. QED
    BY <2>1, <2>2
<1>2. u = [room EXCEPT !.cache = With(room.cache, k, v), !.lru = MoveToFront(room.lru, k)]
  BY DEF CachePut
<1>3. /\ MoveToFront(room.lru, k) \in Seq(K) /\ Unrepeated(MoveToFront(room.lru, k))
      /\ Listed(MoveToFront(room.lru, k)) = Listed(room.lru) \cup {k}
  BY <1>1, MoveToFrontFacts DEF Sound
<1> HIDE DEF room, u
<1>4. /\ Shape(u) /\ u.store = t.store /\ u.lru = MoveToFront(room.lru, k)
      /\ u.cache = With(room.cache, k, v)
  BY <1>1, <1>2 DEF Sound, Shape
<1>5. /\ DOMAIN u.cache = DOMAIN room.cache \cup {k} /\ u.cache[k] = v
      /\ \A x \in DOMAIN room.cache \ {k} : u.cache[x] = room.cache[x]
  BY <1>4 DEF With
<1>6. Sound(u, K)
  BY <1>1, <1>3, <1>4, <1>5 DEF Sound
<1>7. \A x \in DOMAIN u.cache : <<x, u.cache[x]>> \in Versions(t) \cup {<<k, v>>}
  BY <1>1, <1>5, VersionsElim
<1>8. \A x \in DOMAIN u.store : <<x, u.store[x]>> \in Versions(t) \cup {<<k, v>>}
  BY <1>4, VersionsElim
<1>9. Versions(u) \subseteq Versions(t) \cup {<<k, v>>}
  BY <1>7, <1>8, VersionsIntro
<1>10. QED
  BY <1>4, <1>5, <1>6, <1>9 DEF Brings, u

LEMMA TouchLeaves ==
  ASSUME NEW K, NEW t, Sound(t, K), NEW k \in K
  PROVE  LET u == CacheTouch(t, k)
         IN  Sound(u, K) /\ u.store = t.store /\ u.cache = t.cache
<1> DEFINE m == MoveToFront(t.lru, k)
           u == CacheTouch(t, k)
<1>1. CASE k \in DOMAIN t.cache
  <2>1. u = [t EXCEPT !.lru = m]
    BY <1>1 DEF CacheTouch
  <2>2. m \in Seq(K) /\ Unrepeated(m) /\ Listed(m) = Listed(t.lru) \cup {k}
    BY MoveToFrontFacts DEF Sound
  <2> HIDE DEF m, u
  <2>3. Shape(u) /\ u.store = t.store /\ u.cache = t.cache /\ u.lru = m
    BY <2>1 DEF Sound, Shape
  <2>4. QED
    BY <1>1, <2>2, <2>3 DEF Sound, u
<1>2. CASE k \notin DOMAIN t.cache
  BY <1>2 DEF CacheTouch
<1>3. QED
  BY <1>1, <1>2

\* A read brings nothing, and leaves what it read in the cache.
LEMMA GetBrings ==
  ASSUME NEW K, NEW t, Usable(t, K), NEW k \in K
  PROVE  LET u == Get(t, k)
         IN  /\ Sound(u, K) /\ Versions(u) \subseteq Versions(t)
             /\ k \in KeysOf(t) => k \in DOMAIN u.cache /\ u.cache[k] = Peek(t, k)
<1> DEFINE w == UpdateCache(t, k)
           u == CacheTouch(w, k)
<1>1. CASE k \in DOMAIN t.store \ DOMAIN t.cache
  <2>1. w = CachePut(t, k, t.store[k]) /\ Peek(t, k) = t.store[k]
    BY <1>1 DEF UpdateCache, Peek, Lookup
  <2>2. Brings(t, w, K, k, t.store[k])
    BY <2>1, PutBrings
  <2> HIDE DEF w
  <2>3. <<k, t.store[k]>> \in Versions(t)
    BY <1>1, VersionsElim
  <2>4. /\ Sound(w, K) /\ Versions(w) \subseteq Versions(t)
        /\ k \in DOMAIN w.cache /\ w.cache[k] = Peek(t, k)
    BY <2>1, <2>2, <2>3 DEF Brings
  <2>5. Sound(u, K) /\ u.store = w.store /\ u.cache = w.cache
    BY <2>4, TouchLeaves
  <2> HIDE DEF u
  <2>6. Versions(u) = Versions(w)
    BY <2>5 DEF Versions
  <2>7. QED
    BY <2>4, <2>5, <2>6 DEF Get, u, w
<1>2. CASE k \notin DOMAIN t.store \ DOMAIN t.cache
  <2>1. w = t
    BY <1>2 DEF UpdateCache
  <2>2. Sound(u, K) /\ u.store = t.store /\ u.cache = t.cache
    BY <2>1, TouchLeaves DEF Usable
  <2> HIDE DEF u, w
  <2>3. Versions(u) = Versions(t)
    BY <2>2 DEF Versions
  <2>4. k \in KeysOf(t) => k \in DOMAIN u.cache /\ u.cache[k] = Peek(t, k)
    BY <1>2, <2>2 DEF KeysOf, Peek
  <2>5. QED
    BY <2>2, <2>3, <2>4 DEF Get, u, w
<1>3. QED
  BY <1>1, <1>2

LEMMA InsertBrings ==
  ASSUME NEW K, NEW t, Usable(t, K), NEW k \in K, NEW v
  PROVE  Brings(t, Insert(t, k, v), K, k, v)
<1> DEFINE w == IF IsFull(t) THEN WriteBackOldest(t) ELSE t
           u == CachePut(w, k, v)
<1>1. Usable(w, K) /\ Versions(w) \subseteq Versions(t)
  <2>1. CASE IsFull(t)
    <3> DEFINE p == PopLru(t)
               o == Oldest(t)
    <3>1. Sound(p, K) /\ p.store = t.store /\ p.cache = Without(t.cache, o) /\ o \in DOMAIN t.cache
      BY <2>1, FullHasOldest, PopLeaves DEF Usable
    <3>2. p.cap = t.cap
      BY PopLruShape DEF Usable, Sound, Resized
    <3>3. w = [p EXCEPT !.store = With(t.store, o, t.cache[o])]
      BY <2>1 DEF WriteBackOldest
    <3> HIDE DEF p, o, w
    <3>4. /\ Shape(w) /\ w.store = With(t.store, o, t.cache[o]) /\ w.cache = p.cache
          /\ w.lru = p.lru /\ w.cap = t.cap
      BY <3>1, <3>2, <3>3 DEF Sound, Shape
    <3>5. /\ DOMAIN w.store = DOMAIN t.store \cup {o} /\ w.store[o] = t.cache[o]
          /\ \A x \in DOMAIN t.store \ {o} : w.store[x] = t.store[x]
          /\ \A x \in DOMAIN w.cache : x \in DOMAIN t.cache /\ w.cache[x] = t.cache[x]
      BY <3>1, <3>4 DEF With, Without
    <3>6. Usable(w, K)
      BY <3>1, <3>4, <3>5 DEF Usable, Sound
    <3>7. \A x \in DOMAIN w.cache : <<x, w.cache[x]>> \in Versions(t)
      BY <3>5, VersionsElim
    <3>8. \A x \in DOMAIN w.store : <<x, w.store[x]>> \in Versions(t)
      BY <3>1, <3>5, VersionsElim
    <3>9. QED
      BY <3>6, <3>7, <3>8, VersionsIntro
  <2>2. CASE ~IsFull(t)
    BY <2>2
  <2>3. QED
    BY <2>1, <2>2
<1> HIDE DEF w
<1>2. Brings(w, u, K, k, v)
  BY <1>1, PutBrings
<1> HIDE DEF u
<1>3. Brings(t, u, K, k, v)
  BY <1>1, <1>2 DEF Brings
<1>4. QED
  BY <1>3 DEF Insert, u, w

LEMMA MutateBrings ==
  ASSUME NEW K, NEW t, Usable(t, K), NEW k \in KeysOf(t), NEW v
  PROVE  Brings(t, Mutate(t, k, v), K, k, v)
<1> DEFINE w == Get(t, k)
           u == Mutate(t, k, v)
<1>0. k \in K
  BY DEF Usable, Sound, KeysOf
<1>1. Sound(w, K) /\ Versions(w) \subseteq Versions(t) /\ k \in DOMAIN w.cache
  BY <1>0, GetBrings
<1>2. u = [w EXCEPT !.cache = With(w.cache, k, v)]
  BY DEF Mutate
<1> HIDE DEF w, u
<1>3. /\ Shape(u) /\ u.store = w.store /\ u.lru = w.lru
      /\ u.cache = With(w.cache, k, v)
  BY <1>1, <1>2 DEF Sound, Shape
<1>4. /\ DOMAIN u.cache = DOMAIN w.cache /\ u.cache[k] = v
      /\ \A x \in DOMAIN w.cache \ {k} : u.cache[x] = w.cache[x]
  BY <1>1, <1>3 DEF With
<1>5. Sound(u, K)
  BY <1>1, <1>3, <1>4 DEF Sound
<1>6. \A x \in DOMAIN u.cache : <<x, u.cache[x]>> \in Versions(t) \cup {<<k, v>>}
  BY <1>1, <1>4, VersionsElim
<1>7. \A x \in DOMAIN u.store : <<x, u.store[x]>> \in Versions(t) \cup {<<k, v>>}
  BY <1>1, <1>3, VersionsElim
<1>8. QED
  BY <1>1, <1>4, <1>5, <1>6, <1>7, VersionsIntro DEF Brings, u

\* Neither does a flush, whole or cut, nor a new process.
LEMMA FlushBrings ==
  ASSUME NEW K, NEW t, Sound(t, K)
  PROVE  LET u == Flush(t) IN Sound(u, K) /\ Versions(u) \subseteq Versions(t)
<1> DEFINE u == Flush(t)
<1>1. Sound(u, K)
  BY FlushAll
<1>2. u.cache = t.cache /\ u.store = [k \in DOMAIN t.store \cup DOMAIN t.cache |-> Peek(t, k)]
  BY DEF Flush, Sound, Shape
<1> HIDE DEF u
<1>3. \A k \in DOMAIN u.store : <<k, u.store[k]>> \in Versions(t)
  BY <1>2, VersionsElim DEF KeysOf
<1>4. \A k \in DOMAIN u.cache : <<k, u.cache[k]>> \in Versions(t)
  BY <1>2, VersionsElim
<1>5. QED
  BY <1>1, <1>3, <1>4, VersionsIntro DEF u

LEMMA FlushSomeBrings ==
  ASSUME NEW K, NEW t, Sound(t, K), NEW m \in 0 .. Len(t.lru)
  PROVE  LET u == FlushSome(t, m) IN Sound(u, K) /\ Versions(u) \subseteq Versions(t)
<1> DEFINE u == FlushSome(t, m)
           written == {t.lru[i] : i \in 1 .. m}
<1>0. Len(t.lru) \in Nat
  BY LenProperties DEF Sound
<1>1. written \subseteq DOMAIN t.cache
  BY <1>0 DEF Sound, Listed
<1>2. /\ Shape(u) /\ u.cache = t.cache /\ u.lru = t.lru
      /\ u.store = [k \in DOMAIN t.store \cup written |->
                      IF k \in written THEN t.cache[k] ELSE t.store[k]]
  BY DEF FlushSome, Sound, Shape
<1> HIDE DEF u, written
<1>3. Sound(u, K)
  BY <1>1, <1>2 DEF Sound
<1>4. \A k \in DOMAIN u.store : <<k, u.store[k]>> \in Versions(t)
  BY <1>1, <1>2, VersionsElim
<1>5. \A k \in DOMAIN u.cache : <<k, u.cache[k]>> \in Versions(t)
  BY <1>2, VersionsElim
<1>6. QED
  BY <1>3, <1>4, <1>5, VersionsIntro DEF u

LEMMA ReopenBrings ==
  ASSUME NEW K, NEW t, Sound(t, K)
  PROVE  LET u == Reopen(t)
         IN  /\ Sound(u, K) /\ Versions(u) \subseteq Versions(t)
             /\ DOMAIN u.cache = {} /\ u.store = t.store
<1> DEFINE u == Reopen(t)
<1>1. Sound(u, K)
  BY ReopenAll
<1>2. DOMAIN u.cache = {} /\ u.store = t.store
  BY DEF Reopen, OpenTree, NoEntries
<1> HIDE DEF u
<1>3. Versions(u) \subseteq Versions(t)
  BY <1>2, VersionsElim, VersionsIntro
<1>4. QED
  BY <1>1, <1>2, <1>3 DEF u
=============================================================================
