-------------------------- MODULE CachedTreeProofs -------------------------
(***************************************************************************)
(* For any keys, values and capacities: the recency list and the table of  *)
(* a CachedTree stay consistent, an insert loses nothing, reads of a clean *)
(* tree lose nothing.  The lemmas say of each operator of LruTree that it  *)
(* keeps a tree well formed, and what a reader sees afterwards.            *)
(***************************************************************************)
EXTENDS CachedTree, LruTreeProofs

IsTree(t) == t \in [store : Entries, cache : Entries, lru : Seq(Keys), cap : Capacities]
IsConsistent(t) == /\ Listed(t.lru) = DOMAIN t.cache
                   /\ Unrepeated(t.lru)
                   /\ Len(t.lru) <= t.cap
WellFormed(t) == IsTree(t) /\ IsConsistent(t)

----------------------------------------------------------------------------
\* Partial functions.
LEMMA EntriesIntro ==
  ASSUME NEW S \in SUBSET Keys, NEW f \in [S -> Values]
  PROVE  f \in Entries
  BY DEF Entries

LEMMA EntriesElim ==
  ASSUME NEW f \in Entries
  PROVE  DOMAIN f \in SUBSET Keys /\ f \in [DOMAIN f -> Values]
  BY DEF Entries

LEMMA WithFacts ==
  ASSUME NEW f \in Entries, NEW k \in Keys, NEW v \in Values
  PROVE  /\ With(f, k, v) \in Entries
         /\ DOMAIN With(f, k, v) = DOMAIN f \cup {k}
         /\ \A x \in DOMAIN f \cup {k} : With(f, k, v)[x] = IF x = k THEN v ELSE f[x]
<1>1. DOMAIN f \cup {k} \in SUBSET Keys /\ f \in [DOMAIN f -> Values]
  BY EntriesElim
<1>2. With(f, k, v) \in [DOMAIN f \cup {k} -> Values]
  BY <1>1 DEF With
<1>3. With(f, k, v) \in Entries
  BY <1>1, <1>2, EntriesIntro
<1>4. QED
  BY <1>3 DEF With

LEMMA WithoutFacts ==
  ASSUME NEW f \in Entries, NEW k
  PROVE  /\ Without(f, k) \in Entries
         /\ DOMAIN Without(f, k) = DOMAIN f \ {k}
         /\ \A x \in DOMAIN f \ {k} : Without(f, k)[x] = f[x]
<1>1. DOMAIN f \ {k} \in SUBSET Keys /\ f \in [DOMAIN f -> Values]
  BY EntriesElim
<1>2. Without(f, k) \in [DOMAIN f \ {k} -> Values]
  BY <1>1 DEF Without
<1>3. Without(f, k) \in Entries
  BY <1>1, <1>2, EntriesIntro
<1>4. QED
  BY <1>3 DEF Without

----------------------------------------------------------------------------
\* The LRU cache.
LEMMA TreeFacts ==
  ASSUME NEW t, WellFormed(t)
  PROVE  /\ t.store \in Entries /\ t.cache \in Entries /\ t.lru \in Seq(Keys)
         /\ t.cap \in Capacities /\ t.cap \in Nat \ {0} /\ Len(t.lru) \in Nat
         /\ Listed(t.lru) = DOMAIN t.cache /\ Unrepeated(t.lru) /\ Len(t.lru) <= t.cap
<1>1. /\ t.store \in Entries /\ t.cache \in Entries /\ t.lru \in Seq(Keys)
      /\ t.cap \in Capacities
  BY DEF WellFormed, IsTree
<1>2. t.cap \in Nat \ {0} /\ Len(t.lru) \in Nat
  BY <1>1, CachedTreeAssumption, LenProperties
<1>3. QED
  BY <1>1, <1>2 DEF WellFormed, IsConsistent

LEMMA FullIsNotEmpty ==
  ASSUME NEW t, WellFormed(t), IsFull(t)
  PROVE  t.lru /= <<>>
  BY TreeFacts, EmptySeq DEF IsFull

LEMMA PopLruFacts ==
  ASSUME NEW t, WellFormed(t), t.lru /= <<>>
  PROVE  /\ WellFormed(PopLru(t))
         /\ Oldest(t) \in Keys /\ Oldest(t) \in DOMAIN t.cache
         /\ PopLru(t).store = t.store /\ PopLru(t).cap = t.cap
         /\ PopLru(t).cache = Without(t.cache, Oldest(t))
         /\ Len(PopLru(t).lru) < t.cap
<1> DEFINE p == SubSeq(t.lru, 1, Len(t.lru) - 1)
<1>1. /\ t.lru \in Seq(Keys) /\ Unrepeated(t.lru) /\ t.cache \in Entries
      /\ Listed(t.lru) = DOMAIN t.cache /\ Len(t.lru) <= t.cap /\ t.cap \in Nat
      /\ t.store \in Entries /\ t.cap \in Capacities
  BY TreeFacts
<1>2. /\ Len(t.lru) \in Nat \ {0}
      /\ Oldest(t) \in Keys /\ Oldest(t) \in Listed(t.lru)
      /\ p \in Seq(Keys) /\ Len(p) = Len(t.lru) - 1
      /\ Unrepeated(p) /\ Listed(p) = Listed(t.lru) \ {Oldest(t)}
  BY <1>1, PrefixFacts DEF Oldest
<1>3. /\ Without(t.cache, Oldest(t)) \in Entries
      /\ DOMAIN Without(t.cache, Oldest(t)) = DOMAIN t.cache \ {Oldest(t)}
  BY <1>1, WithoutFacts
<1> HIDE DEF p
<1>4. /\ PopLru(t).store = t.store /\ PopLru(t).cap = t.cap
      /\ PopLru(t).cache = Without(t.cache, Oldest(t)) /\ PopLru(t).lru = p
  BY DEF PopLru, p, WellFormed, IsTree
<1>5. IsTree(PopLru(t))
  BY <1>1, <1>2, <1>3 DEF PopLru, p, WellFormed, IsTree
<1>6. Len(p) < t.cap /\ Len(p) <= t.cap
  BY <1>1, <1>2
<1>7. IsConsistent(PopLru(t))
  BY <1>1, <1>2, <1>3, <1>4, <1>6 DEF IsConsistent
<1>8. QED
  BY <1>1, <1>2, <1>4, <1>5, <1>6, <1>7 DEF WellFormed

\* What is left of the cache when a new key k needs room.
Room(t, k) == IF k \notin DOMAIN t.cache /\ IsFull(t) THEN PopLru(t) ELSE t

LEMMA RoomFacts ==
  ASSUME NEW t, WellFormed(t), NEW k \in Keys
  PROVE  /\ WellFormed(Room(t, k))
         /\ Room(t, k).store = t.store /\ Room(t, k).cap = t.cap
         /\ k \in DOMAIN Room(t, k).cache \/ Len(Room(t, k).lru) < t.cap
<1>1. CASE k \notin DOMAIN t.cache /\ IsFull(t)
  BY <1>1, FullIsNotEmpty, PopLruFacts DEF Room
<1>2. CASE ~(k \notin DOMAIN t.cache /\ IsFull(t))
  <2>1. Len(t.lru) \in Nat /\ t.cap \in Nat /\ Len(t.lru) <= t.cap
    BY TreeFacts
  <2>2. QED
    BY <1>2, <2>1 DEF Room, IsFull
<1>3. QED
  BY <1>1, <1>2

LEMMA CachePutFacts ==
  ASSUME NEW t, WellFormed(t), NEW k \in Keys, NEW v \in Values
  PROVE  /\ WellFormed(CachePut(t, k, v))
         /\ CachePut(t, k, v).store = t.store /\ CachePut(t, k, v).cap = t.cap
         /\ CachePut(t, k, v).cache = With(Room(t, k).cache, k, v)
<1> DEFINE r == Room(t, k)
           m == MoveToFront(r.lru, k)
<1>1. WellFormed(r) /\ r.store = t.store /\ r.cap = t.cap
      /\ (k \in DOMAIN r.cache \/ Len(r.lru) < t.cap)
  BY RoomFacts
<1>2. CachePut(t, k, v) = [r EXCEPT !.cache = With(r.cache, k, v), !.lru = m]
  BY DEF CachePut, Room
<1> HIDE DEF r
<1>3. /\ r.lru \in Seq(Keys) /\ Unrepeated(r.lru) /\ Listed(r.lru) = DOMAIN r.cache
      /\ r.cache \in Entries /\ r.store \in Entries /\ r.cap \in Capacities
      /\ Len(r.lru) <= r.cap
  BY <1>1 DEF WellFormed, IsTree, IsConsistent
<1>4. /\ m \in Seq(Keys) /\ Unrepeated(m) /\ Listed(m) = Listed(r.lru) \cup {k}
      /\ Len(m) = IF k \in Listed(r.lru) THEN Len(r.lru) ELSE Len(r.lru) + 1
  BY <1>3, MoveToFrontFacts
<1>5. With(r.cache, k, v) \in Entries /\ DOMAIN With(r.cache, k, v) = DOMAIN r.cache \cup {k}
  BY <1>3, WithFacts, ZenonT(40)
<1> HIDE DEF m
<1>6. /\ CachePut(t, k, v).store = r.store /\ CachePut(t, k, v).cap = r.cap
      /\ CachePut(t, k, v).cache = With(r.cache, k, v) /\ CachePut(t, k, v).lru = m
      /\ IsTree(CachePut(t, k, v))
  BY <1>1, <1>2, <1>3, <1>4, <1>5 DEF WellFormed, IsTree
<1>7. Len(m) <= r.cap
  <2>1. Len(r.lru) \in Nat /\ r.cap \in Nat
    BY <1>1, TreeFacts
  <2>2. QED
    BY <1>1, <1>3, <1>4, <2>1
<1>8. IsConsistent(CachePut(t, k, v))
  BY <1>3, <1>4, <1>5, <1>6, <1>7 DEF IsConsistent
<1>9. QED
  BY <1>1, <1>6, <1>8 DEF WellFormed, r

----------------------------------------------------------------------------
\* The calls: each keeps the tree well formed.
LEMMA CacheTouchFacts ==
  ASSUME NEW t, WellFormed(t), NEW k \in Keys
  PROVE  /\ WellFormed(CacheTouch(t, k))
         /\ CacheTouch(t, k).store = t.store /\ CacheTouch(t, k).cap = t.cap
         /\ CacheTouch(t, k).cache = t.cache
<1> DEFINE m == MoveToFront(t.lru, k)
           c == CacheTouch(t, k)
<1>1. CASE k \in DOMAIN t.cache
  <2>1. /\ m \in Seq(Keys) /\ Unrepeated(m) /\ Listed(m) = Listed(t.lru) \cup {k}
        /\ Len(m) = IF k \in Listed(t.lru) THEN Len(t.lru) ELSE Len(t.lru) + 1
    BY TreeFacts, MoveToFrontFacts
  <2>2. Listed(m) = DOMAIN t.cache /\ Len(m) <= t.cap
    BY <1>1, <2>1, TreeFacts
  <2> HIDE DEF m
  <2>3. c = [t EXCEPT !.lru = m]
    BY <1>1 DEF CacheTouch, m
  <2> HIDE DEF c
  <2>4. c.store = t.store /\ c.cap = t.cap /\ c.cache = t.cache /\ c.lru = m /\ IsTree(c)
    BY <2>1, <2>3 DEF WellFormed, IsTree
  <2>5. IsConsistent(c)
    BY <2>1, <2>2, <2>4 DEF IsConsistent
  <2>6. QED
    BY <2>4, <2>5 DEF WellFormed, c
<1>2. CASE k \notin DOMAIN t.cache
  BY <1>2 DEF CacheTouch
<1>3. QED
  BY <1>1, <1>2

Loads(t, k) == k \notin DOMAIN t.cache /\ k \in DOMAIN t.store

LEMMA StoredValues ==
  ASSUME NEW t, WellFormed(t)
  PROVE  /\ \A k \in DOMAIN t.store : k \in Keys /\ t.store[k] \in Values
         /\ \A k \in DOMAIN t.cache : k \in Keys /\ t.cache[k] \in Values
  BY TreeFacts, EntriesElim

LEMMA UpdateCacheFacts ==
  ASSUME NEW t, WellFormed(t), NEW k \in Keys
  PROVE  /\ WellFormed(UpdateCache(t, k))
         /\ UpdateCache(t, k).store = t.store /\ UpdateCache(t, k).cap = t.cap
         /\ Loads(t, k) => UpdateCache(t, k).cache = With(Room(t, k).cache, k, t.store[k])
         /\ ~Loads(t, k) => UpdateCache(t, k).cache = t.cache
<1>1. CASE Loads(t, k)
  <2>1. t.store[k] \in Values
    BY <1>1, StoredValues DEF Loads
  <2>2. UpdateCache(t, k) = CachePut(t, k, t.store[k])
    BY <1>1 DEF UpdateCache, Loads
  <2>3. QED
    BY <1>1, <2>1, <2>2, CachePutFacts
<1>2. CASE ~Loads(t, k)
  BY <1>2 DEF UpdateCache, Loads
<1>3. QED
  BY <1>1, <1>2

LEMMA GetFacts ==
  ASSUME NEW t, WellFormed(t), NEW k \in Keys
  PROVE  /\ WellFormed(Get(t, k))
         /\ Get(t, k).store = t.store /\ Get(t, k).cap = t.cap
         /\ Loads(t, k) => Get(t, k).cache = With(Room(t, k).cache, k, t.store[k])
         /\ ~Loads(t, k) => Get(t, k).cache = t.cache
<1> DEFINE u == UpdateCache(t, k)
<1>1. WellFormed(u) /\ u.store = t.store /\ u.cap = t.cap
  BY UpdateCacheFacts
<1>2. /\ Loads(t, k) => u.cache = With(Room(t, k).cache, k, t.store[k])
      /\ ~Loads(t, k) => u.cache = t.cache
  BY UpdateCacheFacts
<1> HIDE DEF u
<1>3. /\ WellFormed(CacheTouch(u, k)) /\ CacheTouch(u, k).store = u.store
      /\ CacheTouch(u, k).cap = u.cap /\ CacheTouch(u, k).cache = u.cache
  BY <1>1, CacheTouchFacts
<1>4. QED
  BY <1>1, <1>2, <1>3 DEF Get, u

LEMMA GetCachesTheKey ==
  ASSUME NEW t, WellFormed(t), NEW k \in Keys, Known(t, k)
  PROVE  k \in DOMAIN Get(t, k).cache
<1>1. CASE Loads(t, k)
  <2>1. t.store[k] \in Values /\ Room(t, k).cache \in Entries
    BY <1>1, StoredValues, RoomFacts, TreeFacts DEF Loads
  <2>2. k \in DOMAIN With(Room(t, k).cache, k, t.store[k])
    <3>1. DOMAIN With(Room(t, k).cache, k, t.store[k]) = DOMAIN Room(t, k).cache \cup {k}
      BY <2>1, WithFacts
    <3>2. QED
      BY <3>1
  <2>3. QED
    BY <1>1, <2>2, GetFacts
<1>2. CASE ~Loads(t, k)
  BY <1>2, GetFacts DEF Loads, Known
<1>3. QED
  BY <1>1, <1>2

LEMMA MutateFacts ==
  ASSUME NEW t, WellFormed(t), NEW k \in Keys, NEW v \in Values, Known(t, k)
  PROVE  /\ WellFormed(Mutate(t, k, v))
         /\ Mutate(t, k, v).store = t.store /\ Mutate(t, k, v).cap = t.cap
         /\ Mutate(t, k, v).cache = With(Get(t, k).cache, k, v)
<1> DEFINE g == Get(t, k)
           m == Mutate(t, k, v)
<1>1. WellFormed(g) /\ g.store = t.store /\ g.cap = t.cap /\ k \in DOMAIN g.cache
  BY GetFacts, GetCachesTheKey
<1>2. m = [g EXCEPT !.cache = With(g.cache, k, v)]
  BY DEF Mutate
<1> HIDE DEF g, m
<1>3. /\ g.store \in Entries /\ g.cache \in Entries /\ g.lru \in Seq(Keys)
      /\ g.cap \in Capacities
      /\ Listed(g.lru) = DOMAIN g.cache /\ Unrepeated(g.lru) /\ Len(g.lru) <= g.cap
  BY <1>1, TreeFacts
<1>4. With(g.cache, k, v) \in Entries /\ DOMAIN With(g.cache, k, v) = DOMAIN g.cache
  <2>1. /\ With(g.cache, k, v) \in Entries
        /\ DOMAIN With(g.cache, k, v) = DOMAIN g.cache \cup {k}
    BY <1>3, WithFacts, ZenonT(40)
  <2>2. QED
    BY <1>1, <2>1
<1>5. /\ m.store = g.store /\ m.cap = g.cap /\ m.lru = g.lru
      /\ m.cache = With(g.cache, k, v) /\ IsTree(m)
  BY <1>1, <1>2, <1>3, <1>4 DEF WellFormed, IsTree
<1>6. IsConsistent(m)
  BY <1>3, <1>4, <1>5 DEF IsConsistent
<1>7. QED
  BY <1>1, <1>5, <1>6 DEF WellFormed, g, m

LEMMA WriteBackFacts ==
  ASSUME NEW t, WellFormed(t), IsFull(t)
  PROVE  /\ WellFormed(WriteBackOldest(t))
         /\ Oldest(t) \in Keys /\ Oldest(t) \in DOMAIN t.cache
         /\ WriteBackOldest(t).cap = t.cap
         /\ WriteBackOldest(t).store = With(t.store, Oldest(t), t.cache[Oldest(t)])
         /\ WriteBackOldest(t).cache = Without(t.cache, Oldest(t))
         /\ ~IsFull(WriteBackOldest(t))
<1> DEFINE p == PopLru(t)
           o == Oldest(t)
           w == WriteBackOldest(t)
<1>1. /\ WellFormed(p) /\ o \in Keys /\ o \in DOMAIN t.cache
      /\ p.store = t.store /\ p.cap = t.cap /\ p.cache = Without(t.cache, o)
      /\ Len(p.lru) < t.cap
  BY FullIsNotEmpty, PopLruFacts
<1>2. w = [p EXCEPT !.store = With(t.store, o, t.cache[o])]
  BY DEF WriteBackOldest
<1> HIDE DEF p, o, w
<1>3. With(t.store, o, t.cache[o]) \in Entries
  BY <1>1, StoredValues, TreeFacts, WithFacts
<1>4. /\ w.store = With(t.store, o, t.cache[o]) /\ w.cap = p.cap /\ w.lru = p.lru
      /\ w.cache = p.cache /\ IsTree(w)
  BY <1>1, <1>2, <1>3 DEF WellFormed, IsTree
<1>5. IsConsistent(w)
  BY <1>1, <1>4 DEF WellFormed, IsConsistent
<1>6. Len(w.lru) /= w.cap
  BY <1>1, <1>4, TreeFacts
<1>7. QED
  BY <1>1, <1>4, <1>5, <1>6 DEF WellFormed, IsFull, p, o, w

LEMMA InsertFacts ==
  ASSUME NEW t, WellFormed(t), NEW k \in Keys, NEW v \in Values
  PROVE  /\ WellFormed(Insert(t, k, v)) /\ Insert(t, k, v).cap = t.cap
         /\ IsFull(t) =>
              /\ Insert(t, k, v).store = With(t.store, Oldest(t), t.cache[Oldest(t)])
              /\ Insert(t, k, v).cache = With(Without(t.cache, Oldest(t)), k, v)
         /\ ~IsFull(t) =>
              /\ Insert(t, k, v).store = t.store
              /\ Insert(t, k, v).cache = With(t.cache, k, v)
<1>1. CASE IsFull(t)
  <2> DEFINE w == WriteBackOldest(t)
  <2>1. /\ WellFormed(w) /\ w.cap = t.cap /\ ~IsFull(w)
        /\ w.store = With(t.store, Oldest(t), t.cache[Oldest(t)])
        /\ w.cache = Without(t.cache, Oldest(t))
    BY <1>1, WriteBackFacts
  <2>2. Insert(t, k, v) = CachePut(w, k, v)
    BY <1>1 DEF Insert
  <2> HIDE DEF w
  <2>3. /\ WellFormed(CachePut(w, k, v)) /\ CachePut(w, k, v).store = w.store
        /\ CachePut(w, k, v).cap = w.cap
        /\ CachePut(w, k, v).cache = With(Room(w, k).cache, k, v)
    BY <2>1, CachePutFacts
  <2>4. Room(w, k) = w
    BY <2>1 DEF Room
  <2>5. QED
    BY <1>1, <2>1, <2>2, <2>3, <2>4
<1>2. CASE ~IsFull(t)
  <2>1. Insert(t, k, v) = CachePut(t, k, v)
    BY <1>2 DEF Insert
  <2>2. Room(t, k) = t
    BY <1>2 DEF Room
  <2>3. QED
    BY <1>2, <2>1, <2>2, CachePutFacts
<1>3. QED
  BY <1>1, <1>2

LEMMA FlushFacts ==
  ASSUME NEW t, WellFormed(t)
  PROVE  /\ WellFormed(Flush(t))
         /\ Flush(t).cache = t.cache /\ Flush(t).cap = t.cap
         /\ DOMAIN Flush(t).store = DOMAIN t.store \cup DOMAIN t.cache
         /\ \A k \in DOMAIN t.store \cup DOMAIN t.cache : Flush(t).store[k] = Peek(t, k)
<1> DEFINE D == DOMAIN t.store \cup DOMAIN t.cache
           f == [k \in D |-> Peek(t, k)]
           g == Flush(t)
<1>1. D \in SUBSET Keys
  BY StoredValues
<1>2. f \in [D -> Values]
  BY StoredValues DEF Peek, Lookup
<1>3. f \in Entries
  <2> HIDE DEF D, f
  <2>1. QED
    BY <1>1, <1>2, EntriesIntro
<1>4. g = [t EXCEPT !.store = f]
  BY DEF Flush
<1>5. DOMAIN f = D /\ \A k \in D : f[k] = Peek(t, k)
  OBVIOUS
<1> HIDE DEF f, g
<1>6. g.store = f /\ g.cache = t.cache /\ g.lru = t.lru /\ g.cap = t.cap /\ IsTree(g)
  BY <1>3, <1>4 DEF WellFormed, IsTree
<1>7. IsConsistent(g)
  BY <1>6 DEF WellFormed, IsConsistent
<1>8. QED
  BY <1>5, <1>6, <1>7 DEF WellFormed, g

LEMMA NothingCached == NoEntries \in Entries /\ DOMAIN NoEntries = {}
<1>1. NoEntries \in [{} -> Values] /\ {} \in SUBSET Keys
  BY DEF NoEntries
<1>2. QED
  BY <1>1, EntriesIntro

LEMMA NewTreeFacts ==
  ASSUME NEW e \in Entries, NEW c \in Capacities
  PROVE  WellFormed(OpenTree(e, c))
<1>1. NoEntries \in Entries /\ DOMAIN NoEntries = {}
  BY NothingCached
<1>2. <<>> \in Seq(Keys) /\ Len(<<>>) = 0 /\ Listed(<<>>) = {} /\ Unrepeated(<<>>)
  BY EmptySeq DEF Listed, Unrepeated
<1>3. c \in Nat /\ 0 <= c
  BY CachedTreeAssumption
<1>4. IsTree(OpenTree(e, c))
  BY <1>1, <1>2 DEF OpenTree, IsTree
<1>5. IsConsistent(OpenTree(e, c))
  BY <1>1, <1>2, <1>3 DEF OpenTree, IsConsistent
<1>6. QED
  BY <1>4, <1>5 DEF WellFormed

----------------------------------------------------------------------------
\* Every state is a well-formed tree.
LEMMA Inductive == Spec => []WellFormed(tree)
<1>1. Init => WellFormed(tree)
  BY NothingCached, NewTreeFacts DEF Init
<1>2. WellFormed(tree) /\ [Next]_tree => WellFormed(tree)'
  <2> SUFFICES ASSUME WellFormed(tree), [Next]_tree PROVE WellFormed(tree')
    OBVIOUS
  <2>1. ASSUME NEW k \in Keys, CallGet(k) PROVE WellFormed(tree')
    BY <2>1, GetFacts DEF CallGet
  <2>2. ASSUME NEW k \in Keys, NEW v \in Values, CallGetMut(k, v) PROVE WellFormed(tree')
    BY <2>2, MutateFacts DEF CallGetMut
  <2>3. ASSUME NEW k \in Keys, NEW v \in Values, CallInsert(k, v) PROVE WellFormed(tree')
    BY <2>3, InsertFacts DEF CallInsert
  <2>4. CASE CallFlush
    BY <2>4, FlushFacts DEF CallFlush
  <2>5. CASE Restart
    BY <2>5, NewTreeFacts, TreeFacts DEF Restart, Reopen
  <2>6. CASE UNCHANGED tree
    BY <2>6
  <2>7. QED
    BY <2>1, <2>2, <2>3, <2>4, <2>5, <2>6 DEF Next
<1>3. QED
  BY <1>1, <1>2, PTL DEF Spec

\* The state of a tree is of its type.
THEOREM TypeCorrect == Spec => []TypeOK
<1>1. WellFormed(tree) => TypeOK
  BY DEF WellFormed, IsTree, TypeOK
<1>2. QED
  BY <1>1, Inductive, PTL

\* The recency list of the LRU cache names exactly the cached keys.
THEOREM CacheConsistent == Spec => []LruConsistent
<1>1. WellFormed(tree) => LruConsistent
  BY DEF WellFormed, IsConsistent, Listed, Unrepeated, LruConsistent
<1>2. QED
  BY <1>1, Inductive, PTL

----------------------------------------------------------------------------
\* What a reader sees.
LEMMA PeekInsert ==
  ASSUME NEW t, WellFormed(t), NEW k \in Keys, NEW v \in Values, NEW j \in Keys
  PROVE  Peek(Insert(t, k, v), j) = IF j = k THEN v ELSE Peek(t, j)
<1> DEFINE i == Insert(t, k, v)  o == Oldest(t)
<1>1. t.store \in Entries /\ t.cache \in Entries
  BY TreeFacts
<1>2. CASE IsFull(t)
  <2>1. i.store = With(t.store, o, t.cache[o]) /\ i.cache = With(Without(t.cache, o), k, v)
    BY <1>2, InsertFacts
  <2>2. o \in Keys /\ o \in DOMAIN t.cache /\ t.cache[o] \in Values
    BY <1>2, WriteBackFacts, StoredValues
  <2>3. /\ Without(t.cache, o) \in Entries
        /\ DOMAIN Without(t.cache, o) = DOMAIN t.cache \ {o}
        /\ \A x \in DOMAIN t.cache \ {o} : Without(t.cache, o)[x] = t.cache[x]
    BY <1>1, WithoutFacts
  <2> HIDE DEF i, o
  <2>4. /\ DOMAIN i.cache = (DOMAIN t.cache \ {o}) \cup {k}
        /\ \A x \in (DOMAIN t.cache \ {o}) \cup {k} : i.cache[x] = IF x = k THEN v ELSE t.cache[x]
    BY <2>1, <2>3 DEF With
  <2>5. /\ DOMAIN i.store = DOMAIN t.store \cup {o}
        /\ \A x \in DOMAIN t.store \cup {o} : i.store[x] = IF x = o THEN t.cache[o] ELSE t.store[x]
    BY <2>1 DEF With
  <2>6. QED
    BY <2>2, <2>4, <2>5 DEF Peek, Lookup, i
<1>3. CASE ~IsFull(t)
  <2>1. i.store = t.store /\ i.cache = With(t.cache, k, v)
    BY <1>3, InsertFacts
  <2> HIDE DEF i
  <2>2. /\ DOMAIN i.cache = DOMAIN t.cache \cup {k}
        /\ \A x \in DOMAIN t.cache \cup {k} : i.cache[x] = IF x = k THEN v ELSE t.cache[x]
    BY <2>1 DEF With
  <2>3. QED
    BY <2>1, <2>2 DEF Peek, Lookup, i
<1>4. QED
  BY <1>2, <1>3

\* An insert writes the entry it pushes out of a full cache to the store
\* first: nothing but the inserted key reads differently afterwards.
THEOREM InsertIsSafe == Spec => InsertLosesNothing
<1>1. WellFormed(tree) /\ [Next]_tree =>
        [\A k \in Keys, v \in Values : CallInsert(k, v) => View' = [View EXCEPT ![k] = v]]_tree
  <2> SUFFICES ASSUME WellFormed(tree), NEW k \in Keys, NEW v \in Values, CallInsert(k, v)
               PROVE  View' = [View EXCEPT ![k] = v]
    OBVIOUS
  <2>1. \A j \in Keys : Peek(tree', j) = IF j = k THEN v ELSE Peek(tree, j)
    BY PeekInsert DEF CallInsert
  <2>2. QED
    BY <2>1 DEF View
<1>2. QED
  BY <1>1, Inductive, PTL DEF Spec, InsertLosesNothing

\* A load may push a key out; a key that stays is read as before.
LEMMA RoomCache ==
  ASSUME NEW t, WellFormed(t), NEW k \in Keys
  PROVE  /\ DOMAIN Room(t, k).cache \subseteq DOMAIN t.cache
         /\ \A j \in DOMAIN Room(t, k).cache : Room(t, k).cache[j] = t.cache[j]
<1>1. CASE k \notin DOMAIN t.cache /\ IsFull(t)
  <2>1. Room(t, k).cache = Without(t.cache, Oldest(t))
    BY <1>1, FullIsNotEmpty, PopLruFacts DEF Room
  <2>2. QED
    BY <2>1 DEF Without
<1>2. CASE ~(k \notin DOMAIN t.cache /\ IsFull(t))
  BY <1>2 DEF Room
<1>3. QED
  BY <1>1, <1>2

\* If the store agrees with every cached entry, it does so after a get, which
\* then changes nothing that a reader sees.
LEMMA CleanGet ==
  ASSUME NEW t, WellFormed(t), \A j \in Keys : ~Dirty(t, j), NEW k \in Keys, NEW j \in Keys
  PROVE  Peek(Get(t, k), j) = Peek(t, j) /\ ~Dirty(Get(t, k), j)
<1> DEFINE g == Get(t, k)  r == Room(t, k)
<1>1. g.store = t.store
  BY GetFacts
<1>2. \A x \in DOMAIN t.cache : x \in DOMAIN t.store /\ t.store[x] = t.cache[x]
  BY StoredValues DEF Dirty
<1>3. CASE Loads(t, k)
  <2>1. g.cache = With(r.cache, k, t.store[k])
    BY <1>3, GetFacts
  <2>2. /\ DOMAIN r.cache \subseteq DOMAIN t.cache
        /\ \A x \in DOMAIN r.cache : r.cache[x] = t.cache[x]
    BY RoomCache
  <2>3. k \in DOMAIN t.store /\ k \notin DOMAIN t.cache
    BY <1>3 DEF Loads
  <2> HIDE DEF g, r
  <2>4. \A x \in DOMAIN g.cache : x \in DOMAIN t.store /\ g.cache[x] = t.store[x]
    BY <1>2, <2>1, <2>2, <2>3 DEF With
  <2>5. Peek(g, j) = Lookup(t.store, j)
    BY <1>1, <2>4 DEF Peek, Lookup
  <2>6. Peek(t, j) = Lookup(t.store, j)
    BY <1>2 DEF Peek, Lookup
  <2>7. ~Dirty(g, j)
    BY <1>1, <2>4 DEF Dirty
  <2>8. QED
    BY <2>5, <2>6, <2>7 DEF g
<1>4. CASE ~Loads(t, k)
  <2>1. g.cache = t.cache
    BY <1>4, GetFacts
  <2> HIDE DEF g
  <2>2. QED
    BY <1>1, <2>1 DEF Peek, Lookup, Dirty, g
<1>5. QED
  BY <1>3, <1>4

\* However small the cache, reading a flushed graph never changes what the
\* next read returns.
THEOREM CleanReadsAreSafe == Spec => CleanReadsLoseNothing
<1>1. WellFormed(tree) /\ [Next]_tree =>
        [Clean /\ (\E k \in Keys : CallGet(k)) => View' = View /\ Clean']_tree
  <2> SUFFICES ASSUME WellFormed(tree), Clean, NEW k \in Keys, CallGet(k)
               PROVE  View' = View /\ Clean'
    OBVIOUS
  <2>1. tree' = Get(tree, k)
    BY DEF CallGet
  <2>2. \A j \in Keys : Peek(tree', j) = Peek(tree, j) /\ ~Dirty(tree', j)
    BY <2>1, CleanGet DEF Clean
  <2>3. QED
    BY <2>2 DEF View, Clean
<1>2. QED
  BY <1>1, Inductive, PTL DEF Spec, CleanReadsLoseNothing

----------------------------------------------------------------------------
\* With room for every key, no load pushes anything out.
LEMMA NotFull ==
  ASSUME NEW t, WellFormed(t), Cardinality(Keys) <= t.cap,
         NEW k \in Keys, k \notin DOMAIN t.cache
  PROVE  ~IsFull(t)
<1> DEFINE n == Len(t.lru)
<1>1. n \in Nat /\ t.cap \in Nat /\ IsFiniteSet(Keys)
  BY TreeFacts, CachedTreeAssumption
<1>2. IsFiniteSet(Keys \ {k}) /\ Cardinality(Keys \ {k}) = Cardinality(Keys) - 1
  BY <1>1, FS_RemoveElement
<1>3. Cardinality(Keys) \in Nat /\ Cardinality(Keys \ {k}) \in Nat
  BY <1>1, <1>2, FS_CardinalityType
<1>4. t.lru \in Injection(1 .. n, Keys \ {k})
  <2>1. t.lru \in [1 .. n -> Keys] /\ Listed(t.lru) = DOMAIN t.cache /\ Unrepeated(t.lru)
    BY TreeFacts, LenProperties
  <2>2. \A i \in 1 .. n : t.lru[i] /= k
    BY <2>1 DEF Listed
  <2>3. t.lru \in [1 .. n -> Keys \ {k}]
    BY <2>1, <2>2
  <2>4. IsInjective(t.lru)
    BY <2>1 DEF Unrepeated, IsInjective
  <2>5. QED
    BY <2>3, <2>4 DEF Injection
<1>5. Cardinality(1 .. n) <= Cardinality(Keys \ {k})
  BY <1>2, <1>4, FS_Injection
<1>6. Cardinality(1 .. n) = n
  BY <1>1, FS_Interval
<1>7. n < t.cap
  BY <1>1, <1>2, <1>3, <1>5, <1>6
<1>8. QED
  BY <1>7 DEF IsFull

LEMMA RoomyGet ==
  ASSUME NEW t, WellFormed(t), Cardinality(Keys) <= t.cap, NEW k \in Keys, NEW j \in Keys
  PROVE  Peek(Get(t, k), j) = Peek(t, j)
<1> DEFINE g == Get(t, k)
<1>1. g.store = t.store
  BY GetFacts
<1>2. CASE Loads(t, k)
  <2>1. Room(t, k) = t
    BY <1>2, NotFull DEF Room, Loads
  <2>2. g.cache = With(t.cache, k, t.store[k])
    BY <1>2, <2>1, GetFacts
  <2> HIDE DEF g
  <2>3. QED
    BY <1>1, <1>2, <2>2 DEF Loads, With, Peek, Lookup, g
<1>3. CASE ~Loads(t, k)
  <2>1. g.cache = t.cache
    BY <1>3, GetFacts
  <2> HIDE DEF g
  <2>2. QED
    BY <1>1, <2>1 DEF Peek, Lookup, g
<1>4. QED
  BY <1>2, <1>3

\* A tree with room for all keys is a plain map: until a restart, every key
\* reads as it was last written.
THEOREM RoomyTreeIsReliable == Spec => ReliableWithRoom
<1>1. WellFormed(tree) /\ [Next]_tree =>
        [HasRoom => ActsAsMap]_tree
  <2> SUFFICES ASSUME WellFormed(tree), HasRoom PROVE ActsAsMap
    OBVIOUS
  <2>0. Cardinality(Keys) <= tree.cap
    BY DEF HasRoom
  <2>1. ASSUME NEW k \in Keys, CallGet(k) PROVE UNCHANGED View
    BY <2>0, <2>1, RoomyGet DEF CallGet, View
  <2>2. ASSUME NEW k \in Keys, NEW v \in Values, CallGetMut(k, v)
       PROVE  Reliable!Write(k, v)
    <3> DEFINE g == Get(tree, k)
    <3>1. Known(tree, k) /\ tree' = Mutate(tree, k, v)
      BY <2>2 DEF CallGetMut
    <3>2. tree'.store = g.store /\ tree'.cache = With(g.cache, k, v)
      BY <3>1, MutateFacts, GetFacts
    <3>3. \A j \in Keys : Peek(g, j) = Peek(tree, j)
      BY <2>0, RoomyGet
    <3> HIDE DEF g
    <3>4. \A j \in Keys : Peek(tree', j) = IF j = k THEN v ELSE Peek(g, j)
      BY <3>2 DEF Peek, Lookup, With
    <3>5. View' = [View EXCEPT ![k] = v]
      BY <3>3, <3>4 DEF View
    <3>6. QED
      BY <3>5 DEF Reliable!Write
  <2>3. ASSUME NEW k \in Keys, NEW v \in Values, CallInsert(k, v)
       PROVE  Reliable!Write(k, v)
    <3>1. \A j \in Keys : Peek(tree', j) = IF j = k THEN v ELSE Peek(tree, j)
      BY <2>3, PeekInsert DEF CallInsert
    <3>2. View' = [View EXCEPT ![k] = v]
      BY <3>1 DEF View
    <3>3. QED
      BY <3>2 DEF Reliable!Write
  <2>4. ASSUME CallFlush PROVE UNCHANGED View
    <3>1. /\ tree'.cache = tree.cache
          /\ DOMAIN tree'.store = DOMAIN tree.store \cup DOMAIN tree.cache
          /\ \A j \in DOMAIN tree.store \cup DOMAIN tree.cache : tree'.store[j] = Peek(tree, j)
      BY <2>4, FlushFacts DEF CallFlush
    <3>2. \A j \in Keys : Peek(tree', j) = Peek(tree, j)
      BY <3>1 DEF Peek, Lookup
    <3>3. QED
      BY <3>2 DEF View
  <2>5. QED
    BY <2>1, <2>2, <2>3, <2>4 DEF ActsAsMap
<1>2. QED
  BY <1>1, Inductive, PTL DEF Spec, ReliableWithRoom

----------------------------------------------------------------------------
\* Whatever the capacity: a load makes the reader forget at most one other
\* key, whose value falls back to the stored one.
Unread(t, o, j) == IF j = o THEN Lookup(t.store, o) ELSE Peek(t, j)

LEMMA ForgetfulGet ==
  ASSUME NEW t, WellFormed(t), NEW k \in Keys
  PROVE  \/ \A j \in Keys : Peek(Get(t, k), j) = Peek(t, j)
         \/ \E o \in Keys \ {k} : \A j \in Keys : Peek(Get(t, k), j) = Unread(t, o, j)
<1> DEFINE g == Get(t, k)
<1>1. g.store = t.store
  BY GetFacts
<1>2. CASE ~Loads(t, k)
  <2>1. g.cache = t.cache
    BY <1>2, GetFacts
  <2> HIDE DEF g
  <2>2. QED
    BY <1>1, <2>1 DEF Peek, Lookup, g
<1>3. CASE Loads(t, k) /\ ~IsFull(t)
  <2>1. g.cache = With(t.cache, k, t.store[k])
    BY <1>3, GetFacts DEF Room
  <2> HIDE DEF g
  <2>2. QED
    BY <1>1, <1>3, <2>1 DEF Loads, With, Peek, Lookup, g
<1>4. CASE Loads(t, k) /\ IsFull(t)
  <2> DEFINE o == Oldest(t)
  <2>1. o \in Keys /\ o \in DOMAIN t.cache /\ Room(t, k).cache = Without(t.cache, o)
    BY <1>4, FullIsNotEmpty, PopLruFacts DEF Room, Loads
  <2>2. g.cache = With(Without(t.cache, o), k, t.store[k])
    BY <1>4, <2>1, GetFacts
  <2> HIDE DEF g, o
  <2>3. /\ DOMAIN g.cache = (DOMAIN t.cache \ {o}) \cup {k}
        /\ \A x \in (DOMAIN t.cache \ {o}) \cup {k} :
             g.cache[x] = IF x = k THEN t.store[k] ELSE t.cache[x]
    BY <2>2 DEF With, Without
  <2>4. k \in DOMAIN t.store /\ k \notin DOMAIN t.cache /\ o /= k
    BY <1>4, <2>1 DEF Loads
  <2>5. \A j \in Keys : Peek(g, j) = Unread(t, o, j)
    BY <1>1, <2>3, <2>4 DEF Peek, Lookup, Unread
  <2>6. QED
    BY <2>1, <2>4, <2>5 DEF g
<1>5. QED
  BY <1>2, <1>3, <1>4

LEMMA ForgetfulRead ==
  ASSUME WellFormed(tree), NEW k \in Keys, CallGet(k)
  PROVE  [Forgetful!Read(k)]_Forgetful!vars
<1>1. tree' = Get(tree, k) /\ Durable' = Durable
  BY GetFacts DEF CallGet, Durable
<1>2. CASE \A j \in Keys : Peek(tree', j) = Peek(tree, j)
  BY <1>1, <1>2 DEF View, Forgetful!vars
<1>3. ASSUME NEW o \in Keys \ {k}, \A j \in Keys : Peek(tree', j) = Unread(tree, o, j)
      PROVE  Forgetful!Read(k)
  <2>1. View' = Forgetful!Forget(View, {o})
    BY <1>3 DEF View, Durable, Unread, Forgetful!Forget
  <2>2. QED
    BY <1>1, <2>1 DEF Forgetful!Read
<1>4. QED
  BY <1>1, <1>2, <1>3, ForgetfulGet

LEMMA ForgetfulModify ==
  ASSUME WellFormed(tree), NEW k \in Keys, NEW v \in Values, CallGetMut(k, v)
  PROVE  Forgetful!Modify(k, v)
<1> DEFINE g == Get(tree, k)
<1>1. Known(tree, k) /\ tree' = Mutate(tree, k, v)
  BY DEF CallGetMut
<1>2. tree'.store = tree.store /\ g.store = tree.store /\ tree'.cache = With(g.cache, k, v)
  BY <1>1, MutateFacts, GetFacts
<1>3. \/ \A j \in Keys : Peek(g, j) = Peek(tree, j)
      \/ \E o \in Keys \ {k} : \A j \in Keys : Peek(g, j) = Unread(tree, o, j)
  BY ForgetfulGet
<1> HIDE DEF g
<1>4. \A j \in Keys : Peek(tree', j) = IF j = k THEN v ELSE Peek(g, j)
  BY <1>2 DEF Peek, Lookup, With
<1>5. Durable' = Durable
  BY <1>2 DEF Durable
<1>6. View[k] /= NoValue
  BY <1>1, StoredValues, CachedTreeAssumption DEF View, Known, Peek, Lookup
<1>7. CASE \A j \in Keys : Peek(g, j) = Peek(tree, j)
  <2>1. View' = [View EXCEPT ![k] = v]
    BY <1>4, <1>7 DEF View
  <2>2. QED
    BY <1>5, <1>6, <2>1 DEF Forgetful!Modify
<1>8. ASSUME NEW o \in Keys \ {k}, \A j \in Keys : Peek(g, j) = Unread(tree, o, j)
      PROVE  Forgetful!Modify(k, v)
  <2>1. View' = [Forgetful!Forget(View, {o}) EXCEPT ![k] = v]
    BY <1>4, <1>8 DEF View, Durable, Unread, Forgetful!Forget
  <2>2. QED
    BY <1>5, <1>6, <2>1 DEF Forgetful!Modify
<1>9. QED
  BY <1>3, <1>7, <1>8

LEMMA ForgetfulWrite ==
  ASSUME WellFormed(tree), NEW k \in Keys, NEW v \in Values, CallInsert(k, v)
  PROVE  Forgetful!Write(k, v)
<1>1. View' = [View EXCEPT ![k] = v]
  <2>1. \A j \in Keys : Peek(tree', j) = IF j = k THEN v ELSE Peek(tree, j)
    BY PeekInsert DEF CallInsert
  <2>2. QED
    BY <2>1 DEF View
<1>2. CASE ~IsFull(tree)
  <2>1. Durable' = Durable
    BY <1>2, InsertFacts DEF CallInsert, Durable
  <2>2. QED
    BY <1>1, <2>1 DEF Forgetful!Write
<1>3. CASE IsFull(tree)
  <2> DEFINE o == Oldest(tree)
  <2>1. /\ o \in Keys /\ o \in DOMAIN tree.cache
        /\ tree'.store = With(tree.store, o, tree.cache[o])
    BY <1>3, WriteBackFacts, InsertFacts DEF CallInsert
  <2> HIDE DEF o
  <2>2. \A j \in Keys : Lookup(tree'.store, j) =
                          IF j = o THEN Peek(tree, o) ELSE Lookup(tree.store, j)
    BY <2>1 DEF With, Lookup, Peek
  <2>3. Durable' = [Durable EXCEPT ![o] = View[o]]
    BY <2>1, <2>2 DEF Durable, View
  <2>4. QED
    BY <1>1, <2>1, <2>3 DEF Forgetful!Write
<1>4. QED
  BY <1>2, <1>3

\* A CachedTree of any capacity is a ForgetfulMap: what a reader may lose to
\* a load is one key, what a restart may lose is what was not written back.
THEOREM TreeIsForgetful == Spec => ImplementsForgetfulMap
<1>1. Init => Forgetful!Init
  BY DEF Init, OpenTree, NoEntries, View, Durable, Peek, Lookup, Forgetful!Init
<1>2. WellFormed(tree) /\ [Next]_tree => [Forgetful!Next]_Forgetful!vars
  <2> SUFFICES ASSUME WellFormed(tree), [Next]_tree PROVE [Forgetful!Next]_Forgetful!vars
    OBVIOUS
  <2>1. ASSUME NEW k \in Keys, CallGet(k) PROVE [Forgetful!Next]_Forgetful!vars
    BY <2>1, ForgetfulRead DEF Forgetful!Next
  <2>2. ASSUME NEW k \in Keys, NEW v \in Values, CallGetMut(k, v) PROVE Forgetful!Next
    BY <2>2, ForgetfulModify DEF Forgetful!Next
  <2>3. ASSUME NEW k \in Keys, NEW v \in Values, CallInsert(k, v) PROVE Forgetful!Next
    BY <2>3, ForgetfulWrite DEF Forgetful!Next
  <2>4. CASE CallFlush
    <3>1. /\ tree'.cache = tree.cache
          /\ DOMAIN tree'.store = DOMAIN tree.store \cup DOMAIN tree.cache
          /\ \A j \in DOMAIN tree.store \cup DOMAIN tree.cache : tree'.store[j] = Peek(tree, j)
      BY <2>4, FlushFacts DEF CallFlush
    <3>2. \A j \in Keys : /\ Peek(tree', j) = Peek(tree, j)
                          /\ Lookup(tree'.store, j) = Peek(tree, j)
      BY <3>1 DEF Peek, Lookup
    <3>3. View' = View /\ Durable' = View
      BY <3>2 DEF View, Durable
    <3>4. QED
      BY <3>3 DEF Forgetful!Persist, Forgetful!Next
  <2>5. CASE Restart
    <3>1. tree'.store = tree.store /\ DOMAIN tree'.cache = {}
      BY <2>5 DEF Restart, Reopen, OpenTree, NoEntries
    <3>2. View' = Durable /\ Durable' = Durable
      BY <3>1 DEF View, Durable, Peek
    <3>3. QED
      BY <3>2 DEF Forgetful!Restart, Forgetful!Next
  <2>6. CASE UNCHANGED tree
    BY <2>6 DEF View, Durable, Forgetful!vars
  <2>7. QED
    BY <2>1, <2>2, <2>3, <2>4, <2>5, <2>6 DEF Next
<1>3. QED
  BY <1>1, <1>2, Inductive, PTL DEF Spec, ImplementsForgetfulMap, Forgetful!Spec
=============================================================================
