----------------------- MODULE DistributedSearchProofs ---------------------
(***************************************************************************)
(* For any shards, replicas and documents:                                 *)
(*                                                                         *)
(* BInv   a search ends with a bang if and only if some shard's answer had *)
(*        one, whatever order they came in;                                *)
(* DInv   the places that are filled while shards are asked in turn hold   *)
(*        pages of the same shard in the order of the ranking, and a place *)
(*        stays free only for a page that could not be read or a shard of  *)
(*        which a replica gave up: so the result keeps the order and tells *)
(*        its losses.                                                      *)
(***************************************************************************)
EXTENDS DistributedSearch, FiniteSetTheorems, SequenceTheorems, TLAPS

\* While the search runs it has no result; it goes on to retrieve pages only
\* when no shard has found a bang; and nothing is asked for before the start.
BangsStopTheSearch ==
  /\ phase \in {"start", "search", "retrieve", "done"}
  /\ phase /= "done" => result.kind = "none"
  /\ phase = "start" => initial = <<>>
  /\ phase = "retrieve" => ~HasBang

BInv == BangsStopTheSearch /\ BangWins

\* Without answers there is no bang.
LEMMA NoAnswers == ASSUME initial = <<>> PROVE ~HasBang
  BY DEF HasBang

\* A change of phase alone, or of nothing the invariant speaks of.
LEMMA SameAnswers == ASSUME initial' = initial PROVE HasBang' = HasBang
  BY DEF HasBang

\* The invariant holds at first.
LEMMA BangInit == Init => BInv
  BY NoAnswers DEF Init, BInv, BangsStopTheSearch, BangWins, NoResult

\* Every step preserves it.
LEMMA BangStep ==
  ASSUME BInv, [Next]_vars
  PROVE  BInv'
<1> USE DEF BInv, BangsStopTheSearch
<1>0. BangWins <=> (phase = "done" => (result.kind = "Bang" <=> HasBang))
  BY DEF BangWins, HasBang
<1>1. BangWins' <=> (phase' = "done" => (result'.kind = "Bang" <=> HasBang'))
  BY DEF BangWins, HasBang
<1>2. CASE Start
  <2>1. initial' = initial /\ initial = <<>> /\ phase' \in {"done", "search"}
    BY <1>2 DEF Start
  <2>2. result' = result \/ result' = [NoResult EXCEPT !.kind = "EmptyQuery"]
    BY <1>2 DEF Start
  <2>3. result'.kind /= "Bang" /\ (phase' = "search" => result'.kind = "none")
    BY <1>2, <2>2 DEF Start, NoResult
  <2>4. QED
    BY <1>1, <2>1, <2>3, NoAnswers, SameAnswers
<1>3. ASSUME NEW s \in Shards, ShardSearched(s) PROVE BInv'
  BY <1>1, <1>3 DEF ShardSearched
<1>4. ASSUME NEW s \in Shards, RetrieveFrom(s) PROVE BInv'
  BY <1>1, <1>4, SameAnswers DEF RetrieveFrom
<1>5. CASE ReturnBang
  BY <1>1, <1>5, SameAnswers DEF ReturnBang, NoResult
<1>6. CASE Combine
  BY <1>1, <1>6, SameAnswers DEF Combine, Searched
<1>7. CASE Finish
  BY <1>1, <1>7, SameAnswers DEF Finish, NoResult
<1>8. CASE UNCHANGED <<phase, initial, result>>
  BY <1>0, <1>1, <1>8, SameAnswers
<1>9. ASSUME (\E r \in Replicas : RemoteStep(r)) \/ UNCHANGED vars
      PROVE  UNCHANGED <<phase, initial, result>>
  BY <1>9 DEF RemoteStep, AttemptFails, AttemptAnswers, vars
<1>10. QED
  BY <1>2, <1>3, <1>4, <1>5, <1>6, <1>7, <1>8, <1>9 DEF Next, SearcherStep

\* A search is redirected by a bang if and only if one of the shards' answers
\* has one.
THEOREM BangsAreNotLost == Spec => []BangWins
<1>1. BInv => BangWins
  BY DEF BInv
<1>2. QED
  BY <1>1, BangInit, BangStep, PTL DEF Spec

\* Induction over the numbers, by way of a smallest finite set.
Minimal(A, T) == A \in T /\ \A B \in T : B \subseteq A => B = A
AllFinite(T) == \A A \in T : IsFiniteSet(A)

\* A nonempty set of finite sets has one that contains no other of them.
LEMMA MinimalSet ==
  ASSUME NEW T, AllFinite(T), T /= {}
  PROVE  \E A : Minimal(A, T)
<1> DEFINE X == UNION T
<1>1. IsWellFoundedOn(StrictSubsetOrdering(X), FiniteSubsetsOf(X))
  BY FS_StrictSubsetOrderingWellFounded
<1>2. T \subseteq FiniteSubsetsOf(X)
  BY DEF FiniteSubsetsOf, AllFinite
<1>3. PICK A \in T : \A B \in T : ~ (<<B, A>> \in StrictSubsetOrdering(X))
  BY <1>1, <1>2, WFMin
<1>4. \A B \in T : B \subseteq A => B = A
  BY <1>3 DEF StrictSubsetOrdering
<1>5. QED
  BY <1>4 DEF Minimal

\* A nonempty set of numbers has a least.
LEMMA LeastNumber ==
  ASSUME NEW W, W \subseteq Nat, W /= {}
  PROVE  \E n \in W : \A k \in W : n <= k
<1>1. PICK T : T = {0 .. n : n \in W}
  OBVIOUS
<1>2. T /= {}
  BY <1>1
<1>3. AllFinite(T)
  <2>1. \A n \in W : IsFiniteSet(0 .. n)
    BY FS_Interval
  <2>2. QED
    BY <1>1, <2>1, Zenon DEF AllFinite
<1>4. PICK A : Minimal(A, T)
  BY <1>2, <1>3, MinimalSet
<1>5. PICK n \in W : A = 0 .. n
  BY <1>1, <1>4 DEF Minimal
<1>6. ASSUME NEW k \in W, k < n PROVE FALSE
  <2>1. (0 .. k) \in T /\ (0 .. k) \subseteq (0 .. n)
    BY <1>1, <1>6
  <2>2. 0 .. k = 0 .. n
    BY <1>4, <1>5, <2>1 DEF Minimal
  <2>3. QED
    BY <1>6, <2>2
<1>7. QED
  BY <1>6

\* Induction, of a set of numbers.
LEMMA SetInduction ==
  ASSUME NEW S, 0 \in S, \A n \in Nat : n \in S => n + 1 \in S
  PROVE  \A n \in Nat : n \in S
<1> SUFFICES ASSUME NEW m \in Nat, m \notin S PROVE FALSE
  OBVIOUS
<1>1. PICK n \in Nat \ S : \A k \in Nat \ S : n <= k
  BY LeastNumber
<1>2. n /= 0 /\ n - 1 \in Nat \ S
  OBVIOUS
<1>3. QED
  BY <1>1, <1>2

----------------------------------------------------------------------------
\* What a filter leaves.
OneOn(out, x, bad) == IF x \in bad THEN out ELSE Append(out, x)
Kept(f, seq, bad, n) ==
  f = [i \in 0 .. n |-> IF i = 0 THEN <<>> ELSE OneOn(f[i - 1], seq[i], bad)]

\* The recursive definition of Without defines something.
LEMMA KeptExist ==
  ASSUME NEW seq, NEW bad, NEW n \in Nat
  PROVE  \E f : Kept(f, seq, bad, n)
<1> DEFINE S == {i \in Nat : \E f : Kept(f, seq, bad, i)}
<1>1. 0 \in S
  <2>1. PICK f : f = [i \in 0 .. 0 |-> <<>>]
    OBVIOUS
  <2>2. \A i \in 0 .. 0 : i = 0
    OBVIOUS
  <2>3. f = [i \in 0 .. 0 |->
               IF i = 0 THEN <<>> ELSE OneOn(f[i - 1], seq[i], bad)]
    BY <2>1, <2>2
  <2>4. QED
    BY <2>3 DEF Kept
<1>2. ASSUME NEW i \in Nat, i \in S PROVE i + 1 \in S
  <2>1. PICK f : Kept(f, seq, bad, i)
    BY <1>2
  <2>2. PICK g : g = [k \in 0 .. i + 1 |->
                        IF k = 0 THEN <<>> ELSE OneOn(f[k - 1], seq[k], bad)]
    OBVIOUS
  <2>3. \A k \in 0 .. i : g[k] = f[k]
    BY <2>1, <2>2 DEF Kept
  <2>4. \A k \in 0 .. i + 1 : k /= 0 => k - 1 \in 0 .. i
    OBVIOUS
  <2>5. \A k \in 0 .. i + 1 : k /= 0 => g[k - 1] = f[k - 1]
    BY <2>3, <2>4
  <2>6. g = [k \in 0 .. i + 1 |->
               IF k = 0 THEN <<>> ELSE OneOn(g[k - 1], seq[k], bad)]
    BY <2>2, <2>5
  <2>7. QED
    BY <2>6 DEF Kept
<1> HIDE DEF S
<1>3. n \in S
  BY <1>1, <1>2, SetInduction
<1>4. QED
  BY <1>3 DEF S

\* The first n elements that are not bad are out, at the places of m.
Filtered(seq, bad, n, out, m) ==
  /\ m \in [1 .. Len(out) -> 1 .. n] /\ Len(out) <= n
  /\ \A k \in 1 .. Len(out) : out[k] = seq[m[k]] /\ out[k] \notin bad
  /\ \A j, k \in 1 .. Len(out) : j < k => m[j] < m[k]
  /\ \A i \in 1 .. n : seq[i] \notin bad => \E k \in 1 .. Len(out) : m[k] = i
  /\ (\A i \in 1 .. n : seq[i] \notin bad) =>
       Len(out) = n /\ \A k \in 1 .. Len(out) : m[k] = k

\* One more element: a bad one is left out.
LEMMA BadLeftOut ==
  ASSUME NEW S, NEW seq, NEW bad, NEW n \in Nat, NEW out \in Seq(S), NEW m,
         Filtered(seq, bad, n, out, m), seq[n + 1] \in bad
  PROVE  Filtered(seq, bad, n + 1, out, m)
<1>1. \A i \in 1 .. n + 1 : i \in 1 .. n \/ i = n + 1
  OBVIOUS
<1>2. \A i \in 1 .. n : i \in 1 .. n + 1
  OBVIOUS
<1>3. n + 1 \in 1 .. n + 1 /\ Len(out) \in Nat
  BY LenProperties
<1>4. m \in [1 .. Len(out) -> 1 .. n + 1] /\ Len(out) <= n + 1
  BY <1>2, <1>3 DEF Filtered
<1>5. \A i \in 1 .. n + 1 : seq[i] \notin bad => \E k \in 1 .. Len(out) : m[k] = i
  BY <1>1 DEF Filtered
<1>6. QED
  BY <1>3, <1>4, <1>5 DEF Filtered

\* And one that is not bad is put in.
LEMMA GoodPutIn ==
  ASSUME NEW S, NEW seq, NEW bad, NEW n \in Nat, NEW out \in Seq(S), NEW m,
         Filtered(seq, bad, n, out, m), seq[n + 1] \notin bad, seq[n + 1] \in S,
         NEW more, more = Append(out, seq[n + 1])
  PROVE  \E p : Filtered(seq, bad, n + 1, more, p)
<1>1. /\ Len(out) \in Nat /\ Len(more) = Len(out) + 1 /\ more[Len(out) + 1] = seq[n + 1]
      /\ \A k \in 1 .. Len(out) : more[k] = out[k]
  BY AppendProperties, LenProperties
<1>2. PICK l \in Nat : l = Len(out)
  BY <1>1
<1>3. PICK p : p = [k \in 1 .. l + 1 |-> IF k = l + 1 THEN n + 1 ELSE m[k]]
  OBVIOUS
<1>4. p[l + 1] = n + 1 /\ \A k \in 1 .. l : p[k] = m[k] /\ m[k] \in 1 .. n
  <2>1. p[l + 1] = n + 1
    BY <1>3
  <2>2. ASSUME NEW k \in 1 .. l PROVE p[k] = m[k]
    <3>1. k \in 1 .. l + 1 /\ k /= l + 1
      OBVIOUS
    <3>2. QED
      BY <1>3, <3>1
  <2>3. m \in [1 .. l -> 1 .. n]
    BY <1>2 DEF Filtered
  <2>4. QED
    BY <2>1, <2>2, <2>3
<1>5. \A k \in 1 .. l + 1 : k \in 1 .. l \/ k = l + 1
  OBVIOUS
<1>6. p \in [1 .. l + 1 -> 1 .. n + 1] /\ l + 1 <= n + 1
  BY <1>2, <1>3, <1>4, <1>5, SMTT(30) DEF Filtered
<1>7. \A k \in 1 .. l + 1 : more[k] = seq[p[k]] /\ more[k] \notin bad
  BY <1>1, <1>2, <1>4, <1>5 DEF Filtered
<1>8. \A j, k \in 1 .. l + 1 : j < k => p[j] < p[k]
  <2>1. ASSUME NEW j \in 1 .. l + 1, NEW k \in 1 .. l + 1, j < k PROVE p[j] < p[k]
    <3>1. j \in 1 .. l
      BY <1>5, <2>1
    <3>2. CASE k = l + 1
      BY <1>4, <3>1, <3>2
    <3>3. CASE k \in 1 .. l
      BY <1>2, <1>4, <2>1, <3>1, <3>3 DEF Filtered
    <3>4. QED
      BY <1>5, <3>2, <3>3
  <2>2. QED
    BY <2>1
<1>9. ASSUME NEW i \in 1 .. n + 1, seq[i] \notin bad PROVE \E k \in 1 .. l + 1 : p[k] = i
  <2>1. CASE i = n + 1
    BY <1>4, <2>1
  <2>2. CASE i \in 1 .. n
    <3>1. PICK k \in 1 .. l : m[k] = i
      BY <1>2, <1>9, <2>2 DEF Filtered
    <3>2. k \in 1 .. l + 1
      OBVIOUS
    <3>3. QED
      BY <1>4, <3>1, <3>2
  <2>3. QED
    BY <2>1, <2>2
<1>10. ASSUME \A i \in 1 .. n + 1 : seq[i] \notin bad
       PROVE  l + 1 = n + 1 /\ \A k \in 1 .. l + 1 : p[k] = k
  <2>1. \A i \in 1 .. n : seq[i] \notin bad
    BY <1>10
  <2>2. l = n /\ \A k \in 1 .. l : m[k] = k
    BY <1>2, <2>1 DEF Filtered
  <2>3. QED
    BY <1>4, <1>5, <2>2
<1>11. Len(more) = l + 1
  BY <1>1, <1>2
<1>12. Filtered(seq, bad, n + 1, more, p)
  BY <1>6, <1>7, <1>8, <1>9, <1>10, <1>11 DEF Filtered
<1>13. QED
  BY <1>12

\* A filter leaves what is not bad, in order.
LEMMA WithoutFacts ==
  ASSUME NEW S, NEW seq \in Seq(S), NEW bad
  PROVE  /\ Without(seq, bad) \in Seq(S)
         /\ \E m : Filtered(seq, bad, Len(seq), Without(seq, bad), m)
<1>1. PICK n \in Nat : n = Len(seq)
  BY LenProperties
<1>2. PICK f : f = CHOOSE g : Kept(g, seq, bad, n)
  OBVIOUS
<1>3. Kept(f, seq, bad, n)
  BY <1>2, KeptExist
<1>4. Without(seq, bad) = f[n]
  BY <1>1, <1>2 DEF Without, Kept, OneOn
<1>5. f[0] = <<>> /\ \A i \in 1 .. n : f[i] = OneOn(f[i - 1], seq[i], bad)
  BY <1>3 DEF Kept
<1> DEFINE T == {i \in Nat : i <= n => f[i] \in Seq(S) /\ \E m : Filtered(seq, bad, i, f[i], m)}
<1>6. 0 \in T
  <2>1. PICK out : out = f[0]
    OBVIOUS
  <2>2. out \in Seq(S) /\ Len(out) = 0
    BY <1>5, <2>1
  <2>3. PICK m : m = [k \in 1 .. 0 |-> 0]
    OBVIOUS
  <2>4. Filtered(seq, bad, 0, out, m)
    BY <2>2, <2>3 DEF Filtered
  <2>5. QED
    BY <2>1, <2>2, <2>4
<1>7. ASSUME NEW i \in Nat, i \in T PROVE i + 1 \in T
  <2> SUFFICES ASSUME i + 1 <= n
               PROVE  f[i + 1] \in Seq(S) /\ \E m : Filtered(seq, bad, i + 1, f[i + 1], m)
    OBVIOUS
  <2>1. i <= n /\ i + 1 \in 1 .. n /\ (i + 1) - 1 = i
    OBVIOUS
  <2>2. f[i] \in Seq(S) /\ \E m : Filtered(seq, bad, i, f[i], m)
    BY <1>7, <2>1
  <2>3. PICK out, m : out \in Seq(S) /\ out = f[i] /\ Filtered(seq, bad, i, out, m)
    BY <2>2
  <2>4. f[i + 1] = OneOn(out, seq[i + 1], bad)
    BY <1>5, <2>1, <2>3
  <2>5. seq[i + 1] \in S
    BY <1>1, <2>1, ElementOfSeq
  <2>6. CASE seq[i + 1] \in bad
    BY <2>3, <2>4, <2>6, BadLeftOut DEF OneOn
  <2>7. CASE seq[i + 1] \notin bad
    <3>1. PICK more : more = Append(out, seq[i + 1])
      OBVIOUS
    <3>2. more \in Seq(S)
      BY <2>3, <2>5, <3>1, AppendProperties
    <3>3. \E p : Filtered(seq, bad, i + 1, more, p)
      BY <2>3, <2>5, <2>7, <3>1, GoodPutIn
    <3>4. QED
      BY <2>4, <2>7, <3>1, <3>2, <3>3 DEF OneOn
  <2>8. QED
    BY <2>6, <2>7
<1> HIDE DEF T
<1>8. n \in T
  BY <1>6, <1>7, SetInduction
<1>9. QED
  BY <1>1, <1>4, <1>8 DEF T

----------------------------------------------------------------------------
\* Asking one shard for its documents.
IsPage(pages) ==
  pages \in Seq(Docs) /\ \A i, k \in 1 .. Len(pages) : pages[i] = pages[k] => i = k

\* The places of the pages of a shard, in order.
Rising(ix) == \A j, k \in 1 .. Len(ix) : j < k => ix[j] < ix[k]

Enumerates(pages, s, ix) ==
  /\ ix \in Seq(1 .. Len(pages)) /\ Rising(ix)
  /\ \A k \in 1 .. Len(ix) : Home[pages[ix[k]]] = s
  /\ \A i \in 1 .. Len(pages) : Home[pages[i]] = s => \E k \in 1 .. Len(ix) : ix[k] = i

PlacesOf(pages, s) ==
  Without([i \in 1 .. Len(pages) |-> i], {i \in 1 .. Len(pages) : Home[pages[i]] /= s})

\* IndexesOf(s) enumerates the places of a shard.
LEMMA PlacesEnumerate ==
  ASSUME NEW pages, IsPage(pages), NEW s
  PROVE  Enumerates(pages, s, PlacesOf(pages, s))
<1>1. PICK n \in Nat : n = Len(pages)
  BY LenProperties DEF IsPage
<1>2. PICK all : all = [i \in 1 .. n |-> i]
  OBVIOUS
<1>3. PICK bad : bad = {i \in 1 .. n : Home[pages[i]] /= s}
  OBVIOUS
<1>4. PICK ix : ix = PlacesOf(pages, s)
  OBVIOUS
<1>5. ix = Without(all, bad)
  BY <1>1, <1>2, <1>3, <1>4 DEF PlacesOf
<1>6. all \in Seq(1 .. n) /\ Len(all) = n
  BY <1>2
<1>7. ix \in Seq(1 .. n) /\ \E m : Filtered(all, bad, n, ix, m)
  BY <1>5, <1>6, WithoutFacts
<1>8. PICK m : Filtered(all, bad, n, ix, m)
  BY <1>7
<1>9. \A k \in 1 .. Len(ix) : ix[k] = m[k] /\ m[k] \in 1 .. n /\ ix[k] \notin bad
  BY <1>2, <1>8 DEF Filtered
<1>10. \A i \in 1 .. n : i \notin bad => \E k \in 1 .. Len(ix) : m[k] = i
  BY <1>2, <1>8 DEF Filtered
<1>11. \A j, k \in 1 .. Len(ix) : j < k => m[j] < m[k]
  BY <1>8 DEF Filtered
<1>12. Enumerates(pages, s, ix)
  BY <1>1, <1>3, <1>7, <1>9, <1>10, <1>11 DEF Enumerates, Rising
<1>13. QED
  BY <1>4, <1>12

\* What is in the places, when the shards below upto have been asked: pages
\* of the shard whose place it is, in the order of the ranking.
AllReadable(pages, bad) == \A i \in 1 .. Len(pages) : pages[i] \notin bad

OfTheShards(pages, got, n) ==
  \A i \in 1 .. n :
    got[i] = Missing
    \/ \E a \in 1 .. n : got[i] = pages[a] /\ Home[pages[a]] = Home[pages[i]]
InTheOrder(pages, got, n) ==
  \A i, k, a, b \in 1 .. n :
    i < k /\ got[i] = pages[a] /\ got[k] = pages[b] /\ Home[pages[a]] = Home[pages[b]] => a < b

Filling(pages, got, bad, upto) ==
  /\ got \in Seq(Docs \cup {Missing}) /\ Len(got) = Len(pages)
  /\ \A i \in 1 .. Len(pages) : upto <= Home[pages[i]] => got[i] = Missing
  /\ OfTheShards(pages, got, Len(pages)) /\ InTheOrder(pages, got, Len(pages))
  /\ AllReadable(pages, bad) => \A i \in 1 .. Len(pages) : got[i] \in {Missing, pages[i]}

\* A page of a shard below upto is in some place, or there is a reason.
Told(pages, got, bad, upto, lost) ==
  \A i \in 1 .. Len(pages) :
    Home[pages[i]] < upto =>
      pages[i] \in bad \/ Home[pages[i]] \in lost \/ \E k \in 1 .. Len(got) : got[k] = pages[i]

Zipped(old, ix, docs) ==
  [i \in 1 .. Len(old) |->
     IF \E k \in 1 .. Len(docs) : ix[k] = i
     THEN docs[CHOOSE k \in 1 .. Len(docs) : ix[k] = i]
     ELSE old[i]]

AllPut(old, ix, docs, n, d) ==
  /\ \A k \in 1 .. d : ix[k] \in 1 .. n /\ Zipped(old, ix, docs)[ix[k]] = docs[k]
  /\ \A i \in 1 .. n :
       (\E k \in 1 .. d : ix[k] = i) \/ Zipped(old, ix, docs)[i] = old[i]

\* Each document goes where ix says, and the other places stay as they are.
LEMMA ZippedFacts ==
  ASSUME NEW n, n \in Nat, NEW old, Len(old) = n, NEW ix, ix \in Seq(1 .. n),
         NEW d, d \in Nat, NEW docs, Len(docs) = d, Rising(ix), d <= Len(ix)
  PROVE  AllPut(old, ix, docs, n, d)
<1>1. PICK l \in Nat : l = Len(ix) /\ d <= l
  BY LenProperties
<1>2. \A k \in 1 .. d : k \in 1 .. l /\ ix[k] \in 1 .. n
  BY <1>1, ElementOfSeq
<1>3. \A j, k \in 1 .. d : ix[j] = ix[k] => j = k
  <2>1. ASSUME NEW j \in 1 .. d, NEW k \in 1 .. d, ix[j] = ix[k], j /= k PROVE FALSE
    <3>1. ix[j] \in Nat /\ ix[k] \in Nat
      BY <1>2
    <3>2. j < k \/ k < j
      BY <2>1
    <3>3. QED
      BY <1>1, <1>2, <2>1, <3>1, <3>2 DEF Rising
  <2>2. QED
    BY <2>1
<1>4. ASSUME NEW k \in 1 .. d PROVE Zipped(old, ix, docs)[ix[k]] = docs[k]
  <2>1. PICK j : j = CHOOSE b \in 1 .. d : ix[b] = ix[k]
    OBVIOUS
  <2>2. j \in 1 .. d /\ ix[j] = ix[k]
    BY <2>1
  <2>3. j = k
    BY <1>3, <2>2
  <2>4. Zipped(old, ix, docs)[ix[k]] = docs[j]
    BY <1>1, <1>2, <2>1 DEF Zipped
  <2>5. QED
    BY <2>3, <2>4
<1>5. \A i \in 1 .. n :
        (\E k \in 1 .. d : ix[k] = i) \/ Zipped(old, ix, docs)[i] = old[i]
  BY <1>1 DEF Zipped
<1>6. QED
  BY <1>2, <1>4, <1>5 DEF AllPut

\* The documents that a shard gives are put into its places.
LEMMA AnswerFills ==
  ASSUME NEW pages, IsPage(pages), NEW bad, NEW s \in Shards, NEW got, Filling(pages, got, bad, s),
         NEW lost, Told(pages, got, bad, s, lost),
         NEW ix, Enumerates(pages, s, ix),
         NEW asked, asked = [k \in 1 .. Len(ix) |-> pages[ix[k]]],
         NEW docs, docs = Without(asked, bad), NEW new, new = Zipped(got, ix, docs)
  PROVE  Filling(pages, new, bad, s + 1) /\ Told(pages, new, bad, s + 1, lost)
<1>1. PICK n \in Nat : n = Len(pages)
  BY LenProperties DEF IsPage
<1>2. ix \in Seq(1 .. n) /\ Rising(ix) /\ s \in Nat
  BY <1>1, DistributedSearchAssumption DEF Enumerates, Shards
<1>3. PICK l \in Nat : l = Len(ix)
  BY <1>2, LenProperties
<1>4. \A k \in 1 .. l : ix[k] \in 1 .. n /\ pages[ix[k]] \in Docs /\ Home[pages[ix[k]]] = s
  BY <1>1, <1>2, <1>3, ElementOfSeq DEF Enumerates, IsPage
<1>5. asked \in Seq(Docs) /\ Len(asked) = l
  BY <1>3, <1>4
<1>6. docs \in Seq(Docs) /\ \E m : Filtered(asked, bad, l, docs, m)
  BY <1>5, WithoutFacts
<1>7. PICK m : Filtered(asked, bad, l, docs, m)
  BY <1>6
<1>8. PICK d \in Nat : d = Len(docs) /\ d <= l
  BY <1>6, <1>7, LenProperties DEF Filtered
<1>9. \A k \in 1 .. d : m[k] \in 1 .. l /\ docs[k] = pages[ix[m[k]]] /\ docs[k] \notin bad
  BY <1>3, <1>7, <1>8 DEF Filtered
<1>10. Len(got) = n
  BY <1>1 DEF Filling
<1>11. /\ \A k \in 1 .. d : ix[k] \in 1 .. n /\ new[ix[k]] = docs[k]
       /\ \A i \in 1 .. n : (\E k \in 1 .. d : ix[k] = i) \/ new[i] = got[i]
  <2>1. AllPut(got, ix, docs, n, d)
    BY <1>2, <1>3, <1>8, <1>10, ZippedFacts
  <2>2. QED
    BY <2>1 DEF AllPut
<1>12. \A k \in 1 .. d : k \in 1 .. l /\ Home[pages[ix[k]]] = s /\ ix[m[k]] \in 1 .. n
                        /\ Home[pages[ix[m[k]]]] = s /\ new[ix[k]] = pages[ix[m[k]]]
  BY <1>4, <1>8, <1>9, <1>11
<1>13. \A i \in 1 .. n : pages[i] \in Docs /\ Home[pages[i]] \in Nat
  <2>1. \A i \in 1 .. n : pages[i] \in Docs
    BY <1>1, ElementOfSeq DEF IsPage
  <2>2. \A x \in Docs : Home[x] \in Nat
    BY DistributedSearchAssumption
  <2>3. QED
    BY <2>1, <2>2
<1>14. \A i, k \in 1 .. n : pages[i] = pages[k] => i = k
  BY <1>1 DEF IsPage
<1>15. \A i \in 1 .. n : Home[pages[i]] = s => got[i] = Missing
  BY <1>1, <1>13 DEF Filling
\* What a place holds afterwards: what it held, or a page of this shard.
<1>16. ASSUME NEW i \in 1 .. n
       PROVE  \/ new[i] = got[i]
              \/ \E k \in 1 .. d : ix[k] = i /\ new[i] = pages[ix[m[k]]] /\ Home[pages[i]] = s
  BY <1>11, <1>12
<1>17. OfTheShards(pages, got, n)
  BY <1>1 DEF Filling
<1>18. OfTheShards(pages, new, n)
  <2>1. ASSUME NEW i \in 1 .. n
        PROVE  new[i] = Missing \/ \E a \in 1 .. n :
                 new[i] = pages[a] /\ Home[pages[a]] = Home[pages[i]]
    <3>1. CASE new[i] = got[i]
      BY <1>17, <3>1 DEF OfTheShards
    <3>2. ASSUME NEW k \in 1 .. d, new[i] = pages[ix[m[k]]], Home[pages[i]] = s
          PROVE  \E a \in 1 .. n : new[i] = pages[a] /\ Home[pages[a]] = Home[pages[i]]
      <4>1. PICK a \in 1 .. n : a = ix[m[k]]
        BY <1>12
      <4>2. QED
        BY <1>12, <3>2, <4>1
    <3>3. QED
      BY <1>16, <3>1, <3>2
  <2>2. QED
    BY <2>1 DEF OfTheShards
<1>19. new \in Seq(Docs \cup {Missing}) /\ Len(new) = n
  <2>1. new = [i \in 1 .. n |-> new[i]]
    BY <1>10 DEF Zipped
  <2>2. \A i \in 1 .. n : new[i] \in Docs \cup {Missing}
    BY <1>13, <1>18 DEF OfTheShards
  <2>3. QED
    BY <2>1, <2>2
<1>20. \A i \in 1 .. n : s + 1 <= Home[pages[i]] => new[i] = Missing
  <2>1. ASSUME NEW i \in 1 .. n, s + 1 <= Home[pages[i]] PROVE new[i] = Missing
    <3>1. Home[pages[i]] /= s /\ s <= Home[pages[i]]
      BY <1>2, <1>13, <2>1
    <3>2. got[i] = Missing
      BY <1>1, <3>1 DEF Filling
    <3>3. QED
      BY <1>16, <3>1, <3>2
  <2>2. QED
    BY <2>1
<1>21. ASSUME NEW i \in 1 .. n, NEW k \in 1 .. n, NEW a \in 1 .. n, NEW b \in 1 .. n, i < k,
              new[i] = pages[a], new[k] = pages[b], Home[pages[a]] = Home[pages[b]]
       PROVE  a < b
  <2>1. Missing \notin Docs
    BY DistributedSearchAssumption
  <2>2. Home[pages[i]] = Home[pages[a]] /\ Home[pages[k]] = Home[pages[b]]
    <3>1. \A z, c \in 1 .. n : new[z] = pages[c] => Home[pages[z]] = Home[pages[c]]
      <4>1. SUFFICES ASSUME NEW z \in 1 .. n, NEW c \in 1 .. n, new[z] = pages[c]
                     PROVE  Home[pages[z]] = Home[pages[c]]
        OBVIOUS
      <4>2. new[z] /= Missing
        BY <1>13, <2>1, <4>1
      <4>3. PICK e \in 1 .. n : new[z] = pages[e] /\ Home[pages[e]] = Home[pages[z]]
        BY <1>18, <4>2 DEF OfTheShards
      <4>4. QED
        BY <4>1, <4>3
    <3>2. QED
      BY <1>21, <3>1
  <2>3. CASE Home[pages[a]] = s
    <3>1. got[i] = Missing /\ got[k] = Missing
      BY <1>15, <1>21, <2>2, <2>3
    <3>2. new[i] /= got[i] /\ new[k] /= got[k]
      BY <1>13, <1>21, <2>1, <3>1
    <3>3. PICK p \in 1 .. d : ix[p] = i /\ new[i] = pages[ix[m[p]]]
      BY <1>16, <3>2
    <3>4. PICK q \in 1 .. d : ix[q] = k /\ new[k] = pages[ix[m[q]]]
      BY <1>16, <3>2
    <3>5. a = ix[m[p]] /\ b = ix[m[q]]
      <4>1. PICK e \in 1 .. n, f \in 1 .. n : e = ix[m[p]] /\ f = ix[m[q]]
        BY <1>12
      <4>2. pages[a] = pages[e] /\ pages[b] = pages[f]
        BY <1>21, <3>3, <3>4, <4>1
      <4>3. QED
        BY <1>14, <4>1, <4>2
    <3>6. p < q
      <4>1. p \in 1 .. l /\ q \in 1 .. l
        BY <1>12
      <4>2. q < p => ix[q] < ix[p]
        BY <1>2, <1>3, <4>1 DEF Rising
      <4>3. ix[p] \in Nat /\ ix[q] \in Nat
        BY <1>4, <4>1
      <4>4. QED
        BY <1>21, <3>3, <3>4, <4>2, <4>3
    <3>7. m[p] < m[q] /\ m[p] \in 1 .. l /\ m[q] \in 1 .. l
      BY <1>7, <1>8, <1>9, <3>6 DEF Filtered
    <3>8. QED
      BY <1>2, <1>3, <3>5, <3>7 DEF Rising
  <2>4. CASE Home[pages[a]] /= s
    <3>1. new[i] = got[i] /\ new[k] = got[k]
      BY <1>16, <1>21, <2>2, <2>4
    <3>2. InTheOrder(pages, got, n)
      BY <1>1 DEF Filling
    <3>3. got[i] = pages[a] /\ got[k] = pages[b]
      BY <1>21, <3>1
    <3>4. QED
      BY <1>21, <3>2, <3>3 DEF InTheOrder
  <2>5. QED
    BY <2>3, <2>4
<1>22. ASSUME AllReadable(pages, bad), NEW i \in 1 .. n PROVE new[i] \in {Missing, pages[i]}
  <2>1. \A k \in 1 .. l : asked[k] \notin bad
    BY <1>1, <1>3, <1>4, <1>22 DEF AllReadable
  <2>2. \A k \in 1 .. d : m[k] = k
    BY <1>7, <1>8, <2>1 DEF Filtered
  <2>3. got[i] \in {Missing, pages[i]}
    BY <1>1, <1>22 DEF Filling
  <2>4. QED
    BY <1>16, <2>2, <2>3
<1>23. Filling(pages, new, bad, s + 1)
  <2>1. InTheOrder(pages, new, n)
    BY <1>21 DEF InTheOrder
  <2>2. QED
    BY <1>1, <1>18, <1>19, <1>20, <1>22, <2>1 DEF Filling
<1>24. ASSUME NEW i \in 1 .. n, Home[pages[i]] < s + 1, pages[i] \notin bad, Home[pages[i]] \notin lost
       PROVE  \E k \in 1 .. n : new[k] = pages[i]
  <2>1. CASE Home[pages[i]] = s
    <3>1. PICK p \in 1 .. l : ix[p] = i
      BY <1>1, <1>3, <2>1 DEF Enumerates
    <3>2. asked[p] = pages[i]
      BY <1>3, <3>1
    <3>3. PICK k \in 1 .. d : m[k] = p
      BY <1>7, <1>8, <1>24, <3>2 DEF Filtered
    <3>4. new[ix[k]] = pages[i] /\ ix[k] \in 1 .. n
      BY <1>11, <1>12, <3>1, <3>3
    <3>5. QED
      BY <3>4
  <2>2. CASE Home[pages[i]] /= s
    <3>1. Home[pages[i]] < s
      BY <1>2, <1>13, <1>24, <2>2
    <3>2. PICK k \in 1 .. n : got[k] = pages[i]
      BY <1>1, <1>10, <1>24, <3>1 DEF Told
    <3>3. Missing \notin Docs
      BY DistributedSearchAssumption
    <3>4. Home[pages[k]] = Home[pages[i]]
      BY <1>13, <1>14, <1>17, <3>2, <3>3, SMTT(30) DEF OfTheShards
    <3>5. new[k] = got[k]
      BY <1>16, <2>2, <3>4
    <3>6. QED
      BY <3>2, <3>5
  <2>3. QED
    BY <2>1, <2>2
<1>25. Told(pages, new, bad, s + 1, lost)
  BY <1>1, <1>19, <1>24 DEF Told
<1>26. QED
  BY <1>23, <1>25

\* A shard that gave nothing leaves its places free, for a reason.
LEMMA NoAnswerFills ==
  ASSUME NEW pages, IsPage(pages), NEW bad, NEW s \in Shards, NEW got, Filling(pages, got, bad, s),
         NEW lost, Told(pages, got, bad, s, lost),
         \A i \in 1 .. Len(pages) : Home[pages[i]] = s => s \in lost
  PROVE  Filling(pages, got, bad, s + 1) /\ Told(pages, got, bad, s + 1, lost)
<1>1. s \in Nat /\ \A i \in 1 .. Len(pages) : Home[pages[i]] \in Nat
  <2>1. \A i \in 1 .. Len(pages) : pages[i] \in Docs
    BY ElementOfSeq DEF IsPage
  <2>2. \A x \in Docs : Home[x] \in Nat
    BY DistributedSearchAssumption
  <2>3. s \in Nat
    BY DistributedSearchAssumption DEF Shards
  <2>4. QED
    BY <2>1, <2>2, <2>3
<1>2. \A i \in 1 .. Len(pages) : s + 1 <= Home[pages[i]] => s <= Home[pages[i]]
  BY <1>1
<1>3. \A i \in 1 .. Len(pages) : Home[pages[i]] < s + 1 => Home[pages[i]] < s \/ Home[pages[i]] = s
  BY <1>1
<1>4. QED
  BY <1>2, <1>3 DEF Filling, Told

----------------------------------------------------------------------------
\* The page that is cut out of the ranking.
AsFull(pages, from, skip) ==
  /\ Len(pages) <= PerPage /\ Holding(pages) \subseteq from
  /\ Len(pages) < PerPage => Cardinality(from) <= Len(pages) + skip
  /\ Cardinality(from) >= Len(pages) + skip \/ pages = <<>>

\* skip and take: what is cut out of a ranking of all that was found.
LEMMA PageOfRanking ==
  ASSUME NEW from, from \subseteq Docs, NEW skip \in Nat, NEW kept, kept \subseteq from,
         NEW size, size = (IF Cardinality(from) < PerPage + skip THEN Cardinality(from)
                           ELSE PerPage + skip),
         NEW ranking \in [1 .. size -> kept],
         \A i, k \in 1 .. size : i < k => ranking[i] /= ranking[k],
         NEW pages, pages = SubSeq(ranking, skip + 1, size)
  PROVE  IsPage(pages) /\ AsFull(pages, from, skip)
<1>1. PerPage \in Nat \ {0} /\ IsFiniteSet(from)
  BY DistributedSearchAssumption, FS_Subset
<1>2. PICK c \in Nat : c = Cardinality(from)
  BY <1>1, FS_CardinalityType
<1>3. size \in Nat /\ size = IF c < PerPage + skip THEN c ELSE PerPage + skip
  BY <1>1, <1>2
<1>4. PICK n \in Nat : n = IF skip + 1 <= size THEN size - skip ELSE 0
  BY <1>3
<1>5. ranking \in Seq(kept) /\ Len(ranking) = size
  BY <1>3
<1>6. /\ pages \in Seq(kept) /\ Len(pages) = n
      /\ \A i \in 1 .. n : pages[i] = ranking[skip + i]
  <2>1. \A i \in skip + 1 .. size : ranking[i] \in kept
    BY <1>3, SMTT(30)
  <2>2. /\ pages \in Seq(kept)
        /\ Len(pages) = IF skip + 1 <= size THEN size - (skip + 1) + 1 ELSE 0
        /\ \A i \in 1 .. size - (skip + 1) + 1 : pages[i] = ranking[(skip + 1) + i - 1]
    BY <1>3, <1>5, <2>1, SubSeqProperties
  <2>3. Len(pages) = n
    BY <1>3, <1>4, <2>2, SMTT(30)
  <2>4. ASSUME NEW i \in 1 .. n PROVE pages[i] = ranking[skip + i]
    <3>1. i \in 1 .. size - (skip + 1) + 1 /\ (skip + 1) + i - 1 = skip + i
      BY <1>3, <1>4, SMTT(30)
    <3>2. QED
      BY <2>2, <3>1
  <2>5. QED
    BY <2>2, <2>3, <2>4
<1>7. \A i \in 1 .. n : skip + i \in 1 .. size
  BY <1>3, <1>4
<1>8. IsPage(pages)
  <2>1. pages \in Seq(Docs)
    BY <1>6
  <2>2. ASSUME NEW i \in 1 .. n, NEW k \in 1 .. n, pages[i] = pages[k], i /= k PROVE FALSE
    <3>1. ranking[skip + i] = ranking[skip + k]
      BY <1>6, <2>2
    <3>2. skip + i < skip + k \/ skip + k < skip + i
      BY <2>2
    <3>3. QED
      BY <1>7, <3>1, <3>2
  <2>3. QED
    BY <1>6, <2>1, <2>2, SMTT(30) DEF IsPage
<1>9. AsFull(pages, from, skip)
  <2>1. Holding(pages) \subseteq from
    BY <1>6, ElementOfSeq DEF Holding
  <2>2. n <= PerPage /\ (n < PerPage => c <= n + skip) /\ (c >= n + skip \/ n = 0)
    BY <1>1, <1>3, <1>4
  <2>3. n = 0 => pages = <<>>
    BY <1>6
  <2>4. QED
    BY <1>2, <1>6, <2>1, <2>2, <2>3 DEF AsFull
<1>10. QED
  BY <1>8, <1>9

\* A shard finds its own documents only.
LEMMA FoundAtHome ==
  /\ Found \subseteq Docs
  /\ \A x \in Found : Home[x] \in Answering
  BY DEF Found, LocalPage

\* Combine gives such a page of what the shards found.
LEMMA CombinedPage ==
  ASSUME Combine, query.skip \in Nat
  PROVE  IsPage(ranked') /\ AsFull(ranked', Found, query.skip)
<1>1. PICK ranking \in Rankings :
        ranked' = SubSeq(ranking, query.skip + 1,
                         IF Len(ranking) < TopN THEN Len(ranking) ELSE TopN)
  BY DEF Combine
<1>2. PICK size : size = IF Cardinality(Found) < PerPage + query.skip
                         THEN Cardinality(Found) ELSE PerPage + query.skip
  OBVIOUS
<1>3. PICK kept \in SUBSET Found :
        ranking \in [1 .. size -> kept] /\ IsGreedyRanking(Doc, ranking, kept, TopN)
  BY <1>1, <1>2 DEF Rankings, TopN
<1>4. size \in Nat /\ size <= PerPage + query.skip /\ PerPage + query.skip \in Nat
  <2>1. PerPage \in Nat /\ IsFiniteSet(Found)
    BY DistributedSearchAssumption, FoundAtHome, FS_Subset
  <2>2. Cardinality(Found) \in Nat
    BY <2>1, FS_CardinalityType
  <2>3. QED
    BY <1>2, <2>1, <2>2
<1>5. Len(ranking) = size
  BY <1>3, <1>4
<1>6. \A i, k \in 1 .. size : i < k => ranking[i] /= ranking[k]
  <2>1. ASSUME NEW i \in 1 .. size, NEW k \in 1 .. size, i < k PROVE ranking[i] /= ranking[k]
    <3>1. ranking[k] \notin {ranking[j] : j \in 1 .. k - 1}
      BY <1>3, <1>5 DEF IsGreedyRanking
    <3>2. i \in 1 .. k - 1
      BY <1>4, <2>1
    <3>3. QED
      BY <3>1, <3>2
  <2>2. QED
    BY <2>1
<1>7. ranked' = SubSeq(ranking, query.skip + 1, size)
  <2>1. TopN = PerPage + query.skip
    BY DEF TopN
  <2>2. (IF Len(ranking) < TopN THEN Len(ranking) ELSE TopN) = size
    <3>1. size \in Nat /\ TopN \in Nat /\ size <= TopN
      BY <1>4, <2>1
    <3>2. (IF size < TopN THEN size ELSE TopN) = size
      BY <3>1
    <3>3. QED
      BY <1>5, <3>2
  <2>3. QED
    BY <1>1, <2>2
<1>8. QED
  BY <1>2, <1>3, <1>6, <1>7, FoundAtHome, PageOfRanking

\* Nothing is filled in yet.
LEMMA NothingFilled ==
  ASSUME NEW pages, IsPage(pages), NEW bad, NEW lost,
         NEW got, got = [i \in 1 .. Len(pages) |-> Missing]
  PROVE  Filling(pages, got, bad, 1) /\ Told(pages, got, bad, 1, lost)
<1>1. PICK n \in Nat : n = Len(pages)
  BY LenProperties DEF IsPage
<1>2. \A i \in 1 .. n : pages[i] \in Docs /\ Home[pages[i]] \in 1 .. NShards
  <2>1. \A i \in 1 .. n : pages[i] \in Docs
    BY <1>1, ElementOfSeq DEF IsPage
  <2>2. \A x \in Docs : Home[x] \in 1 .. NShards
    BY DistributedSearchAssumption
  <2>3. QED
    BY <2>1, <2>2
<1>3. got \in Seq(Docs \cup {Missing}) /\ Len(got) = n /\ \A i \in 1 .. n : got[i] = Missing
  BY <1>1
<1>4. Missing \notin Docs /\ NShards \in Nat
  BY DistributedSearchAssumption
<1>5. OfTheShards(pages, got, n) /\ InTheOrder(pages, got, n)
  BY <1>2, <1>3, <1>4 DEF OfTheShards, InTheOrder
<1>6. Filling(pages, got, bad, 1)
  BY <1>1, <1>3, <1>5 DEF Filling
<1>7. Told(pages, got, bad, 1, lost)
  BY <1>1, <1>2, <1>4 DEF Told
<1>8. QED
  BY <1>6, <1>7

----------------------------------------------------------------------------
\* The order of what is returned.
RankOf(pages, x) == CHOOSE i \in 1 .. Len(pages) : pages[i] = x

ShownInOrder(pages, docs, bad) ==
  /\ \A i, k \in 1 .. Len(docs) : i < k =>
       /\ docs[i] /= docs[k]
       /\ Home[docs[i]] = Home[docs[k]] => RankOf(pages, docs[i]) < RankOf(pages, docs[k])
  /\ Holding(pages) \cap bad = {} =>
       \A i, k \in 1 .. Len(docs) : i < k => RankOf(pages, docs[i]) < RankOf(pages, docs[k])

\* Showing nothing breaks no order.
LEMMA NothingShown ==
  ASSUME NEW pages, NEW bad
  PROVE  ShownInOrder(pages, <<>>, bad)
  BY DEF ShownInOrder

Shows(pages, docs, bad, lost) ==
  /\ docs \in Seq(Docs) /\ ShownInOrder(pages, docs, bad)
  /\ Holding(docs) \subseteq Holding(pages)
  /\ \A i \in 1 .. Len(pages) :
       pages[i] \in Holding(docs) \cup bad \/ Home[pages[i]] \in lost

\* When all shards were asked, what is left keeps the order and tells its losses.
LEMMA WhatIsLeft ==
  ASSUME NEW pages, IsPage(pages), NEW bad, NEW lost, NEW got, NEW upto, upto \in Nat,
         NShards < upto, Filling(pages, got, bad, upto), Told(pages, got, bad, upto, lost),
         NEW docs, docs = Without(got, {Missing})
  PROVE  Shows(pages, docs, bad, lost)
<1>1. PICK n \in Nat : n = Len(pages)
  BY LenProperties DEF IsPage
<1>2. \A i \in 1 .. n : pages[i] \in Docs /\ Home[pages[i]] \in 1 .. NShards
  <2>1. \A i \in 1 .. n : pages[i] \in Docs
    BY <1>1, ElementOfSeq DEF IsPage
  <2>2. \A x \in Docs : Home[x] \in 1 .. NShards
    BY DistributedSearchAssumption
  <2>3. QED
    BY <2>1, <2>2
<1>3. \A i, k \in 1 .. n : pages[i] = pages[k] => i = k
  BY <1>1 DEF IsPage
<1>4. got \in Seq(Docs \cup {Missing}) /\ Len(got) = n
  BY <1>1 DEF Filling
<1>5. docs \in Seq(Docs \cup {Missing}) /\ \E m : Filtered(got, {Missing}, n, docs, m)
  BY <1>4, WithoutFacts
<1>6. PICK m : Filtered(got, {Missing}, n, docs, m)
  BY <1>5
<1>7. PICK l \in Nat : l = Len(docs)
  BY <1>5, LenProperties
<1>8. /\ \A k \in 1 .. l : m[k] \in 1 .. n /\ docs[k] = got[m[k]] /\ docs[k] /= Missing
      /\ \A j, k \in 1 .. l : j < k => m[j] < m[k]
  BY <1>6, <1>7 DEF Filtered
<1>9. \A k \in 1 .. l : \E a \in 1 .. n : docs[k] = pages[a] /\ RankOf(pages, docs[k]) = a
  <2>1. ASSUME NEW k \in 1 .. l
        PROVE  \E a \in 1 .. n : docs[k] = pages[a] /\ RankOf(pages, docs[k]) = a
    <3>1. PICK a \in 1 .. n : docs[k] = pages[a]
      <4>1. PICK p \in 1 .. n : docs[k] = got[p] /\ got[p] /= Missing
        BY <1>8
      <4>2. OfTheShards(pages, got, n)
        BY <1>1 DEF Filling
      <4>3. QED
        BY <4>1, <4>2 DEF OfTheShards
    <3>2. RankOf(pages, docs[k]) = a
      BY <1>1, <1>3, <3>1 DEF RankOf
    <3>3. QED
      BY <3>1, <3>2
  <2>2. QED
    BY <2>1
<1>10. docs \in Seq(Docs) /\ Holding(docs) \subseteq Holding(pages)
  <2>1. \A k \in 1 .. l : docs[k] \in Docs /\ docs[k] \in Holding(pages)
    BY <1>1, <1>2, <1>9 DEF Holding
  <2>2. docs \in [1 .. l -> Docs \cup {Missing}]
    BY <1>5, <1>7, LenProperties
  <2>3. docs \in [1 .. l -> Docs]
    BY <2>1, <2>2
  <2>4. docs \in Seq(Docs)
    BY <2>3, SeqDef
  <2>5. \A x \in Holding(docs) : x \in Holding(pages)
    BY <1>7, <2>1 DEF Holding
  <2>6. QED
    BY <2>4, <2>5
<1>11. ASSUME NEW i \in 1 .. l, NEW k \in 1 .. l, i < k
       PROVE  /\ Home[docs[i]] = Home[docs[k]] => RankOf(pages, docs[i]) < RankOf(pages, docs[k])
              /\ docs[i] /= docs[k]
              /\ AllReadable(pages, bad) => RankOf(pages, docs[i]) < RankOf(pages, docs[k])
  <2>1. PICK a \in 1 .. n : docs[i] = pages[a] /\ RankOf(pages, docs[i]) = a
    BY <1>9
  <2>2. PICK b \in 1 .. n : docs[k] = pages[b] /\ RankOf(pages, docs[k]) = b
    BY <1>9
  <2>3. PICK p \in 1 .. n, q \in 1 .. n : p = m[i] /\ q = m[k]
    BY <1>8
  <2>4. p < q /\ got[p] = pages[a] /\ got[q] = pages[b]
    BY <1>8, <1>11, <2>1, <2>2, <2>3
  <2>5. Home[pages[a]] = Home[pages[b]] => a < b
    BY <1>1, <2>4 DEF Filling, InTheOrder
  <2>6. docs[i] /= docs[k]
    BY <2>1, <2>2, <2>5, <1>3
  <2>7. AllReadable(pages, bad) => a = p /\ b = q
    <3>1. ASSUME AllReadable(pages, bad) PROVE a = p /\ b = q
      <4>1. got[p] \in {Missing, pages[p]} /\ got[q] \in {Missing, pages[q]}
        BY <1>1, <3>1 DEF Filling
      <4>2. Missing \notin Docs
        BY DistributedSearchAssumption
      <4>3. QED
        BY <1>2, <1>3, <2>4, <4>1, <4>2
    <3>2. QED
      BY <3>1
  <2>8. QED
    BY <2>1, <2>2, <2>4, <2>5, <2>6, <2>7
<1>12. ShownInOrder(pages, docs, bad)
  <2>1. Holding(pages) \cap bad = {} => AllReadable(pages, bad)
    BY DEF Holding, AllReadable
  <2>2. QED
    BY <1>7, <1>11, <2>1, ZenonT(40) DEF ShownInOrder
<1>13. ASSUME NEW i \in 1 .. n, pages[i] \notin bad, Home[pages[i]] \notin lost
       PROVE  pages[i] \in Holding(docs)
  <2>1. Home[pages[i]] < upto
    <3>1. NShards \in Nat
      BY DistributedSearchAssumption
    <3>2. QED
      BY <1>2, <3>1
  <2>2. PICK k \in 1 .. n : got[k] = pages[i]
    BY <1>1, <1>4, <1>13, <2>1 DEF Told
  <2>3. got[k] \notin {Missing}
    BY <1>2, <2>2, DistributedSearchAssumption
  <2>4. PICK j \in 1 .. l : m[j] = k
    BY <1>6, <1>7, <2>3 DEF Filtered
  <2>5. docs[j] = pages[i]
    BY <1>8, <2>2, <2>4
  <2>6. QED
    BY <1>7, <2>5 DEF Holding
<1>14. QED
  BY <1>1, <1>10, <1>12, <1>13 DEF Shows

----------------------------------------------------------------------------
\* The shards of which a replica gave up.
Lost == {s \in Shards : \E r \in ReplicasOf(s) : GaveUp(r)}

ResultInOrder == ShownInOrder(ranked, result.docs, unreadable)

Retrieving ==
  /\ result = NoResult
  /\ IsPage(ranked) /\ AsFull(ranked, Found, query.skip)
  /\ at \in Nat
  /\ Filling(ranked, retrieved, unreadable, at)
  /\ Told(ranked, retrieved, unreadable, at, Lost)

DInv ==
  /\ phase \in {"start", "search", "retrieve", "done"}
  /\ query.skip \in Nat
  /\ \A s \in Answering : ReplicasOf(s) /= {}
  /\ initial \in Seq([shard : Shards, bang : BOOLEAN])
  /\ failures \in [Replicas -> Nat]
  /\ phase \in {"start", "search"} => result = NoResult
  /\ phase = "retrieve" => Retrieving
  /\ phase = "done" => LossesAreTold /\ ResultInOrder

\* The invariant holds at first.
LEMMA DInit == Init => DInv
<1> SUFFICES ASSUME Init PROVE DInv
  OBVIOUS
<1>1. query.skip \in Nat
  BY DistributedSearchAssumption DEF Init
<1>2. initial = <<>> /\ phase = "start" /\ result = NoResult
  BY DEF Init
<1>3. Answering = {} /\ initial \in Seq([shard : Shards, bang : BOOLEAN])
  BY <1>2 DEF Answering
<1>4. failures \in [Replicas -> Nat]
  BY DEF Init
<1>5. QED
  BY <1>1, <1>2, <1>3, <1>4 DEF DInv

\* Nothing that the invariant speaks of changes.
LEMMA SameSearch ==
  ASSUME DInv, UNCHANGED <<given, phase, failures, initial, ranked, at, retrieved, result>>
  PROVE  DInv'
<1>1. Answering' = Answering /\ Lost' = Lost /\ Found' = Found
  BY DEF Answering, Lost, GaveUp, given, Found, LocalPage, ReplicasOf
<1>2. Retrieving' = Retrieving
  BY <1>1 DEF Retrieving, given
<1>3. LossesAreTold' = LossesAreTold /\ ResultInOrder' = ResultInOrder
  BY DEF LossesAreTold, ResultInOrder, GaveUp, given
<1>4. QED
  BY <1>1, <1>2, <1>3 DEF DInv, given

\* A searcher fails once more: no shard is lost less.
LEMMA DFails ==
  ASSUME DInv, NEW r \in Replicas, AttemptFails(r)
  PROVE  DInv'
<1>1. /\ phase \in {"search", "retrieve"} /\ failures[r] < Attempts
      /\ failures' = [failures EXCEPT ![r] = @ + 1]
      /\ UNCHANGED <<query, unreadable, phase, initial, ranked, at, retrieved, result>>
  BY DEF AttemptFails, Asking, Awaited, given
<1>2. failures' \in [Replicas -> Nat]
  BY <1>1 DEF DInv
<1>3. Answering' = Answering /\ Found' = Found
  BY <1>1 DEF Answering, Found, LocalPage
<1>4. Lost \subseteq Lost'
  <2>1. ASSUME NEW q \in Replicas, GaveUp(q) PROVE failures'[q] = Attempts
    <3>1. Attempts \in Nat
      BY DistributedSearchAssumption
    <3>2. q /= r
      BY <1>1, <2>1, <3>1 DEF GaveUp
    <3>3. QED
      BY <1>1, <2>1, <3>2 DEF GaveUp, DInv
  <2>2. QED
    BY <2>1 DEF Lost, GaveUp, ReplicasOf
<1>5. ASSUME phase = "retrieve" PROVE Retrieving'
  <2>1. Retrieving
    BY <1>5 DEF DInv
  <2>2. Told(ranked, retrieved, unreadable, at, Lost')
    BY <1>4, <2>1 DEF Retrieving, Told
  <2>3. QED
    BY <1>1, <1>3, <2>1, <2>2 DEF Retrieving
<1>6. QED
  BY <1>1, <1>2, <1>3, <1>5 DEF DInv

\* A shard that answers has a replica.
LEMMA DSearched ==
  ASSUME DInv, NEW s \in Shards, ShardSearched(s)
  PROVE  DInv'
<1>1. /\ phase = "search" /\ UNCHANGED <<query, phase, failures, result>>
  BY DEF ShardSearched, given, calls
<1>2. initial' = initial \/ \E e \in [shard : {s}, bang : BOOLEAN] :
        initial' = Append(initial, e) /\ ReplicasOf(s) /= {}
  BY DEF ShardSearched
<1>3. initial' \in Seq([shard : Shards, bang : BOOLEAN]) /\ \A x \in Answering' : ReplicasOf(x) /= {}
  <2>1. CASE initial' = initial
    BY <2>1 DEF DInv, Answering
  <2>2. ASSUME NEW e \in [shard : {s}, bang : BOOLEAN], initial' = Append(initial, e),
               ReplicasOf(s) /= {}
        PROVE  initial' \in Seq([shard : Shards, bang : BOOLEAN])
               /\ \A x \in Answering' : ReplicasOf(x) /= {}
    <3>1. PICK old, new : old = initial /\ new = initial'
      OBVIOUS
    <3>2. e \in [shard : Shards, bang : BOOLEAN] /\ e.shard = s
      OBVIOUS
    <3>3. old \in Seq([shard : Shards, bang : BOOLEAN]) /\ new = Append(old, e)
      BY <2>2, <3>1 DEF DInv
    <3>4. /\ new \in Seq([shard : Shards, bang : BOOLEAN])
          /\ Len(old) \in Nat /\ Len(new) = Len(old) + 1 /\ new[Len(old) + 1] = e
          /\ \A i \in 1 .. Len(old) : new[i] = old[i]
      BY <3>2, <3>3, AppendProperties, LenProperties
    <3>5. \A i \in 1 .. Len(new) : i \in 1 .. Len(old) \/ i = Len(old) + 1
      BY <3>4
    <3>6. \A i \in 1 .. Len(new) : new[i].shard = s \/ new[i].shard \in Answering
      BY <3>1, <3>2, <3>4, <3>5 DEF Answering
    <3>7. \A x \in Answering' : x = s \/ x \in Answering
      BY <3>1, <3>6 DEF Answering
    <3>8. QED
      BY <2>2, <3>1, <3>4, <3>7 DEF DInv
  <2>3. QED
    BY <1>2, <2>1, <2>2
<1>4. \A x : ReplicasOf(x)' = ReplicasOf(x)
  BY DEF ReplicasOf
<1>5. QED
  BY <1>1, <1>3 DEF DInv, ReplicasOf

\* The pages are ranked, and nothing is filled in.
LEMMA DCombine ==
  ASSUME DInv, Combine
  PROVE  DInv'
<1>1. /\ phase = "search" /\ phase' = "retrieve" /\ at' = 1 /\ UNCHANGED <<query, unreadable, initial, result>>
      /\ retrieved' = [i \in 1 .. Len(ranked') |-> Missing]
      /\ failures' = [q \in Replicas |-> 0]
  BY DEF Combine, Searched, Fresh, given
<1>2. IsPage(ranked') /\ AsFull(ranked', Found, query.skip)
  BY CombinedPage DEF DInv
<1>3. Answering' = Answering /\ Found' = Found
  BY <1>1 DEF Answering, Found, LocalPage
<1>4. PICK pages, got, lost : pages = ranked' /\ got = retrieved' /\ lost = Lost'
  OBVIOUS
<1>5. Filling(pages, got, unreadable, 1) /\ Told(pages, got, unreadable, 1, lost)
  BY <1>1, <1>2, <1>4, NothingFilled
<1>6. Retrieving'
  BY <1>1, <1>2, <1>3, <1>4, <1>5 DEF Retrieving, DInv
<1>7. QED
  BY <1>1, <1>3, <1>6 DEF DInv, ReplicasOf

\* A shard fills its places, or is lost.
LEMMA DRetrieve ==
  ASSUME DInv, NEW s \in Shards, RetrieveFrom(s)
  PROVE  DInv'
<1>1. /\ phase = "retrieve" /\ at = s /\ at' = s + 1
      /\ UNCHANGED <<query, unreadable, phase, failures, initial, ranked, result>>
  BY DEF RetrieveFrom, given, calls
<1>2. Retrieving
  BY <1>1 DEF DInv
<1>3. Answering' = Answering /\ Found' = Found /\ Lost' = Lost
  BY <1>1 DEF Answering, Found, LocalPage, Lost, GaveUp, ReplicasOf
<1>4. PICK pages, got, bad, lost : pages = ranked /\ got = retrieved /\ bad = unreadable /\ lost = Lost
  OBVIOUS
<1>5. IsPage(pages) /\ Filling(pages, got, bad, s) /\ Told(pages, got, bad, s, lost)
  BY <1>1, <1>2, <1>4 DEF Retrieving
<1>6. PICK new : new = retrieved'
  OBVIOUS
<1>7. Filling(pages, new, bad, s + 1) /\ Told(pages, new, bad, s + 1, lost)
  <2>1. CASE ReplicasOf(s) = {} /\ retrieved' = retrieved
    <3>1. ASSUME NEW i \in 1 .. Len(pages), Home[pages[i]] = s PROVE FALSE
      <4>1. pages[i] \in Holding(ranked)
        BY <1>4 DEF Holding
      <4>2. pages[i] \in Found
        BY <1>2, <4>1 DEF Retrieving, AsFull
      <4>3. s \in Answering
        BY <3>1, <4>2, FoundAtHome
      <4>4. QED
        BY <2>1, <4>3 DEF DInv
    <3>2. QED
      BY <1>4, <1>5, <1>6, <2>1, <3>1, NoAnswerFills
  <2>2. ASSUME NEW r \in ReplicasOf(s), Finished(r), r \notin answered, retrieved' = retrieved
        PROVE  Filling(pages, new, bad, s + 1) /\ Told(pages, new, bad, s + 1, lost)
    <3>1. s \in lost
      BY <1>4, <2>2 DEF Lost, Finished
    <3>2. QED
      BY <1>4, <1>5, <1>6, <2>2, <3>1, NoAnswerFills
  <2>3. ASSUME retrieved' = LET indexes == IndexesOf(s)
                                pointers == [k \in 1 .. Len(indexes) |-> ranked[indexes[k]]]
                            IN  Zip(indexes, Without(pointers, unreadable))
        PROVE  Filling(pages, new, bad, s + 1) /\ Told(pages, new, bad, s + 1, lost)
    <3>1. PICK ix : ix = PlacesOf(pages, s)
      OBVIOUS
    <3>2. IndexesOf(s) = ix
      BY <1>4, <3>1 DEF IndexesOf, PlacesOf
    <3>3. PICK asked : asked = [k \in 1 .. Len(ix) |-> pages[ix[k]]]
      OBVIOUS
    <3>4. PICK docs : docs = Without(asked, bad)
      OBVIOUS
    <3>5. retrieved' = Zip(ix, docs)
      BY <1>4, <2>3, <3>2, <3>3, <3>4
    <3>6. new = Zipped(got, ix, docs)
      BY <1>4, <1>6, <3>5 DEF Zip, Zipped
    <3>7. Enumerates(pages, s, ix)
      BY <1>5, <3>1, PlacesEnumerate
    <3>8. QED
      BY <1>5, <3>3, <3>4, <3>6, <3>7, AnswerFills
  <2>4. QED
    BY <1>1, <2>1, <2>2, <2>3 DEF RetrieveFrom
<1>8. s + 1 \in Nat
  BY <1>1, <1>2 DEF Retrieving
<1>9. Retrieving'
  BY <1>1, <1>2, <1>3, <1>4, <1>6, <1>7, <1>8 DEF Retrieving
<1>10. QED
  BY <1>1, <1>3, <1>9 DEF DInv, ReplicasOf

\* What was retrieved is returned.
LEMMA DFinish ==
  ASSUME DInv, Finish
  PROVE  DInv'
<1>1. /\ phase = "retrieve" /\ phase' = "done" /\ at > NShards
      /\ UNCHANGED <<query, unreadable, failures, initial, ranked, retrieved>>
  BY DEF Finish, given, calls
<1>2. Retrieving
  BY <1>1 DEF DInv
<1>3. PICK pages, got, bad, lost : pages = ranked /\ got = retrieved /\ bad = unreadable /\ lost = Lost
  OBVIOUS
<1>4. PICK docs : docs = Documents
  OBVIOUS
<1>5. PICK upto \in Nat : upto = at
  BY <1>2 DEF Retrieving
<1>6. NShards < upto
  BY <1>1, <1>5, DistributedSearchAssumption
<1>7. IsPage(pages) /\ Filling(pages, got, bad, upto) /\ Told(pages, got, bad, upto, lost)
  BY <1>2, <1>3, <1>5 DEF Retrieving
<1>8. docs = Without(got, {Missing})
  BY <1>3, <1>4 DEF Documents
<1>9. Shows(pages, docs, bad, lost)
  BY <1>6, <1>7, <1>8, WhatIsLeft
<1>10. result'.docs = docs /\ (result'.kind = "Websites" /\ docs = <<>> => pages = <<>>)
  <2>1. CASE docs = <<>> /\ pages /= <<>>
    BY <1>3, <1>4, <2>1 DEF Finish, NoResult
  <2>2. CASE ~(docs = <<>> /\ pages /= <<>>)
    BY <1>3, <1>4, <2>2 DEF Finish
  <2>3. QED
    BY <2>1, <2>2
<1>11. LossesAreTold'
  <2>1. ASSUME NEW i \in 1 .. Len(pages)
        PROVE  pages[i] \in Holding(docs) \cup bad
               \/ \E r \in ReplicasOf(Home[pages[i]]) : failures[r] = Attempts
    BY <1>3, <1>9 DEF Lost, GaveUp, Shows
  <2>2. QED
    BY <1>1, <1>3, <1>9, <1>10, <2>1 DEF LossesAreTold, GaveUp, ReplicasOf, Shows
<1>12. ResultInOrder'
  BY <1>1, <1>3, <1>9, <1>10 DEF ResultInOrder, Shows
<1>13. Answering' = Answering
  BY <1>1 DEF Answering
<1>14. QED
  BY <1>1, <1>11, <1>12, <1>13 DEF DInv, ReplicasOf

\* A search that is answered without ranking.
LEMMA DAnswered ==
  ASSUME DInv, Start \/ ReturnBang
  PROVE  DInv'
<1>1. /\ UNCHANGED <<query, unreadable, failures, initial, ranked>> /\ phase \in {"start", "search"}
      /\ \/ phase' = "search" /\ result' = result
         \/ /\ phase' = "done" /\ result'.docs = <<>>
            /\ result'.kind \in {"EmptyQuery", "Bang"}
  BY DEF Start, ReturnBang, Searched, NoResult, given, calls
<1>2. Answering' = Answering
  BY <1>1 DEF Answering
<1>3. phase' = "done" => LossesAreTold'
  BY <1>1 DEF LossesAreTold
<1>4. phase' = "done" => ResultInOrder'
  BY <1>1, NothingShown DEF ResultInOrder
<1>5. QED
  BY <1>1, <1>2, <1>3, <1>4 DEF DInv, ReplicasOf

\* Every step preserves it.
LEMMA DStep == DInv /\ [Next]_vars => DInv'
<1> SUFFICES ASSUME DInv, [Next]_vars PROVE DInv'
  OBVIOUS
<1>1. ASSUME NEW r \in Replicas, AttemptAnswers(r) PROVE DInv'
  BY <1>1, SameSearch DEF AttemptAnswers
<1>2. CASE UNCHANGED vars
  BY <1>2, SameSearch DEF vars, calls
<1>3. QED
  BY <1>1, <1>2, DFails, DSearched, DCombine, DRetrieve, DFinish, DAnswered
  DEF Next, SearcherStep, RemoteStep

\* A page is missing only where it could not be read or a replica of its shard
\* failed all attempts, and a search that lost all pages it ranked is an error.
THEOREM LostPagesAreTold == Spec => []LossesAreTold
<1>1. DInv => LossesAreTold
  BY DEF DInv, LossesAreTold
<1>2. QED
  BY <1>1, DInit, DStep, PTL DEF Spec

\* Whatever shards answer and leave out, the pages shown keep the order of the
\* ranking within each shard, and among all of them if nothing is left out.
THEOREM PagesKeepTheOrder == Spec => []KeepsTheOrder
<1>1. DInv => KeepsTheOrder
  <2> SUFFICES ASSUME DInv PROVE KeepsTheOrder
    OBVIOUS
  <2>1. ShownInOrder(ranked, result.docs, unreadable)
    <3>1. CASE phase = "done"
      BY <3>1 DEF DInv, ResultInOrder
    <3>2. CASE phase /= "done"
      <4>1. result.docs = <<>>
        BY <3>2 DEF DInv, Retrieving, NoResult
      <4>2. QED
        BY <4>1, NothingShown
    <3>3. QED
      BY <3>1, <3>2
  <2>2. phase = "retrieve" => AsFull(ranked, Found, query.skip)
    BY DEF DInv, Retrieving
  <2>3. QED
    BY <2>1, <2>2 DEF KeepsTheOrder, ShownInOrder, RankOf, AsFull
<1>2. QED
  BY <1>1, DInit, DStep, PTL DEF Spec
=============================================================================
