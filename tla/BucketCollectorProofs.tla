------------------------ MODULE BucketCollectorProofs ----------------------
(***************************************************************************)
(* What is proved of the collectors, for any documents, segments, scores   *)
(* and requests.                                                           *)
(*                                                                         *)
(* While segments collect and fruits are merged, a heap holds the          *)
(* top_n + 1 best of what went through it: the best of the best of parts   *)
(* are the best of the whole.  While the ranking is taken from the heap,   *)
(* the divisors in it are stale but never too large, as counts only grow;  *)
(* so the document at which update_best_doc stops exceeds, with its own    *)
(* divisor up to date, whatever the others would be adjusted to.           *)
(*                                                                         *)
(* CountsAfter is a recursive function over the documents shown.  What is  *)
(* said of all its values is shown by induction, of which the theorem      *)
(* modules state the form needed: a nonempty set of numbers has a least.   *)
(***************************************************************************)
EXTENDS BucketCollector, FiniteSetTheorems, SequenceTheorems, TLAPS

Held(seq) == {seq[i] : i \in 1 .. Len(seq)}
Unrepeated(seq) == \A i, k \in 1 .. Len(seq) : seq[i] = seq[k] => i = k

\* A heap of the best documents, none of them adjusted to anything yet.
Fresh(doc1, h) == \A i \in DOMAIN h : h[i] = AdjustScore(NoCounts, doc1[i])
BestHeap(doc1, n, h, from) == Fresh(doc1, h) /\ AreTheBest(doc1, DOMAIN h, from, n + 1)

\* A segment has collected the documents before those that wait, as far as
\* they are considered, and the best of them are in its heap.
ConsideredOf(s) == Considered \cap DocsOf(s)
Smaller(a, b) == IF a < b THEN a ELSE b
Collecting(s) ==
  /\ waiting[s] \subseteq DocsOf(s)
  /\ \A i \in DocsOf(s) \ waiting[s], k \in waiting[s] : i < k
  /\ taken[s] = Smaller(Cardinality(DocsOf(s) \ waiting[s]), top.max)
  /\ BestHeap(doc, TopN, segment[s], ConsideredOf(s) \ waiting[s])

IsFruit(doc1, n, from, ids) ==
  ids \in Seq(from) /\ Unrepeated(ids) /\ AreTheBest(doc1, Held(ids), from, n)

SegmentInv ==
  phase = "segments" =>
    /\ DOMAIN waiting = Segments /\ DOMAIN taken = Segments /\ DOMAIN segment = Segments
    /\ \A s \in Segments : Collecting(s)
    /\ fruit \in Seq(Seq(Docs))
    /\ \A s \in 1 .. Len(fruit) : s \in Segments /\ IsFruit(doc, TopN, ConsideredOf(s), fruit[s])
    /\ heap = EmptyHeap /\ best = {} /\ count = NoCounts /\ res = <<>>

\* What the segments handed over.
IsHanded(doc1, n, from, handed) ==
  /\ handed \subseteq from
  /\ \A s \in Segments : AreTheBest(doc1, handed \cap DocsOf(s), from \cap DocsOf(s), n)

\* While fruits are merged, the best of what is no longer in one are in the heap.
LeftIn(fruit1) == UNION {Held(fruit1[a]) : a \in 1 .. Len(fruit1)}
NoneTwice(fruit1) ==
  \A a, b \in 1 .. Len(fruit1) : \A i \in 1 .. Len(fruit1[a]), k \in 1 .. Len(fruit1[b]) :
    fruit1[a][i] = fruit1[b][k] => a = b /\ i = k

Merging(handed) ==
  /\ IsHanded(doc, TopN, Considered, handed)
  /\ LeftIn(fruit) \subseteq handed
  /\ BestHeap(doc, TopN, heap, handed \ LeftIn(fruit))

MergeInv ==
  phase = "merge" =>
    /\ fruit \in Seq(Seq(Docs)) /\ NoneTwice(fruit)
    /\ \E handed : Merging(handed)
    /\ best = {} /\ count = NoCounts /\ res = <<>>

\* A document that no other one in the heap exceeds, all of them adjusted.
Leads(doc1, count1, h, i) ==
  /\ i \in DOMAIN h
  /\ \A d \in DOMAIN h : ~Exceeds(doc1[d], AdjustScore(count1, doc1[d]),
                                  doc1[i], AdjustScore(count1, doc1[i]))

\* What a greedy ranking has shown, however long.
GreedySoFar(doc1, shown, kept) ==
  \A i \in 1 .. Len(shown) :
    LET before == {shown[k] : k \in 1 .. i - 1}
        counted == CountsAfter(doc1, shown, i - 1)
    IN  /\ shown[i] \in kept \ before
        /\ \A d \in kept \ before :
             ~Exceeds(doc1[d], AdjustScore(counted, doc1[d]),
                      doc1[shown[i]], AdjustScore(counted, doc1[shown[i]]))

\* The documents in the heap are those kept and not shown yet, each with the
\* divisor of some earlier count, which is never too large.
Keeping(kept) ==
  /\ res \in Seq(kept) /\ Unrepeated(res) /\ Len(res) <= TopN
  /\ DOMAIN heap = kept \ Held(res)
  /\ count \in [Hashes -> Nat]
  /\ \A d \in DOMAIN heap : heap[d] \in Nat \ {0} /\ heap[d] <= AdjustScore(count, doc[d])

DeRanking(kept) ==
  top.deRank => count = CountsAfter(doc, res, Len(res)) /\ GreedySoFar(doc, res, kept)

\* Without adjustments the ranking goes down from the best score.
Falling(doc1, shown, rest) ==
  \A i \in 1 .. Len(shown) :
    /\ \A k \in i + 1 .. Len(shown) : doc1[shown[i]].score >= doc1[shown[k]].score
    /\ \A d \in rest : doc1[shown[i]].score >= doc1[d].score

PlainRanking ==
  ~top.deRank =>
    count = NoCounts /\ Fresh(doc, heap) /\ phase /= "adjust" /\ Falling(doc, res, DOMAIN heap)

Picks == IF best = {} THEN Largest(heap) ELSE best

Ranked(handed, kept) ==
  /\ IsHanded(doc, TopN, Considered, handed)
  /\ AreTheBest(doc, kept, handed, TopN + 1)
  /\ Keeping(kept) /\ DeRanking(kept) /\ PlainRanking

RankInv ==
  phase \in {"pop", "adjust", "done"} =>
    /\ \E handed, kept : Ranked(handed, kept)
    /\ phase = "pop" => \A i \in Picks : Leads(doc, count, heap, i)
    /\ phase = "done" => DOMAIN heap = {} \/ Len(res) = TopN

Given ==
  /\ doc \in [Docs -> Pages] /\ top \in Requests
  /\ phase \in {"segments", "merge", "pop", "adjust", "done"}

IInv == Given /\ SegmentInv /\ MergeInv /\ RankInv

----------------------------------------------------------------------------
\* Arithmetic.
LEMMA TimesMono ==
  ASSUME NEW a \in Nat, NEW b \in Nat, NEW c \in Nat, b <= c
  PROVE  a * b \in Nat /\ a * b <= a * c
<1>1. PICK e \in Nat : c = b + e
  <2>1. c - b \in Nat /\ c = b + (c - b)
    OBVIOUS
  <2>2. QED
    BY <2>1
<1>2. a * c = a * b + a * e /\ a * b \in Nat /\ a * e \in Nat
  BY <1>1
<1>3. QED
  BY <1>2

\* So is the product of three numbers in each of them.
LEMMA ProductMono ==
  ASSUME NEW a \in Nat, NEW b \in Nat, NEW c \in Nat,
         NEW x \in Nat, NEW y \in Nat, NEW z \in Nat, a <= x, b <= y, c <= z
  PROVE  /\ a * b * c \in Nat /\ x * y * z \in Nat
         /\ a * b * c <= x * y * z
<1>1. a * b \in Nat /\ a * y \in Nat /\ x * y \in Nat
  OBVIOUS
<1>2. a * b <= a * y
  BY TimesMono
<1>3. y * a <= y * x /\ y * a = a * y /\ y * x = x * y
  BY TimesMono
<1>4. a * b <= x * y
  BY <1>1, <1>2, <1>3
<1>5. PICK p \in Nat, q \in Nat : p = a * b /\ q = x * y
  BY <1>1
<1>6. c * p <= c * q /\ q * c <= q * z /\ c * p = p * c /\ c * q = q * c
  BY <1>4, <1>5, TimesMono
<1>7. p * c \in Nat /\ q * z \in Nat /\ q * c \in Nat
  OBVIOUS
<1>8. p * c <= q * z
  BY <1>6, <1>7
<1>9. QED
  BY <1>5, <1>7, <1>8

\* A page is penalized for what was counted, never the other way.
LEMMA AdjustFacts ==
  ASSUME NEW c \in [Hashes -> Nat], NEW d \in Pages
  PROVE  /\ AdjustScore(c, d) \in Nat \ {0}
         /\ AdjustScore(NoCounts, d) = 84
         /\ \A more \in [Hashes -> Nat] :
              (\A h \in Hashes : c[h] <= more[h]) => AdjustScore(c, d) <= AdjustScore(more, d)
         /\ d.score \in Nat
<1>1. d.site \in Hashes /\ d.title \in Hashes /\ d.url \in Hashes /\ d.score \in Nat
  BY BucketCollectorAssumption
<1>2. AdjustScore(NoCounts, d) = 84
  BY <1>1 DEF AdjustScore, NoCounts
<1>3. ASSUME NEW more \in [Hashes -> Nat], \A h \in Hashes : c[h] <= more[h]
      PROVE  AdjustScore(c, d) <= AdjustScore(more, d)
  <2>1. /\ c[d.site] \in Nat /\ more[d.site] \in Nat /\ c[d.site] <= more[d.site]
        /\ c[d.url] \in Nat /\ more[d.url] \in Nat /\ c[d.url] <= more[d.url]
        /\ c[d.title] \in Nat /\ more[d.title] \in Nat /\ c[d.title] <= more[d.title]
    BY <1>1, <1>3
  <2>2. PICK a \in Nat, b \in Nat, e \in Nat :
          a = 14 + c[d.site] /\ b = 1 + 10 * c[d.url] /\ e = 6 + c[d.title]
    BY <2>1
  <2>3. PICK x \in Nat, y \in Nat, z \in Nat :
          x = 14 + more[d.site] /\ y = 1 + 10 * more[d.url] /\ z = 6 + more[d.title]
    BY <2>1
  <2>4. a <= x /\ b <= y /\ e <= z
    BY <2>1, <2>2, <2>3
  <2>5. a * b * e <= x * y * z
    BY <2>4, ProductMono
  <2>6. QED
    BY <2>2, <2>3, <2>5 DEF AdjustScore
<1>4. AdjustScore(c, d) \in Nat \ {0}
  <2>1. /\ c[d.site] \in Nat /\ c[d.url] \in Nat /\ c[d.title] \in Nat
    BY <1>1
  <2>2. PICK a \in Nat, b \in Nat, e \in Nat :
          a = 14 + c[d.site] /\ b = 1 + 10 * c[d.url] /\ e = 6 + c[d.title]
    BY <2>1
  <2>3. 1 <= a /\ 1 <= b /\ 1 <= e
    BY <2>1, <2>2
  <2>4. 1 * 1 * 1 <= a * b * e /\ a * b * e \in Nat
    BY <2>3, ProductMono
  <2>5. QED
    BY <2>2, <2>4 DEF AdjustScore
<1>5. QED
  BY <1>1, <1>2, <1>3, <1>4

\* Two documents over the same divisor compare by their scores.
LEMMA ExceedsAtFirst ==
  ASSUME NEW d \in Pages, NEW e \in Pages
  PROVE  Exceeds(d, AdjustScore(NoCounts, d), e, AdjustScore(NoCounts, e)) <=> d.score > e.score
<1>1. /\ AdjustScore(NoCounts, d) = 84 /\ AdjustScore(NoCounts, e) = 84
      /\ d.score \in Nat /\ e.score \in Nat
  <2>1. NoCounts \in [Hashes -> Nat]
    BY DEF NoCounts
  <2>2. QED
    BY <2>1, AdjustFacts
<1>2. QED
  BY <1>1 DEF Exceeds

\* A document whose score over its true divisor is as good as that of another
\* over a divisor that is too small is as good as the other.
LEMMA StaleIsNoBetter ==
  ASSUME NEW s \in Nat, NEW t \in Nat, NEW a \in Nat \ {0}, NEW a1 \in Nat \ {0},
         NEW b \in Nat, NEW b1 \in Nat, b <= b1,
         s * a1 = s * a, ~(t * a > s * b)
  PROVE  ~(t * a1 > s * b1)
<1>1. s * b <= s * b1 /\ s * b \in Nat /\ s * b1 \in Nat
  BY TimesMono
<1>2. CASE s = 0
  <2>1. t * a = 0
    BY <1>2
  <2>2. t = 0
    BY <2>1
  <2>3. QED
    BY <1>1, <2>2
<1>3. CASE s /= 0
  <2>1. a1 = a
    BY <1>3
  <2>2. QED
    BY <1>1, <2>1
<1>4. QED
  BY <1>2, <1>3

----------------------------------------------------------------------------
\* Induction over the numbers, by way of a smallest finite set.
Minimal(A, T) == A \in T /\ \A B \in T : B \subseteq A => B = A
AllFinite(T) == \A A \in T : IsFiniteSet(A)

\* A nonempty set of finite sets has one that contains no other of them.
LEMMA MinimalSet ==
  ASSUME NEW T, AllFinite(T), T /= {}
  PROVE  \E A : Minimal(A, T)
<1> DEFINE X == UNION T
<1>1. IsWellFoundedOn(StrictSubsetOrdering(X), FiniteSubsetsOf(X))
  BY FS_StrictSubsetOrderingWellFounded
<1>2. T \subseteq FiniteSubsetsOf(X)
  BY DEF FiniteSubsetsOf, AllFinite
<1>3. PICK A \in T : \A B \in T : ~ (<<B, A>> \in StrictSubsetOrdering(X))
  BY <1>1, <1>2, WFMin
<1>4. \A B \in T : B \subseteq A => B = A
  BY <1>3 DEF StrictSubsetOrdering
<1>5. QED
  BY <1>4 DEF Minimal

\* A nonempty set of numbers has a least.
LEMMA LeastNumber ==
  ASSUME NEW W, W \subseteq Nat, W /= {}
  PROVE  \E n \in W : \A k \in W : n <= k
<1>1. PICK T : T = {0 .. n : n \in W}
  OBVIOUS
<1>2. T /= {}
  BY <1>1
<1>3. AllFinite(T)
  <2>1. \A n \in W : IsFiniteSet(0 .. n)
    BY FS_Interval
  <2>2. QED
    BY <1>1, <2>1, Zenon DEF AllFinite
<1>4. PICK A : Minimal(A, T)
  BY <1>2, <1>3, MinimalSet
<1>5. PICK n \in W : A = 0 .. n
  BY <1>1, <1>4 DEF Minimal
<1>6. ASSUME NEW k \in W, k < n PROVE FALSE
  <2>1. (0 .. k) \in T /\ (0 .. k) \subseteq (0 .. n)
    BY <1>1, <1>6
  <2>2. 0 .. k = 0 .. n
    BY <1>4, <1>5, <2>1 DEF Minimal
  <2>3. QED
    BY <1>6, <2>2
<1>7. QED
  BY <1>6

\* Induction, of a set of numbers.
LEMMA SetInduction ==
  ASSUME NEW S, 0 \in S, \A n \in Nat : n \in S => n + 1 \in S
  PROVE  \A n \in Nat : n \in S
<1> SUFFICES ASSUME NEW m \in Nat, m \notin S PROVE FALSE
  OBVIOUS
<1>1. PICK n \in Nat \ S : \A k \in Nat \ S : n <= k
  BY LeastNumber
<1>2. n /= 0 /\ n - 1 \in Nat \ S
  OBVIOUS
<1>3. QED
  BY <1>1, <1>2

----------------------------------------------------------------------------
\* Counting what has been shown.
Counts(f, doc1, ids, n) ==
  f = [i \in 0 .. n |-> IF i = 0 THEN NoCounts ELSE UpdateCounts(f[i - 1], doc1[ids[i]])]

\* Two counts of the same documents are equal.
LEMMA CountsAgree ==
  ASSUME NEW doc1, NEW ids, NEW more, NEW m \in Nat, NEW n \in Nat, m <= n,
         NEW f, NEW g, Counts(f, doc1, ids, m), Counts(g, doc1, more, n),
         \A i \in 1 .. m : ids[i] = more[i]
  PROVE  f[m] = g[m]
<1> DEFINE S == {i \in Nat : i <= m => f[i] = g[i]}
<1>1. f[0] = NoCounts /\ g[0] = NoCounts
  BY DEF Counts
<1>2. \A i \in 1 .. m : f[i] = UpdateCounts(f[i - 1], doc1[ids[i]])
  BY DEF Counts
<1>3. \A i \in 1 .. m : g[i] = UpdateCounts(g[i - 1], doc1[more[i]])
  BY DEF Counts
<1>4. ASSUME NEW i \in Nat, i \in S PROVE i + 1 \in S
  <2>1. CASE i + 1 <= m
    <3>1. i + 1 \in 1 .. m /\ i <= m /\ (i + 1) - 1 = i
      BY <2>1
    <3>2. f[i] = g[i] /\ ids[i + 1] = more[i + 1]
      BY <1>4, <3>1
    <3>3. f[i + 1] = UpdateCounts(f[i], doc1[ids[i + 1]])
      BY <1>2, <3>1
    <3>4. g[i + 1] = UpdateCounts(g[i], doc1[more[i + 1]])
      BY <1>3, <3>1
    <3>5. QED
      BY <3>2, <3>3, <3>4
  <2>2. QED
    BY <2>1
<1>5. 0 \in S
  BY <1>1
<1> HIDE DEF S
<1>6. m \in S
  BY <1>4, <1>5, SetInduction
<1>7. QED
  BY <1>6 DEF S

\* The recursive definition of CountsAfter defines something.
LEMMA CountsExist ==
  ASSUME NEW doc1, NEW ids, NEW n \in Nat
  PROVE  \E f : Counts(f, doc1, ids, n)
<1> DEFINE S == {i \in Nat : \E f : Counts(f, doc1, ids, i)}
<1>1. 0 \in S
  <2>1. PICK f : f = [i \in 0 .. 0 |-> NoCounts]
    OBVIOUS
  <2>2. \A i \in 0 .. 0 : i = 0
    OBVIOUS
  <2>3. f = [i \in 0 .. 0 |-> IF i = 0 THEN NoCounts
                              ELSE UpdateCounts(f[i - 1], doc1[ids[i]])]
    BY <2>1, <2>2
  <2>4. QED
    BY <2>3 DEF Counts
<1>2. ASSUME NEW i \in Nat, i \in S PROVE i + 1 \in S
  <2>1. PICK f : Counts(f, doc1, ids, i)
    BY <1>2
  <2>2. PICK g : g = [k \in 0 .. i + 1 |-> IF k = 0 THEN NoCounts
                                           ELSE UpdateCounts(f[k - 1], doc1[ids[k]])]
    OBVIOUS
  <2>3. \A k \in 0 .. i : g[k] = f[k]
    BY <2>1, <2>2 DEF Counts
  <2>4. \A k \in 0 .. i + 1 : k /= 0 => k - 1 \in 0 .. i
    OBVIOUS
  <2>5. \A k \in 0 .. i + 1 : k /= 0 => g[k - 1] = f[k - 1]
    BY <2>3, <2>4
  <2>6. g = [k \in 0 .. i + 1 |-> IF k = 0 THEN NoCounts
                                  ELSE UpdateCounts(g[k - 1], doc1[ids[k]])]
    BY <2>2, <2>5
  <2>7. QED
    BY <2>6 DEF Counts
<1> HIDE DEF S
<1>3. n \in S
  BY <1>1, <1>2, SetInduction
<1>4. QED
  BY <1>3 DEF S

\* And CountsAfter is its last value.
LEMMA CountsAfterCounts ==
  ASSUME NEW doc1, NEW ids, NEW n \in Nat
  PROVE  \E f : Counts(f, doc1, ids, n) /\ CountsAfter(doc1, ids, n) = f[n]
<1>1. PICK f : f = CHOOSE g : Counts(g, doc1, ids, n)
  OBVIOUS
<1>2. Counts(f, doc1, ids, n)
  BY <1>1, CountsExist
<1>3. CountsAfter(doc1, ids, n) = f[n]
  BY <1>1 DEF CountsAfter, Counts
<1>4. QED
  BY <1>2, <1>3

\* The count of what is shown depends on what is shown up to there only.
LEMMA CountsAfterFacts ==
  ASSUME NEW doc1, NEW ids, NEW more, NEW n \in Nat, \A i \in 1 .. n : ids[i] = more[i]
  PROVE  /\ CountsAfter(doc1, ids, n) = CountsAfter(doc1, more, n)
         /\ CountsAfter(doc1, ids, 0) = NoCounts
<1>1. PICK f : Counts(f, doc1, ids, n) /\ CountsAfter(doc1, ids, n) = f[n]
  BY CountsAfterCounts
<1>2. PICK g : Counts(g, doc1, more, n) /\ CountsAfter(doc1, more, n) = g[n]
  BY CountsAfterCounts
<1>3. f[n] = g[n]
  BY <1>1, <1>2, CountsAgree
<1>4. CountsAfter(doc1, ids, 0) = NoCounts
  <2>1. PICK k : Counts(k, doc1, ids, 0) /\ CountsAfter(doc1, ids, 0) = k[0]
    BY CountsAfterCounts
  <2>2. QED
    BY <2>1 DEF Counts
<1>5. QED
  BY <1>1, <1>2, <1>3, <1>4

\* One more document shown is one more document counted.
AlikeUpTo(n, ids, more) == \A i \in 1 .. n : ids[i] = more[i]

LEMMA CountsAfterNext ==
  ASSUME NEW doc1, NEW ids, NEW more, NEW n, n \in Nat, AlikeUpTo(n, ids, more),
         NEW m, m = n + 1, NEW y, y = more[m]
  PROVE  CountsAfter(doc1, more, m) = UpdateCounts(CountsAfter(doc1, ids, n), doc1[y])
<1>1. \A i \in 1 .. n : ids[i] = more[i]
  BY DEF AlikeUpTo
<1>2. PICK f : Counts(f, doc1, ids, n) /\ CountsAfter(doc1, ids, n) = f[n]
  BY CountsAfterCounts
<1>3. PICK h : Counts(h, doc1, more, m) /\ CountsAfter(doc1, more, m) = h[m]
  BY CountsAfterCounts
<1>4. f[n] = h[n]
  BY <1>1, <1>2, <1>3, CountsAgree
<1>5. h[m] = UpdateCounts(h[n], doc1[y])
  <2>1. m \in 0 .. m /\ m /= 0 /\ m - 1 = n
    OBVIOUS
  <2>2. QED
    BY <1>3, <2>1 DEF Counts
<1>6. QED
  BY <1>2, <1>3, <1>4, <1>5

----------------------------------------------------------------------------
\* The best of a set of documents.
LEMMA ShownFacts ==
  ASSUME NEW K, NEW seq \in Seq(K), Unrepeated(seq)
  PROVE  /\ Held(seq) \subseteq K /\ IsFiniteSet(Held(seq))
         /\ Len(seq) \in Nat /\ Cardinality(Held(seq)) = Len(seq)
<1>1. Len(seq) \in Nat /\ seq \in [1 .. Len(seq) -> K]
  BY LenProperties
<1>2. Held(seq) \subseteq K
  BY <1>1 DEF Held
<1>3. seq \in [1 .. Len(seq) -> Held(seq)]
  BY <1>1 DEF Held
<1>4. \A x \in Held(seq) : \E i \in 1 .. Len(seq) : seq[i] = x
  BY DEF Held
<1>5. \A i, k \in 1 .. Len(seq) : i /= k => seq[i] /= seq[k]
  BY DEF Unrepeated
<1>6. seq \in Bijection(1 .. Len(seq), Held(seq))
  <2>1. seq \in Injection(1 .. Len(seq), Held(seq))
    BY <1>3, <1>5 DEF Injection, IsInjective
  <2>2. seq \in Surjection(1 .. Len(seq), Held(seq))
    BY <1>3, <1>4 DEF Surjection
  <2>3. QED
    BY <2>1, <2>2 DEF Bijection
<1>7. ExistsBijection(1 .. Len(seq), Held(seq))
  BY <1>6 DEF ExistsBijection
<1>8. Cardinality(Held(seq)) = Len(seq)
  BY <1>1, <1>7, FS_CountingElements
<1>9. IsFiniteSet(Held(seq))
  BY <1>1, <1>7, FS_NatBijection
<1>10. QED
  BY <1>1, <1>2, <1>8, <1>9

\* Sizes of finite sets of documents.
LEMMA SizeFacts ==
  ASSUME NEW from, IsFiniteSet(from), NEW ids, ids \subseteq from
  PROVE  /\ IsFiniteSet(ids) /\ Cardinality(ids) \in Nat /\ Cardinality(from) \in Nat
         /\ Cardinality(ids) <= Cardinality(from)
         /\ Cardinality(ids) = Cardinality(from) => ids = from
  BY FS_Subset, FS_CardinalityType

Scored(doc1, from) == \A i \in from : doc1[i].score \in Nat

\* One more document, and one less if those are too many.
LEMMA OneMoreAmong ==
  ASSUME NEW doc1, NEW from, IsFiniteSet(from), NEW ids, NEW n \in Nat, NEW x, x \notin from,
         AreTheBest(doc1, ids, from, n), Cardinality(ids \cup {x}) <= n
  PROVE  AreTheBest(doc1, ids \cup {x}, from \cup {x}, n)
<1>1. ids \subseteq from /\ x \notin ids
  BY DEF AreTheBest
<1>2. /\ IsFiniteSet(ids) /\ Cardinality(ids) \in Nat /\ Cardinality(from) \in Nat
      /\ Cardinality(ids) = Cardinality(from) => ids = from
  BY <1>1, SizeFacts
<1>3. Cardinality(ids \cup {x}) = Cardinality(ids) + 1
  BY <1>1, <1>2, FS_AddElement
<1>4. Cardinality(from \cup {x}) = Cardinality(from) + 1
  BY FS_AddElement
<1>5. Cardinality(ids) = Cardinality(from)
  BY <1>2, <1>3 DEF AreTheBest
<1>6. ids = from
  BY <1>2, <1>5
<1>7. QED
  BY <1>2, <1>3, <1>4, <1>6 DEF AreTheBest

\* One more document, and the worst of them left out.
LEMMA OneForAnother ==
  ASSUME NEW doc1, NEW from, IsFiniteSet(from), NEW ids, NEW n \in Nat, NEW x, x \notin from,
         AreTheBest(doc1, ids, from, n), Cardinality(ids \cup {x}) > n,
         Scored(doc1, from \cup {x}),
         NEW m \in ids \cup {x},
         \A k \in ids \cup {x} : doc1[m].score <= doc1[k].score
  PROVE  AreTheBest(doc1, (ids \cup {x}) \ {m}, from \cup {x}, n)
<1> DEFINE new == (ids \cup {x}) \ {m}
<1>1. ids \subseteq from /\ x \notin ids
  BY DEF AreTheBest
<1>2. /\ IsFiniteSet(ids) /\ Cardinality(ids) \in Nat /\ Cardinality(from) \in Nat
      /\ Cardinality(ids) <= Cardinality(from)
  BY <1>1, SizeFacts
<1>3. Cardinality(ids \cup {x}) = Cardinality(ids) + 1 /\ IsFiniteSet(ids \cup {x})
  BY <1>1, <1>2, FS_AddElement
<1>4. Cardinality(from \cup {x}) = Cardinality(from) + 1
  BY FS_AddElement
<1>5. Cardinality(ids) = n /\ n <= Cardinality(from)
  BY <1>2, <1>3 DEF AreTheBest
<1>6. Cardinality(new) = n
  <2>1. PICK all : all = ids \cup {x}
    OBVIOUS
  <2>2. IsFiniteSet(all) /\ m \in all /\ Cardinality(all) = n + 1
    BY <1>3, <1>5, <2>1
  <2>3. Cardinality(all \ {m}) = Cardinality(all) - 1
    BY <2>2, FS_RemoveElement
  <2>4. QED
    BY <2>1, <2>2, <2>3
<1>7. ASSUME NEW i \in new, NEW k \in (from \cup {x}) \ new
      PROVE  doc1[i].score >= doc1[k].score
  <2>1. i \in ids \cup {x} /\ i \in from \cup {x} /\ m \in from \cup {x}
    BY <1>1
  <2>2. /\ doc1[i].score \in Nat /\ doc1[k].score \in Nat /\ doc1[m].score \in Nat
        /\ doc1[m].score <= doc1[i].score
    BY <2>1 DEF Scored
  <2>3. CASE k = m
    BY <2>2, <2>3
  <2>4. CASE k /= m
    <3>1. k \in from \ ids
      BY <2>4
    <3>2. CASE i \in ids
      BY <3>1, <3>2, <2>2 DEF AreTheBest
    <3>3. CASE i = x
      <4>1. m \in ids
        BY <3>3
      <4>2. doc1[m].score >= doc1[k].score
        BY <3>1, <4>1 DEF AreTheBest
      <4>3. QED
        BY <2>2, <4>2
    <3>4. QED
      BY <2>1, <3>2, <3>3
  <2>5. QED
    BY <2>3, <2>4
<1>8. new \subseteq from \cup {x}
  BY <1>1
<1> HIDE DEF new
<1>9. AreTheBest(doc1, new, from \cup {x}, n)
  BY <1>2, <1>4, <1>5, <1>6, <1>7, <1>8 DEF AreTheBest
<1>10. QED
  BY <1>9 DEF new

\* The best of the best.
LEMMA BestOfBest ==
  ASSUME NEW doc1, NEW from, IsFiniteSet(from), NEW some, NEW ids, NEW m \in Nat, NEW n \in Nat,
         n <= m, AreTheBest(doc1, some, from, m), AreTheBest(doc1, ids, some, n)
  PROVE  AreTheBest(doc1, ids, from, n)
<1>1. some \subseteq from /\ ids \subseteq some
  BY DEF AreTheBest
<1>2. /\ IsFiniteSet(some) /\ Cardinality(some) \in Nat /\ Cardinality(from) \in Nat
      /\ Cardinality(some) <= Cardinality(from)
  BY <1>1, SizeFacts
<1>3. Cardinality(ids) = IF Cardinality(from) < n THEN Cardinality(from) ELSE n
  BY <1>2 DEF AreTheBest
<1>4. \A i \in ids, k \in from \ ids : doc1[i].score >= doc1[k].score
  BY <1>1 DEF AreTheBest
<1>5. QED
  BY <1>1, <1>3, <1>4 DEF AreTheBest

\* The best of what is best in each part.
LEMMA BestOfParts ==
  ASSUME NEW doc1, NEW from, IsFiniteSet(from), Scored(doc1, from), NEW n \in Nat,
         NEW P, NEW Part, \A i \in from : \E s \in P : i \in Part[s],
         NEW handed, handed \subseteq from,
         \A s \in P : AreTheBest(doc1, handed \cap Part[s], from \cap Part[s], n),
         NEW ids, AreTheBest(doc1, ids, handed, n)
  PROVE  AreTheBest(doc1, ids, from, n)
<1>1. ids \subseteq handed
  BY DEF AreTheBest
<1>2. /\ IsFiniteSet(handed) /\ Cardinality(handed) \in Nat /\ Cardinality(from) \in Nat
      /\ Cardinality(handed) <= Cardinality(from)
  BY SizeFacts
<1>3. IsFiniteSet(ids) /\ Cardinality(ids) \in Nat
  BY <1>1, <1>2, SizeFacts
\* A document that is left out was worse than n others.
<1>4. ASSUME NEW k \in from \ handed
      PROVE  \E T \in SUBSET handed :
               Cardinality(T) = n /\ \A j \in T : doc1[j].score >= doc1[k].score
  <2>1. PICK s \in P : k \in Part[s]
    BY <1>4
  <2>2. AreTheBest(doc1, handed \cap Part[s], from \cap Part[s], n)
    BY <2>1
  <2>3. k \in (from \cap Part[s]) \ (handed \cap Part[s])
    BY <1>4, <2>1
  <2>4. IsFiniteSet(from \cap Part[s])
    BY FS_Intersection
  <2>5. handed \cap Part[s] \subseteq from \cap Part[s]
    OBVIOUS
  <2>6. Cardinality(handed \cap Part[s]) /= Cardinality(from \cap Part[s])
    BY <2>3, <2>4, <2>5, SizeFacts
  <2>7. Cardinality(handed \cap Part[s]) = n
    BY <2>2, <2>6 DEF AreTheBest
  <2>8. \A j \in handed \cap Part[s] : doc1[j].score >= doc1[k].score
    BY <2>2, <2>3 DEF AreTheBest
  <2>9. QED
    BY <2>7, <2>8
<1>5. Cardinality(ids) = IF Cardinality(from) < n THEN Cardinality(from) ELSE n
  <2>1. CASE handed = from
    BY <2>1 DEF AreTheBest
  <2>2. CASE handed /= from
    <3>1. PICK k \in from \ handed : TRUE
      BY <2>2
    <3>2. PICK T \in SUBSET handed : Cardinality(T) = n
      BY <1>4, <3>1
    <3>3. n <= Cardinality(handed)
      BY <1>2, <3>2, SizeFacts
    <3>4. QED
      BY <1>2, <3>3 DEF AreTheBest
  <2>3. QED
    BY <2>1, <2>2
<1>6. ASSUME NEW i \in ids, NEW k \in from \ ids
      PROVE  doc1[i].score >= doc1[k].score
  <2>1. CASE k \in handed
    BY <2>1 DEF AreTheBest
  <2>2. CASE k \notin handed
    <3>1. PICK T \in SUBSET handed :
            Cardinality(T) = n /\ \A j \in T : doc1[j].score >= doc1[k].score
      BY <1>4, <2>2
    <3>2. IsFiniteSet(T) /\ n <= Cardinality(handed)
      BY <1>2, <3>1, SizeFacts
    <3>3. Cardinality(ids) = n
      BY <1>2, <3>2 DEF AreTheBest
    <3>4. CASE T \subseteq ids
      <4>1. T = ids
        BY <1>3, <3>1, <3>3, <3>4, SizeFacts
      <4>2. QED
        BY <3>1, <4>1
    <3>5. CASE ~(T \subseteq ids)
      <4>1. PICK j \in T : j \notin ids
        BY <3>5
      <4>2. doc1[i].score >= doc1[j].score /\ doc1[j].score >= doc1[k].score
        BY <3>1, <4>1 DEF AreTheBest
      <4>3. doc1[i].score \in Nat /\ doc1[j].score \in Nat /\ doc1[k].score \in Nat
        BY <1>1, <4>1 DEF Scored
      <4>4. QED
        BY <4>2, <4>3
    <3>6. QED
      BY <3>4, <3>5
  <2>3. QED
    BY <2>1, <2>2
<1>7. QED
  BY <1>1, <1>5, <1>6 DEF AreTheBest

----------------------------------------------------------------------------
\* The documents and the request.
LEMMA GivenFacts ==
  ASSUME Given
  PROVE  /\ TopN \in Nat \ {0} /\ top.max \in Nat /\ top.top \in Nat \ {0} /\ top.offset \in Nat
         /\ top.deRank \in BOOLEAN /\ TopN = top.top + top.offset
         /\ IsFiniteSet(Docs) /\ Considered \subseteq Docs /\ Scored(doc, Docs)
         /\ \A i \in Docs : doc[i] \in Pages /\ doc[i].score \in Nat
  BY BucketCollectorAssumption DEF Given, TopN, Considered, Scored

\* Before anything is counted all documents have the same divisor.
LEMMA FirstDivisor ==
  ASSUME NEW d \in Pages
  PROVE  AdjustScore(NoCounts, d) = 84 /\ AdjustScore(NoCounts, d) \in Nat \ {0}
<1>1. NoCounts \in [Hashes -> Nat]
  BY DEF NoCounts
<1>2. QED
  BY <1>1, AdjustFacts

\* In a heap where nothing was adjusted the scores decide.
LEMMA SortedAtFirst ==
  ASSUME Given, NEW h, Fresh(doc, h), DOMAIN h \subseteq Docs,
         NEW i \in DOMAIN h, NEW k \in DOMAIN h
  PROVE  Sorted(h, i, k) <=> doc[i].score >= doc[k].score
<1>1. doc[i] \in Pages /\ doc[k] \in Pages /\ doc[i].score \in Nat /\ doc[k].score \in Nat
  BY GivenFacts
<1>2. h[i] = AdjustScore(NoCounts, doc[i]) /\ h[k] = AdjustScore(NoCounts, doc[k])
  BY DEF Fresh
<1>3. Exceeds(doc[k], h[k], doc[i], h[i]) <=> doc[k].score > doc[i].score
  BY <1>1, <1>2, ExceedsAtFirst
<1>4. QED
  BY <1>1, <1>3 DEF Sorted

\* BucketCollector::insert keeps the best of what it kept and what comes.
LEMMA InsertedIsBest ==
  ASSUME Given, NEW h, NEW from, from \subseteq Docs, BestHeap(doc, TopN, h, from),
         NEW x \in Docs, x \notin from, NEW g \in Inserted(h, x)
  PROVE  BestHeap(doc, TopN, g, from \cup {x})
<1>1. PICK pushed : pushed = [k \in DOMAIN h \cup {x} |->
                                IF k = x THEN AdjustScore(NoCounts, doc[x]) ELSE h[k]]
  OBVIOUS
<1>2. Fresh(doc, h) /\ AreTheBest(doc, DOMAIN h, from, TopN + 1)
  BY DEF BestHeap
<1>3. DOMAIN h \subseteq from
  BY <1>2 DEF AreTheBest
<1>4. DOMAIN pushed = DOMAIN h \cup {x} /\ DOMAIN pushed \subseteq Docs
  BY <1>1, <1>3
<1>5. Fresh(doc, pushed)
  BY <1>1, <1>2 DEF Fresh
<1>6. g \in IF Cardinality(DOMAIN pushed) > TopN + 1
             THEN {WithoutDoc(pushed, m) : m \in Smallest(pushed)} ELSE {pushed}
  BY <1>1 DEF Inserted
<1>7. IsFiniteSet(from) /\ TopN + 1 \in Nat /\ Scored(doc, from \cup {x})
  <2>1. IsFiniteSet(from)
    BY GivenFacts, FS_Subset
  <2>2. QED
    BY <2>1, GivenFacts DEF Scored
<1>8. Cardinality(DOMAIN h \cup {x}) \in Nat
  <2>1. IsFiniteSet(DOMAIN h \cup {x})
    BY <1>4, GivenFacts, FS_Subset
  <2>2. QED
    BY <2>1, FS_CardinalityType
<1>9. CASE Cardinality(DOMAIN pushed) > TopN + 1
  <2>1. PICK m \in Smallest(pushed) : g = WithoutDoc(pushed, m)
    BY <1>6, <1>9
  <2>2. m \in DOMAIN pushed /\ \A k \in DOMAIN pushed : Sorted(pushed, k, m)
    BY DEF Smallest
  <2>3. \A k \in DOMAIN pushed : doc[m].score <= doc[k].score
    <3>1. ASSUME NEW k \in DOMAIN pushed PROVE doc[m].score <= doc[k].score
      <4>1. doc[k].score >= doc[m].score
        BY <1>4, <1>5, <2>2, SortedAtFirst
      <4>2. doc[k].score \in Nat /\ doc[m].score \in Nat
        BY <1>4, <2>2, GivenFacts
      <4>3. QED
        BY <4>1, <4>2
    <3>2. QED
      BY <3>1
  <2>4. DOMAIN g = (DOMAIN h \cup {x}) \ {m} /\ \A k \in DOMAIN g : g[k] = pushed[k]
    BY <1>4, <2>1 DEF WithoutDoc
  <2>5. AreTheBest(doc, (DOMAIN h \cup {x}) \ {m}, from \cup {x}, TopN + 1)
    BY <1>2, <1>4, <1>7, <1>9, <2>2, <2>3, OneForAnother
  <2>6. Fresh(doc, g)
    BY <1>4, <1>5, <2>4 DEF Fresh
  <2>7. QED
    BY <2>4, <2>5, <2>6 DEF BestHeap
<1>10. CASE ~(Cardinality(DOMAIN pushed) > TopN + 1)
  <2>1. g = pushed
    BY <1>6, <1>10
  <2>2. Cardinality(DOMAIN h \cup {x}) <= TopN + 1
    BY <1>4, <1>7, <1>8, <1>10
  <2>3. AreTheBest(doc, DOMAIN h \cup {x}, from \cup {x}, TopN + 1)
    BY <1>2, <1>7, <2>2, OneMoreAmong
  <2>4. QED
    BY <1>4, <1>5, <2>1, <2>3 DEF BestHeap
<1>11. QED
  BY <1>9, <1>10

\* into_sorted_vec(false) hands over the best of the heap, no document twice.
LEMMA SortedVecsAreBest ==
  ASSUME Given, NEW h, NEW from, from \subseteq Docs, BestHeap(doc, TopN, h, from),
         NEW ids \in SortedVecs(h)
  PROVE  IsFruit(doc, TopN, from, ids)
<1>1. Fresh(doc, h) /\ AreTheBest(doc, DOMAIN h, from, TopN + 1) /\ DOMAIN h \subseteq from
  BY DEF BestHeap, AreTheBest
<1>2. IsFiniteSet(from) /\ TopN \in Nat /\ TopN + 1 \in Nat /\ TopN <= TopN + 1
  BY GivenFacts, FS_Subset
<1>3. PICK size : size = IF Cardinality(DOMAIN h) < TopN THEN Cardinality(DOMAIN h) ELSE TopN
  OBVIOUS
<1>4. Cardinality(DOMAIN h) \in Nat /\ size \in Nat
  BY <1>1, <1>2, <1>3, SizeFacts
<1>5. /\ ids \in [1 .. size -> DOMAIN h]
      /\ \A i, k \in 1 .. size : i < k => ids[i] /= ids[k] /\ Sorted(h, ids[i], ids[k])
      /\ \A d \in DOMAIN h :
           (\A i \in 1 .. size : ids[i] /= d) => \A i \in 1 .. size : Sorted(h, ids[i], d)
  BY <1>3 DEF SortedVecs
<1>6. ids \in Seq(DOMAIN h) /\ Len(ids) = size
  BY <1>4, <1>5
<1>7. Unrepeated(ids)
  BY <1>4, <1>5, <1>6 DEF Unrepeated
<1>8. Held(ids) \subseteq DOMAIN h /\ Cardinality(Held(ids)) = size
  BY <1>6, <1>7, ShownFacts
<1>9. ASSUME NEW i \in Held(ids), NEW k \in DOMAIN h \ Held(ids)
      PROVE  doc[i].score >= doc[k].score
  <2>1. PICK a \in 1 .. size : ids[a] = i
    BY <1>6 DEF Held
  <2>2. \A b \in 1 .. size : ids[b] /= k
    BY <1>6 DEF Held
  <2>3. Sorted(h, i, k)
    BY <1>5, <2>1, <2>2
  <2>4. i \in DOMAIN h /\ DOMAIN h \subseteq Docs
    BY <1>1, <1>8
  <2>5. QED
    BY <1>1, <2>3, <2>4, SortedAtFirst
<1>10. AreTheBest(doc, Held(ids), DOMAIN h, TopN)
  BY <1>3, <1>8, <1>9 DEF AreTheBest
<1>11. AreTheBest(doc, Held(ids), from, TopN)
  BY <1>1, <1>2, <1>10, BestOfBest
<1>12. ids \in Seq(from)
  BY <1>1, <1>6, SeqMonotonic
<1>13. QED
  BY <1>7, <1>11, <1>12 DEF IsFruit

----------------------------------------------------------------------------
\* Collecting.
LEMMA SameRequest ==
  ASSUME UNCHANGED request
  PROVE  /\ doc' = doc /\ top' = top /\ TopN' = TopN /\ Considered' = Considered
         /\ \A s : ConsideredOf(s)' = ConsideredOf(s)
  BY DEF request, TopN, Considered, ConsideredOf

\* The invariant holds at first.
LEMMA InitOK == Init => IInv
<1> SUFFICES ASSUME Init PROVE IInv
  OBVIOUS
<1>1. Given
  BY DEF Init, Given
<1>2. ASSUME NEW s \in Segments PROVE Collecting(s)
  <2>1. waiting[s] = DocsOf(s) /\ taken[s] = 0 /\ segment[s] = EmptyHeap
    BY DEF Init
  <2>2. DOMAIN EmptyHeap = {}
    BY DEF EmptyHeap
  <2>3. DocsOf(s) \ waiting[s] = {} /\ ConsideredOf(s) \ waiting[s] = {}
    BY <2>1 DEF ConsideredOf
  <2>4. Cardinality({}) = 0
    BY FS_EmptySet
  <2>5. BestHeap(doc, TopN, EmptyHeap, {})
    BY <1>1, <2>2, <2>4, GivenFacts DEF BestHeap, Fresh, AreTheBest
  <2>6. taken[s] = Smaller(Cardinality(DocsOf(s) \ waiting[s]), top.max)
    <3>1. Cardinality(DocsOf(s) \ waiting[s]) = 0 /\ top.max \in Nat
      BY <1>1, <2>3, <2>4, GivenFacts
    <3>2. QED
      BY <2>1, <3>1 DEF Smaller
  <2>7. QED
    BY <2>1, <2>3, <2>5, <2>6 DEF Collecting
<1>3. /\ DOMAIN waiting = Segments /\ DOMAIN taken = Segments /\ DOMAIN segment = Segments
      /\ heap = EmptyHeap /\ best = {} /\ count = NoCounts /\ res = <<>> /\ phase = "segments"
  BY DEF Init
<1>4. fruit \in Seq(Seq(Docs)) /\ Len(fruit) = 0
  BY DEF Init
<1>5. \A s \in 1 .. Len(fruit) : s \in Segments /\ IsFruit(doc, TopN, ConsideredOf(s), fruit[s])
  BY <1>4
<1>6. QED
  BY <1>1, <1>2, <1>3, <1>4, <1>5 DEF IInv, SegmentInv, MergeInv, RankInv

\* The documents of a segment before the one that is collected are those that
\* it has seen, so that the maximum lets it in if enough were not taken yet.
LEMMA CollectFacts ==
  ASSUME Given, NEW s \in Segments, Collecting(s), NEW i \in waiting[s],
         \A k \in waiting[s] : i <= k
  PROVE  /\ DocsOf(s) \ (waiting[s] \ {i}) = (DocsOf(s) \ waiting[s]) \cup {i}
         /\ Cardinality(DocsOf(s) \ (waiting[s] \ {i}))
              = Cardinality(DocsOf(s) \ waiting[s]) + 1
         /\ Cardinality(DocsOf(s) \ waiting[s]) \in Nat
         /\ i \in Considered <=> taken[s] < top.max
         /\ i \in DocsOf(s) /\ i \in Docs
<1> DEFINE seen == DocsOf(s) \ waiting[s]
<1>1. /\ waiting[s] \subseteq DocsOf(s) /\ DocsOf(s) \subseteq Docs /\ Docs \subseteq Nat
      /\ \A a \in seen, k \in waiting[s] : a < k
      /\ taken[s] = Smaller(Cardinality(seen), top.max)
  BY BucketCollectorAssumption DEF Collecting, DocsOf
<1>2. i \in DocsOf(s) /\ i \in Docs /\ i \notin seen
  BY <1>1
<1>3. DocsOf(s) \ (waiting[s] \ {i}) = seen \cup {i}
  BY <1>1
<1>4. IsFiniteSet(seen) /\ Cardinality(seen) \in Nat
  BY <1>1, GivenFacts, SizeFacts
<1>5. Cardinality(seen \cup {i}) = Cardinality(seen) + 1
  BY <1>2, <1>4, FS_AddElement
<1>6. SegmentOf[i] = s
  BY <1>2 DEF DocsOf
<1>7. {k \in DocsOf(s) : k < i} = seen
  <2>1. \A k \in DocsOf(s) : k \in seen => k < i
    BY <1>1
  <2>2. \A k \in DocsOf(s) : k \notin seen => ~(k < i)
    BY <1>1, <1>2
  <2>3. QED
    BY <2>1, <2>2
<1>8. i \in Considered <=> Cardinality(seen) < top.max
  BY <1>2, <1>6, <1>7 DEF Considered
<1>9. taken[s] < top.max <=> Cardinality(seen) < top.max
  BY <1>1, <1>4, GivenFacts DEF Smaller
<1>10. QED
  BY <1>2, <1>3, <1>4, <1>5, <1>8, <1>9

\* Collecting a document, considered or not.
LEMMA CollectStep ==
  ASSUME IInv, NEW s \in Segments, Collect(s)
  PROVE  IInv'
<1>1. /\ Given /\ DOMAIN waiting = Segments /\ DOMAIN taken = Segments
      /\ DOMAIN segment = Segments /\ \A t \in Segments : Collecting(t)
  BY DEF IInv, SegmentInv, Collect
<1>2. PICK i \in waiting[s] :
        /\ \A k \in waiting[s] : i <= k
        /\ waiting' = [waiting EXCEPT ![s] = @ \ {i}]
        /\ IF taken[s] >= top.max
           THEN UNCHANGED <<taken, segment>>
           ELSE /\ taken' = [taken EXCEPT ![s] = @ + 1]
                /\ \E h \in Inserted(segment[s], i) : segment' = [segment EXCEPT ![s] = h]
  BY DEF Collect
<1>3. UNCHANGED <<request, fruit, heap, best, count, res, phase>> /\ phase = "segments"
  BY DEF Collect
<1>4. /\ doc' = doc /\ top' = top /\ TopN' = TopN
      /\ \A t : ConsideredOf(t)' = ConsideredOf(t)
  BY <1>3, SameRequest
<1>5. /\ DOMAIN waiting' = Segments /\ DOMAIN taken' = Segments /\ DOMAIN segment' = Segments
  BY <1>1, <1>2
<1>6. ASSUME NEW t \in Segments, t /= s PROVE Collecting(t)'
  <2>1. waiting'[t] = waiting[t] /\ taken'[t] = taken[t] /\ segment'[t] = segment[t]
    BY <1>1, <1>2, <1>6
  <2>2. QED
    BY <1>1, <1>4, <2>1 DEF Collecting
<1>7. Collecting(s)'
  <2>1. waiting'[s] = waiting[s] \ {i}
    BY <1>1, <1>2
  <2>2. Collecting(s)
    BY <1>1
  <2>3. /\ DocsOf(s) \ waiting'[s] = (DocsOf(s) \ waiting[s]) \cup {i}
        /\ Cardinality(DocsOf(s) \ waiting'[s]) = Cardinality(DocsOf(s) \ waiting[s]) + 1
        /\ Cardinality(DocsOf(s) \ waiting[s]) \in Nat
        /\ i \in Considered <=> taken[s] < top.max
        /\ i \in DocsOf(s) /\ i \in Docs
    BY <1>1, <1>2, <2>1, <2>2, CollectFacts
  <2>4. /\ waiting[s] \subseteq DocsOf(s)
        /\ \A a \in DocsOf(s) \ waiting[s], k \in waiting[s] : a < k
        /\ taken[s] = Smaller(Cardinality(DocsOf(s) \ waiting[s]), top.max)
        /\ BestHeap(doc, TopN, segment[s], ConsideredOf(s) \ waiting[s])
    BY <2>2 DEF Collecting
  <2>5. \A a \in DocsOf(s) \ waiting'[s], k \in waiting'[s] : a < k
    <3>1. ASSUME NEW k \in waiting'[s] PROVE i < k
      <4>1. k \in waiting[s] /\ k /= i /\ i <= k
        BY <1>2, <2>1, <3>1
      <4>2. k \in Nat /\ i \in Nat
        BY <2>3, <2>4, <4>1, BucketCollectorAssumption DEF DocsOf
      <4>3. QED
        BY <4>1, <4>2
    <3>2. QED
      BY <2>1, <2>3, <2>4, <3>1
  <2>6. top.max \in Nat
    BY <1>1, GivenFacts
  <2>7. CASE taken[s] >= top.max
    <3>1. taken' = taken /\ segment' = segment
      BY <1>2, <2>7
    <3>2. taken'[s] = Smaller(Cardinality(DocsOf(s) \ waiting'[s]), top.max)
      BY <2>3, <2>4, <2>6, <2>7, <3>1 DEF Smaller
    <3>3. i \notin Considered
      BY <2>3, <2>4, <2>6, <2>7 DEF Smaller
    <3>4. ConsideredOf(s) \ waiting'[s] = ConsideredOf(s) \ waiting[s]
      BY <2>1, <3>3 DEF ConsideredOf
    <3>5. BestHeap(doc, TopN, segment'[s], ConsideredOf(s) \ waiting'[s])
      BY <2>4, <3>1, <3>4
    <3>6. QED
      BY <1>4, <2>1, <2>4, <2>5, <3>2, <3>5 DEF Collecting
  <2>8. CASE ~(taken[s] >= top.max)
    <3>1. PICK h \in Inserted(segment[s], i) :
            taken' = [taken EXCEPT ![s] = @ + 1] /\ segment' = [segment EXCEPT ![s] = h]
      BY <1>2, <2>8
    <3>2. taken'[s] = taken[s] + 1 /\ segment'[s] = h
      BY <1>1, <3>1
    <3>3. taken'[s] = Smaller(Cardinality(DocsOf(s) \ waiting'[s]), top.max)
      BY <2>3, <2>4, <2>6, <2>8, <3>2 DEF Smaller
    <3>4. i \in Considered
      BY <2>3, <2>4, <2>6, <2>8 DEF Smaller
    <3>5. /\ ConsideredOf(s) \ waiting'[s] = (ConsideredOf(s) \ waiting[s]) \cup {i}
          /\ i \notin ConsideredOf(s) \ waiting[s]
          /\ ConsideredOf(s) \ waiting[s] \subseteq Docs
      BY <2>1, <2>3, <3>4 DEF ConsideredOf, DocsOf
    <3>6. BestHeap(doc, TopN, h, (ConsideredOf(s) \ waiting[s]) \cup {i})
      BY <1>1, <2>3, <2>4, <3>1, <3>5, InsertedIsBest
    <3>7. BestHeap(doc, TopN, segment'[s], ConsideredOf(s) \ waiting'[s])
      BY <3>2, <3>5, <3>6
    <3>8. QED
      BY <1>4, <2>1, <2>4, <2>5, <3>3, <3>7 DEF Collecting
  <2>9. QED
    BY <2>7, <2>8
<1>8. \A t \in Segments : Collecting(t)'
  BY <1>6, <1>7
<1>9. SegmentInv'
  BY <1>3, <1>4, <1>5, <1>8 DEF IInv, SegmentInv
<1>10. Given'
  BY <1>1, <1>3, <1>4 DEF Given
<1>11. MergeInv' /\ RankInv'
  BY <1>3 DEF MergeInv, RankInv
<1>12. QED
  BY <1>9, <1>10, <1>11 DEF IInv

----------------------------------------------------------------------------
\* Harvesting.
LEMMA EmptyIsBest ==
  ASSUME Given
  PROVE  BestHeap(doc, TopN, EmptyHeap, {}) /\ DOMAIN EmptyHeap = {}
<1>1. DOMAIN EmptyHeap = {}
  BY DEF EmptyHeap
<1>2. Cardinality({}) = 0
  BY FS_EmptySet
<1>3. QED
  BY <1>1, <1>2, GivenFacts DEF BestHeap, Fresh, AreTheBest

\* The fruits of all segments are what the segments hand over.
LEMMA FruitsAreHanded ==
  ASSUME Given, NEW f \in Seq(Seq(Docs)), 1 .. Len(f) = Segments,
         \A s \in Segments : IsFruit(doc, TopN, ConsideredOf(s), f[s])
  PROVE  /\ NoneTwice(f)
         /\ IsHanded(doc, TopN, Considered, LeftIn(f))
<1>1. \A s \in Segments : Held(f[s]) \subseteq ConsideredOf(s)
  <2>1. ASSUME NEW s \in Segments PROVE Held(f[s]) \subseteq ConsideredOf(s)
    <3>1. f[s] \in Seq(ConsideredOf(s)) /\ Unrepeated(f[s])
      BY DEF IsFruit
    <3>2. QED
      BY <3>1, ShownFacts
  <2>2. QED
    BY <2>1
<1>2. NoneTwice(f)
  <2> SUFFICES ASSUME NEW a \in Segments, NEW b \in Segments,
                      NEW i \in 1 .. Len(f[a]), NEW k \in 1 .. Len(f[b]), f[a][i] = f[b][k]
               PROVE  a = b /\ i = k
    BY DEF NoneTwice
  <2>1. f[a][i] \in ConsideredOf(a) /\ f[b][k] \in ConsideredOf(b)
    BY <1>1 DEF Held
  <2>2. a = b
    BY <2>1 DEF ConsideredOf, DocsOf
  <2>3. Unrepeated(f[a])
    BY DEF IsFruit
  <2>4. QED
    BY <2>2, <2>3 DEF Unrepeated
<1>3. LeftIn(f) \subseteq Considered
  BY <1>1 DEF LeftIn, ConsideredOf
<1>4. ASSUME NEW s \in Segments
      PROVE  AreTheBest(doc, LeftIn(f) \cap DocsOf(s), Considered \cap DocsOf(s), TopN)
  <2>1. LeftIn(f) \cap DocsOf(s) = Held(f[s])
    <3>1. Held(f[s]) \subseteq LeftIn(f) \cap DocsOf(s)
      BY <1>1 DEF LeftIn, ConsideredOf
    <3>2. ASSUME NEW x \in LeftIn(f), x \in DocsOf(s) PROVE x \in Held(f[s])
      <4>1. PICK a \in Segments : x \in Held(f[a])
        BY DEF LeftIn
      <4>2. x \in DocsOf(a)
        BY <1>1, <4>1 DEF ConsideredOf
      <4>3. a = s
        BY <3>2, <4>2 DEF DocsOf
      <4>4. QED
        BY <4>1, <4>3
    <3>3. QED
      BY <3>1, <3>2
  <2>2. AreTheBest(doc, Held(f[s]), ConsideredOf(s), TopN)
    BY DEF IsFruit
  <2>3. QED
    BY <2>1, <2>2 DEF ConsideredOf
<1>5. QED
  BY <1>2, <1>3, <1>4 DEF IsHanded

\* Harvesting a segment, and the step from the last one to the merge.
LEMMA HarvestStep ==
  ASSUME IInv, NEW s \in Segments, Harvest(s)
  PROVE  IInv'
<1>1. /\ Given /\ DOMAIN waiting = Segments /\ DOMAIN taken = Segments
      /\ DOMAIN segment = Segments /\ \A t \in Segments : Collecting(t)
      /\ fruit \in Seq(Seq(Docs))
      /\ \A t \in 1 .. Len(fruit) :
           t \in Segments /\ IsFruit(doc, TopN, ConsideredOf(t), fruit[t])
      /\ heap = EmptyHeap /\ best = {} /\ count = NoCounts /\ res = <<>>
  BY DEF IInv, SegmentInv, Harvest
<1>2. PICK ids \in SortedVecs(segment[s]) : fruit' = Append(fruit, ids)
  BY DEF Harvest
<1>3. /\ Len(fruit) = s - 1 /\ waiting[s] = {}
      /\ phase' = IF s + 1 \in Segments THEN "segments" ELSE "merge"
      /\ UNCHANGED <<request, waiting, taken, segment, heap, best, count, res>>
  BY DEF Harvest
<1>4. /\ doc' = doc /\ top' = top /\ TopN' = TopN /\ Considered' = Considered
      /\ \A t : ConsideredOf(t)' = ConsideredOf(t)
  BY <1>3, SameRequest
<1>5. IsFruit(doc, TopN, ConsideredOf(s), ids)
  <2>1. BestHeap(doc, TopN, segment[s], ConsideredOf(s))
    <3>1. BestHeap(doc, TopN, segment[s], ConsideredOf(s) \ waiting[s])
      BY <1>1 DEF Collecting
    <3>2. ConsideredOf(s) \ waiting[s] = ConsideredOf(s)
      BY <1>3
    <3>3. QED
      BY <3>1, <3>2
  <2>2. ConsideredOf(s) \subseteq Docs
    BY DEF ConsideredOf, DocsOf
  <2>3. QED
    BY <1>1, <1>2, <2>1, <2>2, SortedVecsAreBest
<1>6. ids \in Seq(Docs)
  <2>1. ids \in Seq(ConsideredOf(s)) /\ ConsideredOf(s) \subseteq Docs
    BY <1>5 DEF IsFruit, ConsideredOf, DocsOf
  <2>2. QED
    BY <2>1, SeqMonotonic
<1>7. /\ fruit' \in Seq(Seq(Docs)) /\ Len(fruit') = Len(fruit) + 1
      /\ \A t \in 1 .. Len(fruit) : fruit'[t] = fruit[t]
      /\ fruit'[Len(fruit) + 1] = ids
  BY <1>1, <1>2, <1>6, AppendProperties
<1>8. s \in Nat \ {0} /\ Len(fruit) \in Nat /\ Len(fruit') = s
  <2>1. Cardinality(Segments) \in Nat /\ Segments = 1 .. Cardinality(Segments)
    BY BucketCollectorAssumption, FS_CardinalityType
  <2>2. s \in Nat \ {0}
    BY <2>1
  <2>3. Len(fruit) \in Nat
    BY <1>1, LenProperties
  <2>4. QED
    BY <1>3, <1>7, <2>2, <2>3
<1>9. \A t \in 1 .. Len(fruit') :
        t \in Segments /\ IsFruit(doc, TopN, ConsideredOf(t), fruit'[t])
  <2>1. ASSUME NEW t \in 1 .. Len(fruit')
        PROVE  t \in Segments /\ IsFruit(doc, TopN, ConsideredOf(t), fruit'[t])
    <3>1. CASE t = s
      BY <1>3, <1>5, <1>7, <1>8, <3>1
    <3>2. CASE t /= s
      <4>1. t \in 1 .. Len(fruit)
        BY <1>3, <1>8, <3>2
      <4>2. QED
        BY <1>1, <1>7, <4>1
    <3>3. QED
      BY <3>1, <3>2
  <2>2. QED
    BY <2>1
<1>10. Given' /\ RankInv'
  BY <1>1, <1>3, <1>4 DEF Given, RankInv
<1>11. CASE s + 1 \in Segments
  <2>1. \A t \in Segments : Collecting(t)'
    BY <1>1, <1>3, <1>4 DEF Collecting
  <2>2. SegmentInv'
    BY <1>1, <1>3, <1>4, <1>7, <1>9, <2>1 DEF SegmentInv
  <2>3. MergeInv'
    BY <1>3, <1>11 DEF MergeInv
  <2>4. QED
    BY <1>10, <2>2, <2>3 DEF IInv
<1>12. CASE s + 1 \notin Segments
  <2>1. phase' = "merge"
    BY <1>3, <1>12
  <2>2. 1 .. Len(fruit') = Segments
    <3>1. Cardinality(Segments) \in Nat /\ Segments = 1 .. Cardinality(Segments)
      BY BucketCollectorAssumption, FS_CardinalityType
    <3>2. s = Cardinality(Segments)
      BY <1>8, <1>12, <3>1
    <3>3. QED
      BY <1>8, <3>1, <3>2
  <2>3. \A t \in Segments : IsFruit(doc, TopN, ConsideredOf(t), fruit'[t])
    BY <1>9, <2>2
  <2>4. PICK f : f = fruit'
    OBVIOUS
  <2>5. NoneTwice(f) /\ IsHanded(doc, TopN, Considered, LeftIn(f))
    BY <1>1, <1>7, <2>2, <2>3, <2>4, FruitsAreHanded
  <2>6. PICK handed : handed = LeftIn(f)
    OBVIOUS
  <2>7. BestHeap(doc, TopN, heap, handed \ LeftIn(f))
    <3>1. handed \ LeftIn(f) = {}
      BY <2>6
    <3>2. QED
      BY <1>1, <3>1, EmptyIsBest
  <2>8. Merging(handed)'
    BY <1>3, <1>4, <2>4, <2>5, <2>6, <2>7 DEF Merging
  <2>9. MergeInv'
    BY <1>1, <1>3, <1>7, <2>4, <2>5, <2>8 DEF MergeInv
  <2>10. SegmentInv'
    BY <2>1 DEF SegmentInv
  <2>11. QED
    BY <1>10, <2>9, <2>10 DEF IInv
<1>13. QED
  BY <1>11, <1>12

----------------------------------------------------------------------------
\* Merging.
Stands(f, a, i, y) == a \in 1 .. Len(f) /\ i \in 1 .. Len(f[a]) /\ f[a][i] = y

\* No document comes twice in the fruits.
LEMMA TwiceIsOnce ==
  ASSUME NEW f, NoneTwice(f), NEW a, NEW b, NEW i, NEW k, NEW y,
         Stands(f, a, i, y), Stands(f, b, k, y)
  PROVE  a = b /\ i = k
  BY DEF NoneTwice, Stands

\* What is left in the fruits.
LEMMA IsLeftIn ==
  ASSUME NEW f, NEW a \in 1 .. Len(f), NEW i \in 1 .. Len(f[a])
  PROVE  f[a][i] \in LeftIn(f)
<1>1. f[a][i] \in Held(f[a])
  BY DEF Held
<1>2. QED
  BY <1>1 DEF LeftIn

LEMMA EmptyFruit ==
  ASSUME NEW f \in Seq(Seq(Docs)), f /= <<>>, Head(f) = <<>>, NoneTwice(f)
  PROVE  Tail(f) \in Seq(Seq(Docs)) /\ NoneTwice(Tail(f)) /\ LeftIn(Tail(f)) = LeftIn(f)
<1>1. PICK g \in Seq(Seq(Docs)) : g = Tail(f)
  BY HeadTailProperties
<1>2. /\ Len(f) \in Nat \ {0} /\ Len(g) = Len(f) - 1
      /\ \A i \in 1 .. Len(g) : g[i] = f[i + 1]
  BY <1>1, HeadTailProperties, EmptySeq
<1>3. f[1] = <<>>
  OBVIOUS
<1>4. \A i \in 1 .. Len(g) : i + 1 \in 1 .. Len(f)
  BY <1>2
<1>5. NoneTwice(g)
  <2> SUFFICES ASSUME NEW a \in 1 .. Len(g), NEW b \in 1 .. Len(g),
                      NEW i \in 1 .. Len(g[a]), NEW k \in 1 .. Len(g[b]), g[a][i] = g[b][k]
               PROVE  a = b /\ i = k
    BY DEF NoneTwice
  <2>1. /\ a + 1 \in 1 .. Len(f) /\ b + 1 \in 1 .. Len(f)
        /\ g[a] = f[a + 1] /\ g[b] = f[b + 1]
    BY <1>2, <1>4
  <2>2. Stands(f, a + 1, i, g[a][i]) /\ Stands(f, b + 1, k, g[a][i])
    BY <2>1 DEF Stands
  <2>3. a + 1 = b + 1 /\ i = k
    BY <2>2, TwiceIsOnce
  <2>4. QED
    BY <1>2, <2>3
<1>6. LeftIn(g) = LeftIn(f)
  <2>1. ASSUME NEW x \in LeftIn(g) PROVE x \in LeftIn(f)
    <3>1. PICK a \in 1 .. Len(g) : x \in Held(g[a])
      BY <2>1 DEF LeftIn
    <3>2. a + 1 \in 1 .. Len(f) /\ x \in Held(f[a + 1])
      BY <1>2, <1>4, <3>1
    <3>3. QED
      BY <3>2 DEF LeftIn
  <2>2. ASSUME NEW x \in LeftIn(f) PROVE x \in LeftIn(g)
    <3>1. PICK a \in 1 .. Len(f) : x \in Held(f[a])
      BY <2>2 DEF LeftIn
    <3>2. a /= 1
      <4>1. Held(<<>>) = {}
        BY EmptySeq DEF Held
      <4>2. QED
        BY <1>3, <3>1, <4>1
    <3>3. a - 1 \in 1 .. Len(g) /\ (a - 1) + 1 = a
      BY <1>2, <3>2
    <3>4. x \in Held(g[a - 1])
      BY <1>2, <3>1, <3>3
    <3>5. QED
      BY <3>3, <3>4 DEF LeftIn
  <2>3. QED
    BY <2>1, <2>2
<1>7. QED
  BY <1>1, <1>5, <1>6

LEMMA FirstOfFruit ==
  ASSUME NEW f \in Seq(Seq(Docs)), f /= <<>>, Head(f) /= <<>>, NoneTwice(f),
         NEW x, x = Head(Head(f)), NEW g, g = <<Tail(Head(f))>> \o Tail(f)
  PROVE  /\ g \in Seq(Seq(Docs)) /\ NoneTwice(g)
         /\ x \in Docs /\ x \in LeftIn(f) /\ LeftIn(g) = LeftIn(f) \ {x}
<1>1. PICK first \in Seq(Docs) : first = Head(f)
  BY HeadTailProperties
<1>2. PICK rest \in Seq(Seq(Docs)) : rest = Tail(f)
  BY HeadTailProperties
<1>3. /\ Len(f) \in Nat \ {0} /\ Len(rest) = Len(f) - 1 /\ f[1] = first
      /\ \A i \in 1 .. Len(rest) : rest[i] = f[i + 1]
  BY <1>1, <1>2, HeadTailProperties, EmptySeq
<1>4. PICK short \in Seq(Docs) : short = Tail(first)
  BY <1>1, HeadTailProperties
<1>5. /\ Len(first) \in Nat \ {0} /\ Len(short) = Len(first) - 1
      /\ x = first[1] /\ x \in Docs
      /\ \A i \in 1 .. Len(short) : short[i] = first[i + 1]
  BY <1>1, <1>4, HeadTailProperties, EmptySeq
<1>6. PICK one : one \in Seq(Seq(Docs)) /\ one = <<short>> /\ Len(one) = 1 /\ one[1] = short
  <2>1. <<short>> \in Seq(Seq(Docs)) /\ Len(<<short>>) = 1 /\ <<short>>[1] = short
    OBVIOUS
  <2>2. QED
    BY <2>1, Zenon
<1>7. g = one \o rest
  BY <1>1, <1>2, <1>4, <1>6
<1>8. /\ g \in Seq(Seq(Docs)) /\ Len(g) = 1 + Len(rest)
      /\ \A i \in 1 .. 1 + Len(rest) : g[i] = IF i <= 1 THEN one[i] ELSE rest[i - 1]
  <2>1. ASSUME NEW S, one \in Seq(S), rest \in Seq(S)
        PROVE  /\ g \in Seq(S) /\ Len(g) = Len(one) + Len(rest)
               /\ \A i \in 1 .. Len(one) + Len(rest) :
                    g[i] = IF i <= Len(one) THEN one[i] ELSE rest[i - Len(one)]
    <3>1. /\ one \o rest \in Seq(S) /\ Len(one \o rest) = Len(one) + Len(rest)
          /\ \A i \in 1 .. Len(one) + Len(rest) :
               (one \o rest)[i] = IF i <= Len(one) THEN one[i] ELSE rest[i - Len(one)]
      BY <2>1, ConcatProperties
    <3>2. QED
      BY <1>7, <3>1
  <2>2. /\ g \in Seq(Seq(Docs)) /\ Len(g) = Len(one) + Len(rest)
        /\ \A i \in 1 .. Len(one) + Len(rest) :
             g[i] = IF i <= Len(one) THEN one[i] ELSE rest[i - Len(one)]
    BY <1>6, <2>1, Zenon
  <2>3. QED
    BY <1>6, <2>2
<1>9. Len(g) = Len(f) /\ g[1] = short /\ \A i \in 2 .. Len(f) : g[i] = f[i]
  <2>1. Len(g) = Len(f) /\ g[1] = short
    BY <1>3, <1>6, <1>8
  <2>2. ASSUME NEW i \in 2 .. Len(f) PROVE g[i] = f[i]
    <3>1. i - 1 \in 1 .. Len(rest) /\ (i - 1) + 1 = i /\ ~(i <= 1) /\ i \in 1 .. 1 + Len(rest)
      BY <1>3
    <3>2. QED
      BY <1>3, <1>8, <3>1
  <2>3. QED
    BY <2>1, <2>2
\* Where an element of g stands in f.
<1> DEFINE At(a, i) == IF a = 1 THEN i + 1 ELSE i
<1>10. ASSUME NEW a \in 1 .. Len(g), NEW i \in 1 .. Len(g[a])
       PROVE  /\ At(a, i) \in 1 .. Len(f[a]) /\ f[a][At(a, i)] = g[a][i]
              /\ a \in 1 .. Len(f) /\ (a = 1 => At(a, i) /= 1)
  <2>1. CASE a = 1
    <3>1. i \in 1 .. Len(short) /\ i + 1 \in 1 .. Len(first) /\ i + 1 /= 1
      BY <1>5, <1>9, <2>1
    <3>2. short[i] = first[i + 1]
      BY <1>5, <3>1
    <3>3. QED
      BY <1>3, <1>9, <2>1, <3>1, <3>2
  <2>2. CASE a /= 1
    <3>1. a \in 2 .. Len(f)
      BY <1>3, <1>9, <2>2
    <3>2. QED
      BY <1>9, <2>2, <3>1
  <2>3. QED
    BY <2>1, <2>2
<1>11. NoneTwice(g)
  <2> SUFFICES ASSUME NEW a \in 1 .. Len(g), NEW b \in 1 .. Len(g),
                      NEW i \in 1 .. Len(g[a]), NEW k \in 1 .. Len(g[b]), g[a][i] = g[b][k]
               PROVE  a = b /\ i = k
    BY DEF NoneTwice
  <2>1. /\ At(a, i) \in 1 .. Len(f[a]) /\ f[a][At(a, i)] = g[a][i]
        /\ At(b, k) \in 1 .. Len(f[b]) /\ f[b][At(b, k)] = g[b][k]
        /\ a \in 1 .. Len(f) /\ b \in 1 .. Len(f)
    <3> HIDE DEF At
    <3>1. QED
      BY <1>10
  <2>2. a = b /\ At(a, i) = At(b, k)
    <3> HIDE DEF At
    <3>1. Stands(f, a, At(a, i), g[a][i]) /\ Stands(f, b, At(b, k), g[a][i])
      BY <2>1 DEF Stands
    <3>2. QED
      BY <3>1, TwiceIsOnce
  <2>3. Len(g[a]) \in Nat /\ Len(g[b]) \in Nat
    BY <1>8, ElementOfSeq, LenProperties
  <2>4. QED
    BY <2>2, <2>3
<1>12. ASSUME NEW y \in LeftIn(g) PROVE y \in LeftIn(f) /\ y /= x
  <2>1. PICK a \in 1 .. Len(g) : y \in Held(g[a])
    BY <1>12 DEF LeftIn
  <2>2. PICK i \in 1 .. Len(g[a]) : y = g[a][i]
    BY <2>1 DEF Held
  <2>3. /\ At(a, i) \in 1 .. Len(f[a]) /\ f[a][At(a, i)] = y
        /\ a \in 1 .. Len(f) /\ (a = 1 => At(a, i) /= 1)
    <3> HIDE DEF At
    <3>1. QED
      BY <1>10, <2>2
  <2> HIDE DEF At
  <2>4. y \in LeftIn(f)
    BY <2>3, IsLeftIn
  <2>5. 1 \in 1 .. Len(f) /\ 1 \in 1 .. Len(f[1]) /\ f[1][1] = x
    BY <1>3, <1>5
  <2>6. y /= x
    <3>1. Stands(f, a, At(a, i), y) /\ Stands(f, 1, 1, x)
      BY <2>3, <2>5 DEF Stands
    <3>2. QED
      BY <2>3, <3>1, TwiceIsOnce, SMTT(30)
  <2>7. QED
    BY <2>4, <2>6
<1>13. ASSUME NEW y \in LeftIn(f), y /= x PROVE y \in LeftIn(g)
  <2>1. PICK a \in 1 .. Len(f) : y \in Held(f[a])
    BY <1>13 DEF LeftIn
  <2>2. PICK i \in 1 .. Len(f[a]) : y = f[a][i]
    BY <2>1 DEF Held
  <2>3. CASE a = 1
    <3>1. i /= 1 /\ i \in 1 .. Len(first) /\ y = first[i]
      BY <1>3, <1>5, <1>13, <2>2, <2>3
    <3>2. i - 1 \in 1 .. Len(short) /\ (i - 1) + 1 = i
      BY <1>5, <3>1
    <3>3. y = short[i - 1]
      BY <1>5, <3>1, <3>2
    <3>4. y \in Held(g[1])
      BY <1>9, <3>2, <3>3 DEF Held
    <3>5. 1 \in 1 .. Len(g)
      BY <1>3, <1>9
    <3>6. QED
      BY <3>4, <3>5 DEF LeftIn
  <2>4. CASE a /= 1
    <3>1. a \in 2 .. Len(f) /\ a \in 1 .. Len(g)
      BY <1>3, <1>9, <2>4
    <3>2. y \in Held(g[a])
      BY <1>9, <2>1, <3>1
    <3>3. QED
      BY <3>1, <3>2 DEF LeftIn
  <2>5. QED
    BY <2>3, <2>4
<1>14. x \in LeftIn(f)
  <2>1. 1 \in 1 .. Len(f) /\ 1 \in 1 .. Len(f[1]) /\ f[1][1] = x
    BY <1>3, <1>5
  <2>2. QED
    BY <2>1, IsLeftIn
<1>15. QED
  BY <1>5, <1>8, <1>11, <1>12, <1>13, <1>14

\* Before anything is counted, the largest of the heap leads.
LEMMA LargestLeads ==
  ASSUME Given, NEW h, Fresh(doc, h), DOMAIN h \subseteq Docs, NEW i \in Largest(h)
  PROVE  Leads(doc, NoCounts, h, i)
<1>1. i \in DOMAIN h /\ \A k \in DOMAIN h : Sorted(h, i, k)
  BY DEF Largest
<1>2. QED
  BY <1>1 DEF Leads, Sorted, Fresh

\* When the last fruit is merged, the ranking begins with nothing shown.
LEMMA MergeEnds ==
  ASSUME Given, NEW handed, IsHanded(doc, TopN, Considered, handed),
         BestHeap(doc, TopN, heap, handed), count = NoCounts, res = <<>>, phase /= "adjust"
  PROVE  Ranked(handed, DOMAIN heap)
<1>1. Fresh(doc, heap) /\ AreTheBest(doc, DOMAIN heap, handed, TopN + 1)
  BY DEF BestHeap
<1>2. DOMAIN heap \subseteq Docs
  BY <1>1, GivenFacts DEF AreTheBest, IsHanded
<1>3. Len(res) = 0 /\ Held(res) = {} /\ Unrepeated(res) /\ res \in Seq(DOMAIN heap)
  <2>1. Len(res) = 0 /\ res \in Seq(DOMAIN heap)
    BY EmptySeq
  <2>2. QED
    BY <2>1 DEF Held, Unrepeated
<1>4. count \in [Hashes -> Nat]
  BY DEF NoCounts
<1>5. ASSUME NEW d \in DOMAIN heap
      PROVE  heap[d] \in Nat \ {0} /\ heap[d] <= AdjustScore(count, doc[d])
  <2>1. doc[d] \in Pages
    BY <1>2, GivenFacts
  <2>2. heap[d] = AdjustScore(count, doc[d]) /\ AdjustScore(count, doc[d]) = 84
    BY <1>1, <2>1, FirstDivisor DEF Fresh
  <2>3. QED
    BY <2>2
<1>6. Keeping(DOMAIN heap)
  <2>1. Len(res) <= TopN
    BY <1>3, GivenFacts
  <2>2. DOMAIN heap = DOMAIN heap \ Held(res)
    BY <1>3
  <2>3. QED
    BY <1>3, <1>4, <1>5, <2>1, <2>2 DEF Keeping
<1>7. DeRanking(DOMAIN heap)
  <2>1. CountsAfter(doc, res, 0) = NoCounts
    BY CountsAfterFacts
  <2>2. GreedySoFar(doc, res, DOMAIN heap)
    BY <1>3 DEF GreedySoFar
  <2>3. QED
    BY <1>3, <2>1, <2>2 DEF DeRanking
<1>8. PlainRanking
  BY <1>1, <1>3 DEF PlainRanking, Falling
<1>9. QED
  BY <1>1, <1>6, <1>7, <1>8 DEF Ranked

\* Merging a document of a fruit, or dropping an empty fruit.
LEMMA MergeStep ==
  ASSUME IInv, Merge
  PROVE  IInv'
<1>1. /\ Given /\ fruit \in Seq(Seq(Docs)) /\ NoneTwice(fruit)
      /\ best = {} /\ count = NoCounts /\ res = <<>> /\ phase = "merge"
  BY DEF IInv, MergeInv, Merge
<1>2. PICK handed : Merging(handed)
  BY DEF IInv, MergeInv, Merge
<1>3. UNCHANGED <<request, best, count, res>>
  BY DEF Merge
<1>4. doc' = doc /\ top' = top /\ TopN' = TopN /\ Considered' = Considered
  BY <1>3, SameRequest
<1>5. /\ IsHanded(doc, TopN, Considered, handed) /\ LeftIn(fruit) \subseteq handed
      /\ BestHeap(doc, TopN, heap, handed \ LeftIn(fruit))
      /\ handed \subseteq Docs
  BY <1>1, <1>2, GivenFacts DEF Merging, IsHanded
<1>6. CASE fruit = <<>>
  <2>1. phase' = "pop" /\ fruit' = fruit /\ heap' = heap
    BY <1>6 DEF Merge
  <2>2. LeftIn(fruit) = {}
    <3>1. Len(fruit) = 0
      BY <1>6, EmptySeq
    <3>2. QED
      BY <3>1 DEF LeftIn
  <2>3. BestHeap(doc, TopN, heap, handed)
    <3>1. handed \ LeftIn(fruit) = handed
      BY <2>2
    <3>2. QED
      BY <1>5, <3>1
  <2>4. PICK kept : kept = DOMAIN heap
    OBVIOUS
  <2>5. Ranked(handed, kept)
    BY <1>1, <1>5, <2>3, <2>4, MergeEnds
  <2>6. Ranked(handed, kept)'
    BY <1>3, <1>4, <2>1, <2>5 DEF Ranked, Keeping, DeRanking, PlainRanking
  <2>7. ASSUME NEW i \in Picks' PROVE Leads(doc', count', heap', i)
    <3>1. i \in Largest(heap)
      BY <1>1, <1>3, <1>4, <2>1, <2>7 DEF Picks, Largest, Sorted
    <3>2. Fresh(doc, heap) /\ DOMAIN heap \subseteq Docs
      BY <1>5, <2>3 DEF BestHeap, AreTheBest
    <3>3. Leads(doc, NoCounts, heap, i)
      BY <1>1, <3>1, <3>2, LargestLeads
    <3>4. QED
      BY <1>1, <1>3, <1>4, <2>1, <3>3
  <2>8. RankInv'
    BY <2>1, <2>6, <2>7 DEF RankInv
  <2>9. Given' /\ SegmentInv' /\ MergeInv'
    BY <1>1, <1>4, <2>1 DEF Given, SegmentInv, MergeInv
  <2>10. QED
    BY <2>8, <2>9 DEF IInv
<1>7. ASSUME fruit /= <<>>, phase' = "merge", fruit' \in Seq(Seq(Docs)), NoneTwice(fruit'),
             LeftIn(fruit') \subseteq handed,
             BestHeap(doc, TopN, heap', handed \ LeftIn(fruit'))
      PROVE  IInv'
  <2>1. Merging(handed)'
    BY <1>4, <1>5, <1>7 DEF Merging
  <2>2. MergeInv'
    BY <1>1, <1>3, <1>7, <2>1 DEF MergeInv
  <2>3. Given' /\ SegmentInv' /\ RankInv'
    BY <1>1, <1>4, <1>7 DEF Given, SegmentInv, RankInv
  <2>4. QED
    BY <2>2, <2>3 DEF IInv
<1>8. CASE fruit /= <<>> /\ Head(fruit) = <<>>
  <2>1. fruit' = Tail(fruit) /\ heap' = heap /\ phase' = phase
    BY <1>8 DEF Merge
  <2>2. /\ Tail(fruit) \in Seq(Seq(Docs)) /\ NoneTwice(Tail(fruit))
        /\ LeftIn(Tail(fruit)) = LeftIn(fruit)
    BY <1>1, <1>8, EmptyFruit
  <2>3. QED
    BY <1>1, <1>5, <1>7, <1>8, <2>1, <2>2
<1>9. CASE fruit /= <<>> /\ Head(fruit) /= <<>>
  <2>1. PICK x : x = Head(Head(fruit))
    OBVIOUS
  <2>2. PICK g : g = <<Tail(Head(fruit))>> \o Tail(fruit)
    OBVIOUS
  <2>3. /\ g \in Seq(Seq(Docs)) /\ NoneTwice(g)
        /\ x \in Docs /\ x \in LeftIn(fruit) /\ LeftIn(g) = LeftIn(fruit) \ {x}
    BY <1>1, <1>9, <2>1, <2>2, FirstOfFruit
  <2>4. PICK h \in Inserted(heap, x) : heap' = h
    BY <1>9, <2>1 DEF Merge
  <2>5. fruit' = g /\ phase' = phase
    BY <1>9, <2>2 DEF Merge
  <2>6. BestHeap(doc, TopN, h, (handed \ LeftIn(fruit)) \cup {x})
    <3>1. x \notin handed \ LeftIn(fruit) /\ handed \ LeftIn(fruit) \subseteq Docs
      BY <1>5, <2>3
    <3>2. QED
      BY <1>1, <1>5, <2>3, <2>4, <3>1, InsertedIsBest
  <2>7. handed \ LeftIn(g) = (handed \ LeftIn(fruit)) \cup {x}
    BY <1>5, <2>3
  <2>8. BestHeap(doc, TopN, heap', handed \ LeftIn(fruit'))
    BY <2>4, <2>5, <2>6, <2>7
  <2>9. QED
    BY <1>1, <1>5, <1>7, <1>9, <2>3, <2>5, <2>8
<1>10. QED
  BY <1>6, <1>8, <1>9

----------------------------------------------------------------------------
\* Ranking.
LEMMA UpdateFacts ==
  ASSUME NEW c \in [Hashes -> Nat], NEW d
  PROVE  /\ UpdateCounts(c, d) \in [Hashes -> Nat]
         /\ \A h \in Hashes : c[h] <= UpdateCounts(c, d)[h]
<1>1. IsFiniteSet({"site", "url", "title"})
  <2>1. IsFiniteSet({"site"}) /\ IsFiniteSet({"url"}) /\ IsFiniteSet({"title"})
    BY FS_Singleton
  <2>2. IsFiniteSet({"site"} \cup {"url"})
    BY <2>1, FS_Union
  <2>3. IsFiniteSet(({"site"} \cup {"url"}) \cup {"title"})
    BY <2>1, <2>2, FS_Union
  <2>4. ({"site"} \cup {"url"}) \cup {"title"} = {"site", "url", "title"}
    OBVIOUS
  <2>5. QED
    BY <2>3, <2>4
<1>2. ASSUME NEW h \in Hashes
      PROVE  Cardinality({f \in {"site", "url", "title"} : d[f] = h}) \in Nat
  <2>1. PICK T \in SUBSET {"site", "url", "title"} :
          T = {f \in {"site", "url", "title"} : d[f] = h}
    OBVIOUS
  <2>2. IsFiniteSet(T)
    BY <1>1, FS_Subset
  <2>3. QED
    BY <2>1, <2>2, FS_CardinalityType
<1>3. ASSUME NEW h \in Hashes
      PROVE  UpdateCounts(c, d)[h] \in Nat /\ c[h] <= UpdateCounts(c, d)[h]
  <2>1. PICK n \in Nat : n = Cardinality({f \in {"site", "url", "title"} : d[f] = h})
    BY <1>2
  <2>2. UpdateCounts(c, d)[h] = c[h] + n
    BY <2>1 DEF UpdateCounts
  <2>3. QED
    BY <2>2
<1>4. UpdateCounts(c, d) = [h \in Hashes |-> UpdateCounts(c, d)[h]]
  BY DEF UpdateCounts
<1>5. QED
  BY <1>3, <1>4

\* What it is to show one more document.
IsOneMore(seq, x, more) == more = Append(seq, x)
OneMore(seq, x, more, K) ==
  /\ more \in Seq(K) /\ Unrepeated(more) /\ Held(more) = Held(seq) \cup {x}
  /\ Len(seq) \in Nat /\ Len(more) = Len(seq) + 1 /\ more[Len(seq) + 1] = x
  /\ \A i \in 1 .. Len(seq) : more[i] = seq[i]

\* What becomes of the ranking.
LEMMA OneMoreShown ==
  ASSUME NEW K, NEW seq, seq \in Seq(K), Unrepeated(seq), NEW x, x \in K, x \notin Held(seq),
         NEW more, IsOneMore(seq, x, more)
  PROVE  OneMore(seq, x, more, K)
<1>0. more = Append(seq, x)
  BY DEF IsOneMore
<1>1. /\ more \in Seq(K) /\ Len(more) = Len(seq) + 1 /\ more[Len(seq) + 1] = x
      /\ \A i \in 1 .. Len(seq) : more[i] = seq[i]
      /\ Len(seq) \in Nat
  BY <1>0, AppendProperties, LenProperties
<1>2. \A i \in 1 .. Len(more) : i \in 1 .. Len(seq) \/ i = Len(seq) + 1
  BY <1>1
<1>3. \A i \in 1 .. Len(seq) : seq[i] /= x
  BY DEF Held
<1>4. Unrepeated(more)
  BY <1>1, <1>2, <1>3 DEF Unrepeated
<1>5. Held(more) = Held(seq) \cup {x}
  <2>1. \A i \in 1 .. Len(seq) : i \in 1 .. Len(more)
    BY <1>1
  <2>2. Len(seq) + 1 \in 1 .. Len(more)
    BY <1>1
  <2>3. \A y \in Held(more) : y \in Held(seq) \cup {x}
    BY <1>1, <1>2 DEF Held
  <2>4. \A y \in Held(seq) : y \in Held(more)
    BY <1>1, <2>1 DEF Held
  <2>5. x \in Held(more)
    BY <1>1, <2>2 DEF Held
  <2>6. QED
    BY <2>3, <2>4, <2>5
<1>6. QED
  BY <1>1, <1>4, <1>5 DEF OneMore

\* What is counted with one more shown.
LEMMA OneMoreCounted ==
  ASSUME NEW doc1, NEW K, NEW seq, NEW x, NEW more, OneMore(seq, x, more, K)
  PROVE  CountsAfter(doc1, more, Len(more)) = UpdateCounts(CountsAfter(doc1, seq, Len(seq)), doc1[x])
<1>1. /\ Len(seq) \in Nat /\ Len(more) = Len(seq) + 1 /\ x = more[Len(more)]
      /\ AlikeUpTo(Len(seq), seq, more)
  BY DEF OneMore, AlikeUpTo
<1>2. QED
  BY <1>1, CountsAfterNext

\* A greedy ranking goes on with the document that no other one exceeds.
LEMMA GreedyGoesOn ==
  ASSUME NEW doc1, NEW kept, NEW shown \in Seq(kept), GreedySoFar(doc1, shown, kept),
         NEW x \in kept \ Held(shown), NEW c, c = CountsAfter(doc1, shown, Len(shown)),
         \A d \in kept \ Held(shown) : ~Exceeds(doc1[d], AdjustScore(c, doc1[d]),
                                                doc1[x], AdjustScore(c, doc1[x])),
         NEW more, more = Append(shown, x)
  PROVE  GreedySoFar(doc1, more, kept)
<1>1. /\ Len(more) = Len(shown) + 1 /\ more[Len(shown) + 1] = x /\ Len(shown) \in Nat
      /\ \A i \in 1 .. Len(shown) : more[i] = shown[i]
  BY AppendProperties, LenProperties
<1>2. ASSUME NEW i \in 1 .. Len(more)
      PROVE  LET before == {more[k] : k \in 1 .. i - 1}
                 counted == CountsAfter(doc1, more, i - 1)
             IN  /\ more[i] \in kept \ before
                 /\ \A d \in kept \ before :
                      ~Exceeds(doc1[d], AdjustScore(counted, doc1[d]),
                               doc1[more[i]], AdjustScore(counted, doc1[more[i]]))
  <2>1. i - 1 \in Nat /\ \A k \in 1 .. i - 1 : k \in 1 .. Len(shown)
    BY <1>1
  <2>2. {more[k] : k \in 1 .. i - 1} = {shown[k] : k \in 1 .. i - 1}
    BY <1>1, <2>1
  <2>3. CountsAfter(doc1, more, i - 1) = CountsAfter(doc1, shown, i - 1)
    BY <1>1, <2>1, CountsAfterFacts
  <2>4. CASE i \in 1 .. Len(shown)
    <3>1. more[i] = shown[i]
      BY <1>1, <2>4
    <3>2. LET before == {shown[k] : k \in 1 .. i - 1}
              counted == CountsAfter(doc1, shown, i - 1)
          IN  /\ shown[i] \in kept \ before
              /\ \A d \in kept \ before :
                   ~Exceeds(doc1[d], AdjustScore(counted, doc1[d]),
                            doc1[shown[i]], AdjustScore(counted, doc1[shown[i]]))
      BY <2>4 DEF GreedySoFar
    <3>3. QED
      BY <2>2, <2>3, <3>1, <3>2
  <2>5. CASE i = Len(shown) + 1
    <3>1. i - 1 = Len(shown) /\ more[i] = x
      BY <1>1, <2>5
    <3>2. {shown[k] : k \in 1 .. i - 1} = Held(shown)
      BY <3>1 DEF Held
    <3>3. CountsAfter(doc1, shown, i - 1) = c
      BY <3>1
    <3>4. QED
      BY <2>2, <2>3, <3>1, <3>2, <3>3
  <2>6. QED
    BY <1>1, <2>4, <2>5
<1>3. QED
  BY <1>2 DEF GreedySoFar

\* The only document of a heap leads.
LEMMA AloneLeads ==
  ASSUME NEW doc1, NEW c, NEW h, IsFiniteSet(DOMAIN h), Cardinality(DOMAIN h) <= 1,
         NEW i \in DOMAIN h, doc1[i].score * AdjustScore(c, doc1[i]) \in Nat
  PROVE  Leads(doc1, c, h, i)
<1>1. DOMAIN h = {i}
  <2>1. Cardinality(DOMAIN h) \in Nat /\ Cardinality(DOMAIN h) /= 0
    BY FS_CardinalityType, FS_EmptySet
  <2>2. Cardinality(DOMAIN h) = 1
    BY <2>1
  <2>3. PICK x : DOMAIN h = {x}
    BY <2>2, FS_Singleton
  <2>4. QED
    BY <2>3
<1>2. ~(doc1[i].score * AdjustScore(c, doc1[i]) > doc1[i].score * AdjustScore(c, doc1[i]))
  OBVIOUS
<1>3. QED
  BY <1>1, <1>2 DEF Leads, Exceeds

\* What is known of the documents kept.
LEMMA KeptFacts ==
  ASSUME Given, NEW handed, NEW kept, Ranked(handed, kept)
  PROVE  /\ kept \subseteq Docs /\ IsFiniteSet(kept) /\ DOMAIN heap \subseteq kept
         /\ IsFiniteSet(DOMAIN heap) /\ Cardinality(kept) \in Nat
         /\ Cardinality(kept) <= TopN + 1
         /\ \A d \in DOMAIN heap : doc[d] \in Pages
<1>1. kept \subseteq handed /\ handed \subseteq Considered /\ Considered \subseteq Docs
  BY GivenFacts DEF Ranked, AreTheBest, IsHanded
<1>2. IsFiniteSet(handed)
  BY <1>1, GivenFacts, SizeFacts
<1>3. IsFiniteSet(kept) /\ Cardinality(kept) \in Nat /\ Cardinality(handed) \in Nat
  BY <1>1, <1>2, SizeFacts
<1>4. Cardinality(kept) <= TopN + 1
  BY <1>3, GivenFacts DEF Ranked, AreTheBest
<1>5. DOMAIN heap \subseteq kept
  BY DEF Ranked, Keeping
<1>6. IsFiniteSet(DOMAIN heap)
  BY <1>3, <1>5, SizeFacts
<1>7. QED
  BY <1>1, <1>3, <1>4, <1>5, <1>6, GivenFacts

\* What is shown, what is left and what was counted when a leader is popped.
Popped(i) ==
  /\ doc' = doc /\ top' = top /\ TopN' = TopN /\ Considered' = Considered
  /\ res' = Append(res, i) /\ heap' = WithoutDoc(heap, i)
  /\ IF top.deRank THEN count' = UpdateCounts(count, doc[i])
     ELSE count' = count /\ phase' /= "adjust"

\* Showing a leader keeps the ranking greedy, or falling.
LEMMA PopShows ==
  ASSUME Given, NEW handed, NEW kept, Ranked(handed, kept), Len(res) /= TopN,
         NEW i, Leads(doc, count, heap, i), Popped(i)
  PROVE  Ranked(handed, kept)'
<1>0. /\ doc' = doc /\ top' = top /\ TopN' = TopN /\ Considered' = Considered
      /\ res' = Append(res, i) /\ heap' = WithoutDoc(heap, i)
      /\ IF top.deRank THEN count' = UpdateCounts(count, doc[i])
         ELSE count' = count /\ phase' /= "adjust"
  BY DEF Popped
<1>1. /\ IsHanded(doc, TopN, Considered, handed) /\ AreTheBest(doc, kept, handed, TopN + 1)
      /\ Keeping(kept) /\ DeRanking(kept) /\ PlainRanking
  BY DEF Ranked
<1>2. /\ res \in Seq(kept) /\ Unrepeated(res) /\ Len(res) <= TopN
      /\ DOMAIN heap = kept \ Held(res) /\ count \in [Hashes -> Nat]
      /\ \A d \in DOMAIN heap : heap[d] \in Nat \ {0} /\ heap[d] <= AdjustScore(count, doc[d])
  BY <1>1 DEF Keeping
<1>3. i \in DOMAIN heap /\ i \in kept /\ i \notin Held(res)
  BY <1>2 DEF Leads
<1>4. /\ res' \in Seq(kept) /\ Unrepeated(res') /\ Held(res') = Held(res) \cup {i}
      /\ Len(res) \in Nat /\ Len(res') = Len(res) + 1 /\ res'[Len(res) + 1] = i
      /\ \A k \in 1 .. Len(res) : res'[k] = res[k]
  <2>1. PICK more : more = res'
    OBVIOUS
  <2>2. more = Append(res, i)
    BY <1>0, <2>1
  <2>3. /\ more \in Seq(kept) /\ Unrepeated(more) /\ Held(more) = Held(res) \cup {i}
        /\ Len(res) \in Nat /\ Len(more) = Len(res) + 1 /\ more[Len(res) + 1] = i
        /\ \A k \in 1 .. Len(res) : more[k] = res[k]
    <3>1. IsOneMore(res, i, more)
      BY <2>2 DEF IsOneMore
    <3>2. OneMore(res, i, more, kept)
      BY <1>2, <1>3, <3>1, OneMoreShown
    <3>3. QED
      BY <3>2 DEF OneMore
  <2>4. QED
    BY <2>1, <2>3
<1>5. DOMAIN heap' = DOMAIN heap \ {i} /\ \A d \in DOMAIN heap' : heap'[d] = heap[d]
  BY <1>0 DEF WithoutDoc
<1>6. count' \in [Hashes -> Nat] /\ \A h \in Hashes : count[h] <= count'[h]
  <2>1. CASE top.deRank
    BY <1>0, <1>2, <2>1, UpdateFacts
  <2>2. CASE ~top.deRank
    BY <1>0, <1>2, <2>2
  <2>3. QED
    BY <2>1, <2>2
<1>7. Keeping(kept)'
  <2>1. Len(res') <= TopN'
    BY <1>0, <1>2, <1>4, GivenFacts
  <2>2. DOMAIN heap' = kept \ Held(res')
    BY <1>2, <1>4, <1>5
  <2>3. ASSUME NEW d \in DOMAIN heap'
        PROVE  heap'[d] \in Nat \ {0} /\ heap'[d] <= AdjustScore(count', doc'[d])
    <3>1. d \in DOMAIN heap /\ heap'[d] = heap[d]
      BY <1>5
    <3>2. doc[d] \in Pages
      BY <3>1, KeptFacts
    <3>3. PICK page \in Pages : page = doc[d]
      BY <3>2
    <3>4. /\ AdjustScore(count, page) \in Nat \ {0}
          /\ AdjustScore(count, page) <= AdjustScore(count', page)
      <4>1. PICK c \in [Hashes -> Nat], more \in [Hashes -> Nat] : c = count /\ more = count'
        BY <1>2, <1>6
      <4>2. \A h \in Hashes : c[h] <= more[h]
        BY <1>6, <4>1
      <4>3. /\ AdjustScore(c, page) \in Nat \ {0}
            /\ AdjustScore(c, page) <= AdjustScore(more, page)
        BY <4>2, AdjustFacts
      <4>4. QED
        BY <4>1, <4>3
    <3>5. AdjustScore(count', page) \in Nat \ {0}
      BY <1>6, AdjustFacts
    <3>6. heap[d] \in Nat \ {0} /\ heap[d] <= AdjustScore(count, page)
      BY <1>2, <3>1, <3>3
    <3>7. QED
      BY <1>0, <3>1, <3>3, <3>4, <3>5, <3>6
  <2>4. QED
    BY <1>4, <1>6, <2>1, <2>2, <2>3 DEF Keeping
<1>8. DeRanking(kept)'
  <2> SUFFICES ASSUME top.deRank
               PROVE  count' = CountsAfter(doc, res', Len(res')) /\ GreedySoFar(doc, res', kept)
    BY <1>0 DEF DeRanking
  <2>1. count = CountsAfter(doc, res, Len(res)) /\ GreedySoFar(doc, res, kept)
    BY <1>1 DEF DeRanking
  <2>2. PICK more : more = res'
    OBVIOUS
  <2>3. CountsAfter(doc, more, Len(more)) = UpdateCounts(CountsAfter(doc, res, Len(res)), doc[i])
    <3>1. OneMore(res, i, more, kept)
      BY <1>4, <2>2 DEF OneMore
    <3>2. QED
      BY <3>1, OneMoreCounted
  <2>4. count' = CountsAfter(doc, more, Len(more))
    BY <1>0, <2>1, <2>3
  <2>5. GreedySoFar(doc, more, kept)
    BY <1>0, <1>2, <1>3, <2>1, <2>2, GreedyGoesOn DEF Leads
  <2>6. QED
    BY <1>4, <2>2, <2>4, <2>5
<1>9. PlainRanking'
  <2> SUFFICES ASSUME ~top.deRank
               PROVE  /\ count' = NoCounts /\ Fresh(doc, heap') /\ phase' /= "adjust"
                      /\ Falling(doc, res', DOMAIN heap')
    BY <1>0 DEF PlainRanking
  <2>1. count = NoCounts /\ Fresh(doc, heap) /\ Falling(doc, res, DOMAIN heap)
    BY <1>1 DEF PlainRanking
  <2>2. Fresh(doc, heap')
    BY <1>5, <2>1 DEF Fresh
  <2>3. ASSUME NEW d \in DOMAIN heap PROVE doc[i].score >= doc[d].score
    <3>1. doc[i] \in Pages /\ doc[d] \in Pages
      BY <1>3, KeptFacts
    <3>2. ~Exceeds(doc[d], AdjustScore(NoCounts, doc[d]),
                   doc[i], AdjustScore(NoCounts, doc[i]))
      BY <2>1 DEF Leads
    <3>3. ~(doc[d].score > doc[i].score)
      BY <3>1, <3>2, ExceedsAtFirst
    <3>4. doc[d].score \in Nat /\ doc[i].score \in Nat
      BY <3>1, BucketCollectorAssumption
    <3>5. QED
      BY <3>3, <3>4
  <2>4. ASSUME NEW a \in 1 .. Len(res')
        PROVE  /\ \A k \in a + 1 .. Len(res') : doc[res'[a]].score >= doc[res'[k]].score
               /\ \A d \in DOMAIN heap' : doc[res'[a]].score >= doc[d].score
    <3>1. CASE a \in 1 .. Len(res)
      <4>1. /\ res'[a] = res[a]
            /\ \A k \in a + 1 .. Len(res) : doc[res[a]].score >= doc[res[k]].score
            /\ \A d \in DOMAIN heap : doc[res[a]].score >= doc[d].score
        BY <1>4, <2>1, <3>1 DEF Falling
      <4>2. \A k \in a + 1 .. Len(res') : k \in a + 1 .. Len(res) \/ k = Len(res) + 1
        BY <1>4
      <4>3. \A k \in a + 1 .. Len(res) : k \in 1 .. Len(res)
        BY <3>1
      <4>4. QED
        BY <1>3, <1>4, <1>5, <4>1, <4>2, <4>3
    <3>2. CASE a = Len(res) + 1
      <4>1. a + 1 .. Len(res') = {}
        BY <1>4, <3>2
      <4>2. QED
        BY <1>4, <1>5, <2>3, <3>2, <4>1
    <3>3. QED
      BY <1>4, <3>1, <3>2
  <2>5. QED
    BY <1>0, <2>1, <2>2, <2>4 DEF Falling
<1>10. QED
  BY <1>0, <1>1, <1>7, <1>8, <1>9 DEF Ranked

\* Showing a document: with similar ones pushed back or not, or at the end.
LEMMA PopStep ==
  ASSUME IInv, Pop
  PROVE  IInv'
<1>1. /\ Given /\ phase = "pop" /\ \A i \in Picks : Leads(doc, count, heap, i)
      /\ best' = {} /\ UNCHANGED <<request, segments>>
  BY DEF IInv, RankInv, Pop
<1>2. PICK handed, kept : Ranked(handed, kept)
  BY DEF IInv, RankInv, Pop
<1>3. doc' = doc /\ top' = top /\ TopN' = TopN /\ Considered' = Considered
  BY <1>1, SameRequest
<1>4. CASE DOMAIN heap = {} \/ Len(res) = TopN
  <2>1. phase' = "done" /\ UNCHANGED <<heap, count, res>>
    BY <1>4 DEF Pop
  <2>2. Ranked(handed, kept)'
    BY <1>2, <1>3, <2>1 DEF Ranked, Keeping, DeRanking, PlainRanking
  <2>3. RankInv'
    BY <1>3, <1>4, <2>1, <2>2 DEF RankInv
  <2>4. Given' /\ SegmentInv' /\ MergeInv'
    BY <1>1, <1>3, <2>1 DEF Given, SegmentInv, MergeInv
  <2>5. QED
    BY <2>3, <2>4 DEF IInv
<1>5. CASE ~(DOMAIN heap = {} \/ Len(res) = TopN)
  <2>1. PICK i \in Picks :
          /\ res' = Append(res, i) /\ heap' = WithoutDoc(heap, i)
          /\ IF top.deRank
             THEN /\ count' = UpdateCounts(count, doc[i])
                  /\ phase' = IF Cardinality(DOMAIN heap') > 1 THEN "adjust" ELSE "pop"
             ELSE UNCHANGED <<count, phase>>
    BY <1>5 DEF Pop, Picks
  <2>2. Leads(doc, count, heap, i)
    BY <1>1
  <2>3. phase' \in {"pop", "adjust"} /\ (~top.deRank => phase' = "pop")
    BY <1>1, <2>1
  <2>4. Ranked(handed, kept)'
    <3>1. Len(res) /= TopN
      BY <1>5
    <3>2. IF top.deRank THEN count' = UpdateCounts(count, doc[i])
          ELSE count' = count /\ phase' /= "adjust"
      BY <2>1, <2>3
    <3>3. Popped(i)
      BY <1>3, <2>1, <3>2 DEF Popped
    <3>4. QED
      BY <1>1, <1>2, <2>2, <3>1, <3>3, PopShows
  <2>5. /\ DOMAIN heap' \subseteq DOMAIN heap /\ DOMAIN heap \subseteq Docs
        /\ IsFiniteSet(DOMAIN heap') /\ \A d \in DOMAIN heap' : doc[d] \in Pages
    <3>1. DOMAIN heap' \subseteq DOMAIN heap
      BY <2>1 DEF WithoutDoc
    <3>2. QED
      BY <1>1, <1>2, <3>1, KeptFacts, FS_Subset
  <2>6. ASSUME phase' = "pop", NEW k \in Picks' PROVE Leads(doc', count', heap', k)
    <3>1. PICK h : h = heap'
      OBVIOUS
    <3>2. k \in Largest(h)
      BY <1>1, <1>3, <2>6, <3>1 DEF Picks, Largest, Sorted
    <3>3. k \in DOMAIN h
      BY <3>2 DEF Largest
    <3>4. CASE top.deRank
      <4>1. ~(Cardinality(DOMAIN heap') > 1)
        BY <2>1, <2>6, <3>4
      <4>2. Cardinality(DOMAIN heap') \in Nat
        BY <2>5, FS_CardinalityType
      <4>3. Cardinality(DOMAIN h) <= 1
        BY <3>1, <4>1, <4>2
      <4>4. PICK page \in Pages : page = doc[k]
        BY <2>5, <3>1, <3>3
      <4>5. count' \in [Hashes -> Nat]
        BY <2>4 DEF Ranked, Keeping
      <4>6. page.score \in Nat /\ AdjustScore(count', page) \in Nat \ {0}
        BY <4>5, AdjustFacts
      <4>7. PICK n \in Nat, m \in Nat : n = page.score /\ m = AdjustScore(count', page)
        BY <4>6
      <4>8. doc[k].score * AdjustScore(count', doc[k]) \in Nat
        BY <4>4, <4>7
      <4>9. Leads(doc, count', h, k)
        BY <2>5, <3>1, <3>3, <4>3, <4>8, AloneLeads
      <4>10. QED
        BY <1>3, <3>1, <4>9
    <3>5. CASE ~top.deRank
      <4>1. count' = NoCounts /\ Fresh(doc, h)
        BY <1>3, <2>4, <3>1, <3>5 DEF Ranked, PlainRanking
      <4>2. Leads(doc, NoCounts, h, k)
        BY <1>1, <2>5, <3>1, <3>2, <4>1, LargestLeads
      <4>3. QED
        BY <1>3, <3>1, <4>1, <4>2
    <3>6. QED
      BY <3>4, <3>5
  <2>7. RankInv'
    BY <2>3, <2>4, <2>6 DEF RankInv
  <2>8. Given' /\ SegmentInv' /\ MergeInv'
    BY <1>1, <1>3, <2>3 DEF Given, SegmentInv, MergeInv
  <2>9. QED
    BY <2>7, <2>8 DEF IInv
<1>6. QED
  BY <1>4, <1>5

\* One turn of update_best_doc, the last one or not.
LEMMA AdjustStep ==
  ASSUME IInv, Adjust
  PROVE  IInv'
<1>1. /\ Given /\ phase = "adjust" /\ UNCHANGED <<request, segments, count, res>>
  BY DEF IInv, Adjust
<1>2. PICK handed, kept : Ranked(handed, kept)
  BY DEF IInv, RankInv, Adjust
<1>3. doc' = doc /\ top' = top /\ TopN' = TopN /\ Considered' = Considered
  BY <1>1, SameRequest
<1>4. PICK i \in Largest(heap) :
        /\ heap' = [heap EXCEPT ![i] = AdjustScore(count, doc[i])]
        /\ IF doc[i].score * heap'[i] = doc[i].score * heap[i]
           THEN phase' = "pop" /\ best' = {i}
           ELSE UNCHANGED <<phase, best>>
  BY DEF Adjust
<1>5. i \in DOMAIN heap /\ \A d \in DOMAIN heap : Sorted(heap, i, d)
  BY DEF Largest
<1>6. /\ DOMAIN heap' = DOMAIN heap /\ heap'[i] = AdjustScore(count, doc[i])
      /\ \A d \in DOMAIN heap : d /= i => heap'[d] = heap[d]
  BY <1>4, <1>5
<1>7. phase' \in {"pop", "adjust"}
  BY <1>1, <1>4
<1>8. /\ count \in [Hashes -> Nat]
      /\ \A d \in DOMAIN heap : heap[d] \in Nat \ {0} /\ heap[d] <= AdjustScore(count, doc[d])
  BY <1>2 DEF Ranked, Keeping
<1>9. \A d \in DOMAIN heap : doc[d].score \in Nat /\ AdjustScore(count, doc[d]) \in Nat \ {0}
  <2>1. \A d \in DOMAIN heap : doc[d] \in Pages
    BY <1>1, <1>2, KeptFacts
  <2>2. QED
    BY <1>8, <2>1, AdjustFacts
<1>10. Ranked(handed, kept)'
  <2>1. \A d \in DOMAIN heap' : heap'[d] \in Nat \ {0} /\ heap'[d] <= AdjustScore(count, doc[d])
    <3>1. ASSUME NEW d \in DOMAIN heap
          PROVE  heap'[d] \in Nat \ {0} /\ heap'[d] <= AdjustScore(count, doc[d])
      <4>1. PICK n \in Nat \ {0} : n = AdjustScore(count, doc[d])
        BY <1>9
      <4>2. CASE d = i
        BY <1>6, <4>1, <4>2
      <4>3. CASE d /= i
        BY <1>6, <1>8, <4>3
      <4>4. QED
        BY <4>2, <4>3
    <3>2. QED
      BY <1>6, <3>1
  <2>2. Keeping(kept)'
    BY <1>1, <1>2, <1>3, <1>6, <2>1 DEF Ranked, Keeping
  <2>3. top.deRank
    BY <1>1, <1>2 DEF Ranked, PlainRanking
  <2>4. DeRanking(kept)' /\ PlainRanking'
    BY <1>1, <1>2, <1>3, <2>3 DEF Ranked, DeRanking, PlainRanking
  <2>5. QED
    BY <1>2, <1>3, <2>2, <2>4 DEF Ranked
<1>11. ASSUME phase' = "pop", NEW k \in Picks' PROVE Leads(doc', count', heap', k)
  <2>1. best' = {i} /\ doc[i].score * heap'[i] = doc[i].score * heap[i]
    BY <1>1, <1>4, <1>11
  <2>2. k = i
    BY <1>11, <2>1 DEF Picks
  <2>3. ASSUME NEW d \in DOMAIN heap
        PROVE  ~Exceeds(doc[d], AdjustScore(count, doc[d]), doc[i], AdjustScore(count, doc[i]))
    <3>1. PICK s \in Nat, t \in Nat : s = doc[i].score /\ t = doc[d].score
      BY <1>5, <1>9
    <3>2. PICK a \in Nat \ {0}, a1 \in Nat \ {0} :
            a = heap[i] /\ a1 = AdjustScore(count, doc[i])
      BY <1>5, <1>8, <1>9
    <3>3. PICK b \in Nat, b1 \in Nat : b = heap[d] /\ b1 = AdjustScore(count, doc[d])
      BY <1>8, <1>9
    <3>4. b <= b1 /\ s * a1 = s * a
      BY <1>6, <1>8, <2>1, <3>1, <3>2, <3>3
    <3>5. ~(t * a > s * b)
      BY <1>5, <3>1, <3>2, <3>3 DEF Sorted, Exceeds
    <3>6. ~(t * a1 > s * b1)
      BY <3>4, <3>5, StaleIsNoBetter
    <3>7. QED
      BY <3>1, <3>2, <3>3, <3>6 DEF Exceeds
  <2>4. Leads(doc, count, heap', i)
    BY <1>5, <1>6, <2>3 DEF Leads
  <2>5. QED
    BY <1>1, <1>3, <2>2, <2>4
<1>12. RankInv'
  BY <1>7, <1>10, <1>11 DEF RankInv
<1>13. Given' /\ SegmentInv' /\ MergeInv'
  BY <1>1, <1>3, <1>7 DEF Given, SegmentInv, MergeInv
<1>14. QED
  BY <1>12, <1>13 DEF IInv

----------------------------------------------------------------------------
\* Every step preserves it.
LEMMA InvStep ==
  ASSUME IInv, [Next]_vars
  PROVE  IInv'
<1>1. ASSUME NEW s \in Segments, Collect(s) PROVE IInv'
  BY <1>1, CollectStep
<1>2. ASSUME NEW s \in Segments, Harvest(s) PROVE IInv'
  BY <1>2, HarvestStep
<1>3. CASE Merge
  BY <1>3, MergeStep
<1>4. CASE Pop
  BY <1>4, PopStep
<1>5. CASE Adjust
  BY <1>5, AdjustStep
<1>6. CASE UNCHANGED vars
  <2>1. UNCHANGED <<doc, top, waiting, taken, segment, fruit, heap, best, count, res, phase>>
    BY <1>6 DEF vars, request, segments
  <2>2. TopN' = TopN /\ Considered' = Considered /\ Picks' = Picks
    BY <2>1 DEF TopN, Considered, Picks, Largest, Sorted
  <2>3. \A s : Collecting(s)' = Collecting(s) /\ ConsideredOf(s)' = ConsideredOf(s)
    BY <2>1, <2>2 DEF Collecting, ConsideredOf
  <2>4. SegmentInv'
    BY <2>1, <2>2, <2>3 DEF IInv, SegmentInv
  <2>5. MergeInv'
    BY <2>1, <2>2 DEF IInv, MergeInv, Merging
  <2>6. RankInv'
    BY <2>1, <2>2 DEF IInv, RankInv, Ranked, Keeping, DeRanking, PlainRanking
  <2>7. QED
    BY <2>1, <2>4, <2>5, <2>6 DEF IInv, Given
<1>7. QED
  BY <1>1, <1>2, <1>3, <1>4, <1>5, <1>6 DEF Next

\* All that was kept is shown, or as many as there is room for.
LEMMA ShownAtLast ==
  ASSUME IInv, phase = "done", NEW handed, NEW kept, Ranked(handed, kept)
  PROVE  /\ Len(res) \in Nat /\ res \in Seq(kept) /\ Unrepeated(res)
         /\ Held(res) \subseteq kept /\ IsFiniteSet(Held(res))
         /\ Cardinality(Held(res)) = Len(res) /\ DOMAIN heap = kept \ Held(res)
         /\ Len(res) = IF Cardinality(kept) < TopN THEN Cardinality(kept) ELSE TopN
<1>1. Given /\ (DOMAIN heap = {} \/ Len(res) = TopN)
  BY DEF IInv, RankInv
<1>2. /\ res \in Seq(kept) /\ Unrepeated(res) /\ Len(res) <= TopN
      /\ DOMAIN heap = kept \ Held(res)
  BY DEF Ranked, Keeping
<1>3. /\ Held(res) \subseteq kept /\ IsFiniteSet(Held(res)) /\ Len(res) \in Nat
      /\ Cardinality(Held(res)) = Len(res)
  BY <1>2, ShownFacts
<1>4. IsFiniteSet(kept) /\ Cardinality(kept) \in Nat
  BY <1>1, KeptFacts
<1>5. Len(res) <= Cardinality(kept)
  BY <1>3, <1>4, SizeFacts
<1>6. CASE Len(res) = TopN
  BY <1>2, <1>3, <1>4, <1>5, <1>6
<1>7. CASE DOMAIN heap = {}
  <2>1. Held(res) = kept
    BY <1>2, <1>3, <1>7
  <2>2. Len(res) = Cardinality(kept)
    BY <1>3, <2>1
  <2>3. TopN \in Nat
    BY <1>1, GivenFacts
  <2>4. QED
    BY <1>2, <1>3, <1>4, <2>2, <2>3
<1>8. QED
  BY <1>1, <1>2, <1>3, <1>6, <1>7

\* With de_rank_similar, it implies the property at the end.
LEMMA GreedyAtLast == IInv => ShowsAGreedyRanking
<1> SUFFICES ASSUME IInv, phase = "done", top.deRank
             PROVE  \E handed \in SUBSET Considered :
                      /\ \A s \in Segments :
                           AreTheBest(doc, handed \cap DocsOf(s), Considered \cap DocsOf(s), TopN)
                      /\ \E kept \in SUBSET handed :
                           /\ AreTheBest(doc, kept, handed, TopN + 1)
                           /\ IsGreedyRanking(doc, res, kept, TopN)
  BY DEF ShowsAGreedyRanking
<1>1. PICK handed, kept : Ranked(handed, kept)
  BY DEF IInv, RankInv
<1>2. /\ handed \in SUBSET Considered
      /\ \A s \in Segments :
           AreTheBest(doc, handed \cap DocsOf(s), Considered \cap DocsOf(s), TopN)
      /\ AreTheBest(doc, kept, handed, TopN + 1)
  BY <1>1 DEF Ranked, IsHanded
<1>3. kept \in SUBSET handed
  BY <1>2 DEF AreTheBest
<1>4. GreedySoFar(doc, res, kept)
  BY <1>1 DEF Ranked, DeRanking
<1>5. Len(res) = IF Cardinality(kept) < TopN THEN Cardinality(kept) ELSE TopN
  BY <1>1, ShownAtLast
<1>6. IsGreedyRanking(doc, res, kept, TopN)
  BY <1>4, <1>5 DEF IsGreedyRanking, GreedySoFar
<1>7. QED
  BY <1>2, <1>3, <1>6

\* Without, too.
LEMMA PlainAtLast == IInv => SegmentsDoNotShow
<1> SUFFICES ASSUME IInv, phase = "done", ~top.deRank
             PROVE  /\ AreTheBest(doc, {res[i] : i \in 1 .. Len(res)}, Considered, TopN)
                    /\ \A i, k \in 1 .. Len(res) :
                         i < k => res[i] /= res[k] /\ doc[res[i]].score >= doc[res[k]].score
                    /\ Len(Page) <= top.top
                    /\ Cardinality(Considered) >= TopN => Len(Page) = top.top
  BY DEF SegmentsDoNotShow
<1>1. PICK handed, kept : Ranked(handed, kept)
  BY DEF IInv, RankInv
<1>2. Given
  BY DEF IInv
<1>3. /\ Len(res) \in Nat /\ res \in Seq(kept) /\ Unrepeated(res)
      /\ Held(res) \subseteq kept /\ Cardinality(Held(res)) = Len(res)
      /\ DOMAIN heap = kept \ Held(res)
      /\ Len(res) = IF Cardinality(kept) < TopN THEN Cardinality(kept) ELSE TopN
  BY <1>1, ShownAtLast
<1>4. Falling(doc, res, DOMAIN heap)
  BY <1>1 DEF Ranked, PlainRanking
<1>5. AreTheBest(doc, Held(res), kept, TopN)
  <2>1. ASSUME NEW i \in Held(res), NEW k \in kept \ Held(res)
        PROVE  doc[i].score >= doc[k].score
    <3>1. PICK a \in 1 .. Len(res) : res[a] = i
      BY DEF Held
    <3>2. QED
      BY <1>3, <1>4, <3>1 DEF Falling
  <2>2. QED
    BY <1>3, <2>1 DEF AreTheBest
<1>6. /\ handed \subseteq Considered
      /\ \A s \in Segments :
           AreTheBest(doc, handed \cap DocsOf(s), Considered \cap DocsOf(s), TopN)
      /\ AreTheBest(doc, kept, handed, TopN + 1)
  BY <1>1 DEF Ranked, IsHanded
<1>7. /\ IsFiniteSet(Considered) /\ IsFiniteSet(handed) /\ Scored(doc, Considered)
      /\ TopN \in Nat \ {0} /\ TopN <= TopN + 1 /\ TopN + 1 \in Nat
  <2>1. IsFiniteSet(Considered)
    BY <1>2, GivenFacts, FS_Subset
  <2>2. IsFiniteSet(handed)
    BY <1>6, <2>1, FS_Subset
  <2>3. Scored(doc, Considered)
    BY <1>2, GivenFacts DEF Scored
  <2>4. QED
    BY <1>2, <2>1, <2>2, <2>3, GivenFacts
<1>8. AreTheBest(doc, Held(res), handed, TopN)
  BY <1>5, <1>6, <1>7, BestOfBest
<1>9. AreTheBest(doc, Held(res), Considered, TopN)
  <2>1. PICK part : part = [s \in Segments |-> DocsOf(s)]
    OBVIOUS
  <2>2. \A i \in Considered : \E s \in Segments : i \in part[s]
    <3>1. ASSUME NEW i \in Considered PROVE i \in part[SegmentOf[i]] /\ SegmentOf[i] \in Segments
      BY <2>1, BucketCollectorAssumption DEF Considered, DocsOf
    <3>2. QED
      BY <3>1
  <2>3. \A s \in Segments :
          AreTheBest(doc, handed \cap part[s], Considered \cap part[s], TopN)
    BY <1>6, <2>1
  <2>4. QED
    BY <1>6, <1>7, <1>8, <2>2, <2>3, BestOfParts, ZenonT(40)
<1>10. \A i, k \in 1 .. Len(res) :
         i < k => res[i] /= res[k] /\ doc[res[i]].score >= doc[res[k]].score
  <2>1. ASSUME NEW i \in 1 .. Len(res), NEW k \in 1 .. Len(res), i < k
        PROVE  res[i] /= res[k] /\ doc[res[i]].score >= doc[res[k]].score
    <3>1. k \in i + 1 .. Len(res)
      BY <1>3, <2>1
    <3>2. QED
      BY <1>3, <1>4, <2>1, <3>1 DEF Unrepeated, Falling
  <2>2. QED
    BY <2>1
<1>11. /\ top.offset \in Nat /\ top.top \in Nat \ {0} /\ TopN = top.top + top.offset
       /\ Cardinality(Considered) \in Nat /\ Len(res) <= TopN
       /\ Cardinality(Considered) >= TopN => Len(res) = TopN
  <2>1. Cardinality(Considered) \in Nat /\ Cardinality(kept) \in Nat
    BY <1>1, <1>2, <1>7, FS_CardinalityType, KeptFacts
  <2>2. Cardinality(Considered) >= TopN => Len(res) = TopN
    BY <1>3, <1>7, <1>9, <2>1 DEF AreTheBest
  <2>3. QED
    BY <1>2, <1>3, <1>7, <2>1, <2>2, GivenFacts
<1>12. Len(Page) = IF top.offset + 1 <= Len(res) THEN Len(res) - top.offset ELSE 0
  <2>1. \A i \in top.offset + 1 .. Len(res) : res[i] \in kept
    <3>1. \A i \in top.offset + 1 .. Len(res) : i \in 1 .. Len(res)
      BY <1>3, <1>11
    <3>2. QED
      BY <1>3, <3>1, ElementOfSeq
  <2>2. Len(Page) = IF top.offset + 1 <= Len(res) THEN Len(res) - (top.offset + 1) + 1 ELSE 0
    BY <1>3, <1>11, <2>1, SubSeqProperties DEF Page
  <2>3. QED
    BY <1>3, <1>11, <2>2
<1>13. Len(Page) <= top.top /\ (Cardinality(Considered) >= TopN => Len(Page) = top.top)
  BY <1>3, <1>11, <1>12
<1>14. QED
  BY <1>9, <1>10, <1>13 DEF Held

\* With de_rank_similar: however the segments pruned and whichever stale scores
\* the heap held, adjusting only the largest document until its score stays
\* shows a greedy diversified ranking of the best that the segments gave.
THEOREM TheRankingIsGreedy == Spec => []ShowsAGreedyRanking
<1>1. IInv => ShowsAGreedyRanking
  BY GreedyAtLast
<1>2. QED
  BY <1>1, InitOK, InvStep, PTL DEF Spec

\* Without it: the page is that of one sorted list of all documents that the
\* maximum per segment lets in, whatever segments they are in.
THEOREM SegmentsAreInvisible == Spec => []SegmentsDoNotShow
<1>1. IInv => SegmentsDoNotShow
  BY PlainAtLast
<1>2. QED
  BY <1>1, InitOK, InvStep, PTL DEF Spec
=============================================================================
