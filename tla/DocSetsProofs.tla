--------------------------- MODULE DocSetsProofs ---------------------------
(***************************************************************************)
(* For any number of posting lists of any length: what the loops of the    *)
(* DocSets of the goggle queries assert, and that each of them is a cursor *)
(* over the documents that it should find.                                 *)
(*                                                                         *)
(* The invariant IInv says where the lists stand at each place of the      *)
(* loops (Aligned), that the candidate has reached the aim of the call     *)
(* (AimReached) and that no list and no candidate has gone past a document *)
(* that is still to be found (NothingPassed, UnionHeads).                  *)
(***************************************************************************)
EXTENDS DocSets, WellFoundedInduction, TLAPS

-----------------------------------------------------------------------------
(* Where a posting list goes.                                                *)

\* A set of naturals has a least element.
LEMMA NatMin ==
  ASSUME NEW S \in SUBSET Nat, S /= {}
  PROVE  \E m \in S : \A n \in S : m <= n
<1>. DEFINE R == {ss \in Nat \X Nat : ss[1] < ss[2]}
<1>1. IsWellFoundedOn(R, Nat)
  BY NatLessThanWellFounded, Zenon DEF OpToRel
<1>2. \E m \in S : \A n \in S : ~(<<n, m>> \in R)
  <2>. HIDE DEF R
  <2>. QED BY <1>1, WFMin
<1>3. PICK m \in S : \A n \in S : ~(<<n, m>> \in R)
  BY <1>2
<1>4. ASSUME NEW n \in S PROVE m <= n
  <2>1. m \in Nat /\ n \in Nat /\ <<n, m>> \notin R
    BY <1>3
  <2>. QED BY <2>1
<1>. QED BY <1>4

\* A bounded one has a greatest.
LEMMA NatMax ==
  ASSUME NEW b \in Nat, NEW S \in SUBSET (0 .. b), S /= {}
  PROVE  \E m \in S : \A n \in S : n <= m
<1>. DEFINE D == {b - n : n \in S}
<1>1. D \in SUBSET Nat /\ D /= {}
  <2>1. \A n \in S : n \in 0 .. b
    OBVIOUS
  <2>2. \A n \in S : b - n \in Nat
    BY <2>1
  <2>. QED BY <2>2
<1>2. PICK d \in D : \A e \in D : d <= e
  BY <1>1, NatMin
<1>3. PICK m \in S : d = b - m
  BY <1>2
<1>4. ASSUME NEW n \in S PROVE n <= m
  <2>1. d <= b - n
    BY <1>2
  <2>. QED BY <1>3, <2>1
<1>. QED BY <1>4

\* Documents and positions are naturals.
LEMMA Sizes ==
  /\ NumDocs \in Nat /\ Terminated = NumDocs
  /\ \A p : p \in Positions <=> p \in Nat /\ p <= NumDocs
  /\ \A d : d \in Docs <=> d \in Nat /\ d < NumDocs
  BY DocSetsAssumption DEF Docs, Positions, Terminated

\* A seek in a posting list finds the first document from its aim on.
LEMMA FirstFromIs ==
  ASSUME NEW in, in.lists \in Seq(SUBSET Docs),
         NEW k \in 1 .. Len(in.lists), NEW t \in Positions
  PROVE  /\ FirstFrom(in, k, t) \in in.lists[k] \cup {Terminated}
         /\ FirstFrom(in, k, t) \in Positions
         /\ t <= FirstFrom(in, k, t)
         /\ \A e \in in.lists[k] : e >= t => FirstFrom(in, k, t) <= e
<1>. DEFINE S == {d \in in.lists[k] \cup {Terminated} : d >= t}
            P(d) == d >= t /\ \A e \in in.lists[k] : e >= t => d <= e
<1>1. in.lists[k] \in SUBSET Docs
  OBVIOUS
<1>2. S \in SUBSET Nat /\ S /= {}
  BY <1>1, Sizes
<1>3. PICK m \in S : \A n \in S : m <= n
  BY <1>2, NatMin
<1>4. m \in in.lists[k] \cup {Terminated} /\ P(m)
  BY <1>3
<1>5. /\ FirstFrom(in, k, t) \in in.lists[k] \cup {Terminated}
      /\ P(FirstFrom(in, k, t))
  BY <1>4, Zenon DEF FirstFrom
<1>. QED BY <1>1, <1>5, Sizes

\* The same of a list that stands somewhere, and does not go back.
LEMMA SeekInIs ==
  ASSUME input.lists \in Seq(SUBSET Docs), heads \in [Lists -> Positions],
         NEW k \in Lists, NEW t \in Positions
  PROVE  /\ SeekIn(k, t) \in input.lists[k] \cup {Terminated}
         /\ SeekIn(k, t) \in Positions
         /\ t <= SeekIn(k, t) /\ heads[k] <= SeekIn(k, t)
         /\ \A e \in input.lists[k] : e >= t /\ e >= heads[k] => SeekIn(k, t) <= e
<1>. DEFINE from == IF t > heads[k] THEN t ELSE heads[k]
<1>1. from \in Positions /\ t <= from /\ heads[k] <= from
  BY Sizes
<1>2. k \in 1 .. Len(input.lists)
  BY DEF Lists
<1>3. SeekIn(k, t) = FirstFrom(input, k, from)
  BY DEF SeekIn
<1>. HIDE DEF from
<1>4. /\ SeekIn(k, t) \in input.lists[k] \cup {Terminated}
      /\ SeekIn(k, t) \in Positions
      /\ from <= SeekIn(k, t)
      /\ \A e \in input.lists[k] : e >= from => SeekIn(k, t) <= e
  BY <1>1, <1>2, <1>3, FirstFromIs
<1>5. input.lists[k] \in SUBSET Docs
  BY <1>2
<1>. QED BY <1>1, <1>4, <1>5, Sizes DEF from

\* An advance leaves the document on which the list stands, skipping none.
LEMMA AdvanceInIs ==
  ASSUME input.lists \in Seq(SUBSET Docs), heads \in [Lists -> Positions], NEW k \in Lists
  PROVE  /\ AdvanceIn(k) \in input.lists[k] \cup {Terminated}
         /\ AdvanceIn(k) \in Positions
         /\ heads[k] <= AdvanceIn(k)
         /\ heads[k] /= Terminated => heads[k] + 1 <= AdvanceIn(k)
         /\ \A e \in input.lists[k] : e > heads[k] => AdvanceIn(k) <= e
<1>. DEFINE t == IF heads[k] = Terminated THEN Terminated ELSE heads[k] + 1
<1>1. t \in Positions /\ heads[k] \in Positions /\ (heads[k] /= Terminated => t = heads[k] + 1)
  <2>1. heads[k] \in Positions
    OBVIOUS
  <2>. QED BY <2>1, Sizes
<1>2. AdvanceIn(k) = SeekIn(k, t)
  BY DEF AdvanceIn
<1>3. input.lists[k] \in SUBSET Docs
  BY DEF Lists
<1>4. \A e \in input.lists[k] : e > heads[k] => e >= t
  <2>. SUFFICES ASSUME NEW e \in input.lists[k], e > heads[k] PROVE e >= t
    OBVIOUS
  <2>1. e \in Nat /\ e < NumDocs /\ heads[k] \in Nat /\ NumDocs \in Nat
    BY <1>1, <1>3, Sizes DEF Docs
  <2>. QED BY <2>1 DEF Terminated
<1>. HIDE DEF t
<1>5. /\ SeekIn(k, t) \in input.lists[k] \cup {Terminated}
      /\ SeekIn(k, t) \in Positions
      /\ t <= SeekIn(k, t) /\ heads[k] <= SeekIn(k, t)
      /\ \A e \in input.lists[k] : e >= t /\ e >= heads[k] => SeekIn(k, t) <= e
  BY <1>1, SeekInIs
<1>. QED BY <1>1, <1>2, <1>3, <1>4, <1>5, Sizes

\* The candidate with which an intersection starts.
LEMMA GreatestIs ==
  ASSUME NEW h, NEW n \in Nat \ {0}, h \in [1 .. n -> Positions]
  PROVE  /\ \E k \in 1 .. n : Greatest(h) = h[k]
         /\ \A k \in 1 .. n : h[k] <= Greatest(h)
<1>. DEFINE S == {h[k] : k \in 1 .. n}
<1>1. S \in SUBSET (0 .. NumDocs) /\ S /= {}
  <2>1. h[1] \in S
    OBVIOUS
  <2>. QED BY <2>1 DEF Positions
<1>2. PICK m \in S : \A d \in S : d <= m
  BY <1>1, NatMax, Sizes
<1>3. \A k \in 1 .. n : h[k] <= m
  BY <1>2
<1>4. Greatest(h) = CHOOSE d \in S : \A k \in 1 .. n : h[k] <= d
  BY DEF Greatest
<1>5. Greatest(h) \in S /\ \A k \in 1 .. n : h[k] <= Greatest(h)
  <2>. HIDE DEF S
  <2>. QED BY <1>3, <1>4, Zenon
<1>. QED BY <1>5

\* The document of a union.
LEMMA LeastIs ==
  ASSUME NEW h, NEW n \in Nat, h \in [1 .. n -> Positions]
  PROVE  /\ Least(h) \in {h[k] : k \in 1 .. n} \cup {Terminated}
         /\ Least(h) \in Positions
         /\ \A k \in 1 .. n : Least(h) <= h[k]
<1>. DEFINE S == {h[k] : k \in 1 .. n} \cup {Terminated}
<1>1. S \in SUBSET Nat /\ S \in SUBSET Positions /\ S /= {}
  BY Sizes
<1>2. PICK m \in S : \A d \in S : m <= d
  BY <1>1, NatMin
<1>3. \A k \in 1 .. n : m <= h[k]
  BY <1>2
<1>4. Least(h) = CHOOSE d \in S : \A k \in 1 .. n : d <= h[k]
  BY DEF Least
<1>5. Least(h) \in S /\ \A k \in 1 .. n : Least(h) <= h[k]
  <2>. HIDE DEF S
  <2>. QED BY <1>3, <1>4, Zenon
<1>. QED BY <1>1, <1>5
-----------------------------------------------------------------------------
(* The inductive invariant.                                                  *)

Searching == pc \in {"first", "right", "left", "others", "found"}

Control ==
  /\ input \in Inputs
  /\ IsUnion => pc \in {"idle", "heads"}
  /\ pc = "heads" => IsUnion
  /\ ~IsUnion /\ pc /= "panicked" => Len(input.lists) >= 2
  /\ pc = "idle" <=> request = NoRequest
  /\ IsNew => pc \in {"first", "found", "panicked"} /\ request.aim = 0
  /\ furthest \in Positions
  /\ request.aim <= furthest

\* A list stands on a document of its own.
HeadsAreDocs == \A k \in Lists : heads[k] \in input.lists[k] \cup {Terminated}

\* No list of an intersection is ahead of the candidate, but for the right one
\* that has just moved; those that were asked stand on it.
Aligned ==
  /\ pc = "idle" /\ ~IsUnion => \A k \in Lists : heads[k] = at
  /\ pc = "first" =>
       \A k \in Lists : heads[k] <= candidate /\ (k < turn => heads[k] = candidate)
  /\ pc = "right" => heads[1] = candidate /\ \A k \in Lists : heads[k] <= candidate
  /\ pc = "left" =>
       /\ heads[1] = candidate
       /\ candidate <= heads[2]
       /\ \A k \in Lists : k = 2 \/ heads[k] <= candidate
  /\ pc = "others" =>
       /\ turn \in 3 .. Len(input.lists)
       /\ \A k \in Lists : heads[k] <= candidate /\ (k < turn => heads[k] = candidate)
  /\ pc = "found" => \A k \in Lists : heads[k] = candidate

AimReached == Searching => request.aim <= candidate

\* The documents that an intersection or pattern must not pass.
Wanted == {d \in Docs :
             /\ \A k \in Lists : d \in input.lists[k]
             /\ input.kind = "pattern" /\ ~IsNew => d \in input.matching \cup input.panics}

NothingPassed ==
  Searching => \A d \in Wanted : d >= request.aim =>
                 candidate <= d /\ \A k \in Lists : heads[k] <= d

\* A union has passed nothing beyond all aims, and goes forward.
UnionHeads ==
  IsUnion =>
    /\ \A k \in Lists : at <= heads[k]
    /\ \A k \in Lists : \A e \in input.lists[k] : e >= furthest => heads[k] <= e
    /\ pc = "heads" =>
         \/ request.op = "advance" /\ request.aim = at + 1 /\ at /= Terminated
         \/ request.op = "seek" /\ request.aim >= at

IInv == /\ TypeOK
        /\ Control
        /\ HeadsAreDocs
        /\ Aligned
        /\ AimReached
        /\ NothingPassed
        /\ UnionHeads
-----------------------------------------------------------------------------
(* Each step keeps it.                                                       *)

\* The types, in the form in which the steps need them.
LEMMA Facts ==
  ASSUME TypeOK
  PROVE  /\ input.lists \in Seq(SUBSET Docs)
         /\ Len(input.lists) \in Nat /\ Lists = 1 .. Len(input.lists)
         /\ heads \in [Lists -> Positions]
         /\ \A k \in Lists : heads[k] \in Positions /\ heads[k] \in Nat
         /\ \A k \in Lists : \A d \in input.lists[k] : d \in Docs /\ d \in Nat
         /\ at \in Nat /\ candidate \in Nat /\ request.aim \in Nat /\ turn \in Nat
         /\ request.aim \in Positions
<1>1. input.lists \in Seq(SUBSET Docs) /\ heads \in [Lists -> Positions]
  BY DEF TypeOK
<1>2. Len(input.lists) \in Nat /\ Lists = 1 .. Len(input.lists)
  BY <1>1 DEF Lists
<1>3. \A k \in Lists : heads[k] \in Positions /\ heads[k] \in Nat
  BY <1>1, Sizes
<1>4. \A k \in Lists : input.lists[k] \in SUBSET Docs
  BY <1>1, <1>2
<1>5. \A k \in Lists : \A d \in input.lists[k] : d \in Docs /\ d \in Nat
  BY <1>4, Sizes
<1>6. request.aim \in Positions /\ at \in Positions /\ candidate \in Positions
  BY DEF TypeOK
<1>7. turn \in Nat
  BY <1>2 DEF TypeOK
<1>. QED BY <1>1, <1>2, <1>3, <1>5, <1>6, <1>7, Sizes

\* The steps of an intersection that keep the input, the request and at.
Keeps == UNCHANGED <<input, request, at, furthest>>

\* A turn of the loop that looks for a first document.
LEMMA GoToFirstStep ==
  ASSUME IInv, GoToFirst
  PROVE  IInv'
<1>. DEFINE d == SeekIn(turn, candidate)
<1>1. /\ pc = "first" /\ ~IsUnion /\ turn \in Lists /\ Len(input.lists) >= 2
      /\ TypeOK /\ Keeps /\ Lists' = Lists
  BY Facts DEF IInv, Control, GoToFirst, TypeOK, Keeps, Lists
<1>2. /\ d \in input.lists[turn] \cup {Terminated}
      /\ d \in Positions
      /\ candidate <= d /\ heads[turn] <= d
      /\ \A e \in input.lists[turn] : e >= candidate /\ e >= heads[turn] => d <= e
  BY <1>1, SeekInIs, Facts DEF TypeOK
<1>3. heads' = [heads EXCEPT ![turn] = d]
  BY DEF GoToFirst
<1>4. \/ d > candidate /\ candidate' = d /\ turn' = 1 /\ pc' = "first"
      \/ /\ d = candidate /\ candidate' = candidate
         /\ \/ turn < Len(input.lists) /\ turn' = turn + 1 /\ pc' = "first"
            \/ turn = Len(input.lists) /\ turn' = 1 /\ pc' = "found"
  <2>1. d \in Nat /\ candidate \in Nat /\ turn \in Nat /\ turn <= Len(input.lists) /\ Len(input.lists) \in Nat
    BY <1>1, <1>2, Facts, Sizes
  <2>. QED BY <1>1, <1>2, <2>1 DEF GoToFirst
<1>. HIDE DEF d
<1>5. TypeOK'
  BY <1>1, <1>2, <1>3, <1>4, Facts DEF TypeOK, Keeps
<1>6. Control'
  BY <1>1, <1>4 DEF IInv, Control, Keeps, IsUnion, IsNew
<1>7. HeadsAreDocs'
  BY <1>1, <1>2, <1>3, Facts DEF IInv, HeadsAreDocs, Keeps
<1>8. Aligned'
  <2>1. /\ Lists = 1 .. Len(input.lists) /\ Len(input.lists) \in Nat /\ turn \in Lists
        /\ \A k \in Lists : heads[k] \in Nat
        /\ candidate \in Nat /\ d \in Nat /\ candidate <= d
        /\ \A k \in Lists : heads[k] <= candidate /\ (k < turn => heads[k] = candidate)
    BY <1>1, <1>2, Facts, Sizes DEF IInv, Aligned
  <2>2. \A k \in Lists : heads'[k] = IF k = turn THEN d ELSE heads[k]
    BY <1>1, <1>3, Facts
  <2>3. CASE d > candidate /\ candidate' = d /\ turn' = 1 /\ pc' = "first"
    BY <1>1, <2>1, <2>2, <2>3 DEF Aligned
  <2>4. CASE /\ d = candidate /\ candidate' = candidate
             /\ turn < Len(input.lists) /\ turn' = turn + 1 /\ pc' = "first"
    <3>1. \A k \in Lists : heads'[k] <= candidate /\ (k < turn + 1 => heads'[k] = candidate)
      BY <2>1, <2>2, <2>4
    <3>2. QED
      BY <1>1, <2>4, <3>1 DEF Aligned
  <2>5. CASE /\ d = candidate /\ candidate' = candidate
             /\ turn = Len(input.lists) /\ turn' = 1 /\ pc' = "found"
    <3>1. \A k \in Lists : heads'[k] = candidate
      BY <2>1, <2>2, <2>5
    <3>2. QED
      BY <1>1, <2>5, <3>1 DEF Aligned
  <2>6. QED
    BY <1>4, <2>3, <2>4, <2>5
<1>9. AimReached'
  BY <1>1, <1>2, <1>4, Facts, Sizes DEF IInv, AimReached, Searching, Keeps
<1>10. NothingPassed'
  <2>1. Wanted' = Wanted
    BY <1>1 DEF Wanted, Keeps, IsNew
  <2>2. ASSUME NEW e \in Wanted, e >= request.aim
        PROVE  candidate' <= e /\ \A k \in Lists : heads'[k] <= e
    <3>1. candidate <= e /\ \A k \in Lists : heads[k] <= e
      BY <1>1, <2>2 DEF IInv, NothingPassed, Searching
    <3>2. e \in input.lists[turn]
      BY <1>1 DEF Wanted
    <3>3. d <= e
      BY <1>1, <1>2, <3>1, <3>2
    <3>. QED BY <1>1, <1>3, <1>4, <3>1, <3>3, Facts
  <2>. QED BY <1>1, <2>1, <2>2 DEF NothingPassed, Keeps
<1>11. UnionHeads'
  BY <1>1 DEF UnionHeads, IsUnion, Keeps
<1>. QED BY <1>5, <1>6, <1>7, <1>8, <1>9, <1>10, <1>11 DEF IInv

\* The right list seeks the candidate.
LEMMA SeekRightStep ==
  ASSUME IInv, SeekRight
  PROVE  IInv'
<1>. DEFINE d == SeekIn(2, candidate)
<1>1. /\ pc = "right" /\ ~IsUnion /\ ~IsNew /\ 1 \in Lists /\ 2 \in Lists
      /\ TypeOK /\ Keeps /\ Lists' = Lists
      /\ candidate' = candidate /\ turn' = turn /\ pc' = "left"
  BY Facts DEF IInv, Control, SeekRight, Keeps, Lists
<1>2. /\ d \in input.lists[2] \cup {Terminated}
      /\ d \in Positions
      /\ candidate <= d /\ heads[2] <= d
      /\ \A e \in input.lists[2] : e >= candidate /\ e >= heads[2] => d <= e
  BY <1>1, SeekInIs, Facts DEF TypeOK
<1>3. heads' = [heads EXCEPT ![2] = d]
  BY DEF SeekRight
<1>. HIDE DEF d
<1>5. TypeOK'
  BY <1>1, <1>2, <1>3, Facts DEF TypeOK, Keeps
<1>6. Control'
  BY <1>1 DEF IInv, Control, Keeps, IsUnion, IsNew
<1>7. HeadsAreDocs'
  BY <1>1, <1>2, <1>3, Facts DEF IInv, HeadsAreDocs, Keeps
<1>8. Aligned'
  BY <1>1, <1>2, <1>3, Facts, Sizes DEF IInv, Aligned
<1>9. AimReached'
  BY <1>1, Facts, Sizes DEF IInv, AimReached, Searching, Keeps
<1>10. NothingPassed'
  <2>1. Wanted' = Wanted
    BY <1>1 DEF Wanted, Keeps, IsNew
  <2>2. ASSUME NEW e \in Wanted, e >= request.aim
        PROVE  candidate' <= e /\ \A k \in Lists : heads'[k] <= e
    <3>1. candidate <= e /\ \A k \in Lists : heads[k] <= e
      BY <1>1, <2>2 DEF IInv, NothingPassed, Searching
    <3>2. e \in input.lists[2]
      BY <1>1 DEF Wanted
    <3>3. d <= e
      BY <1>1, <1>2, <3>1, <3>2
    <3>. QED BY <1>1, <1>3, <3>1, <3>3, Facts
  <2>. QED BY <1>1, <2>1, <2>2 DEF NothingPassed, Keeps
<1>11. UnionHeads'
  BY <1>1 DEF UnionHeads, IsUnion, Keeps
<1>. QED BY <1>5, <1>6, <1>7, <1>8, <1>9, <1>10, <1>11 DEF IInv

\* The left list seeks what the right one has found.
LEMMA SeekLeftStep ==
  ASSUME IInv, SeekLeft
  PROVE  IInv'
<1>. DEFINE d == SeekIn(1, heads[2])
<1>1. /\ pc = "left" /\ ~IsUnion /\ ~IsNew /\ 1 \in Lists /\ 2 \in Lists
      /\ TypeOK /\ Keeps /\ Lists' = Lists
  BY Facts DEF IInv, Control, SeekLeft, Keeps, Lists
<1>2. /\ d \in input.lists[1] \cup {Terminated}
      /\ d \in Positions
      /\ heads[2] <= d /\ heads[1] <= d
      /\ \A e \in input.lists[1] : e >= heads[2] /\ e >= heads[1] => d <= e
  BY <1>1, SeekInIs, Facts DEF TypeOK
<1>3. heads' = [heads EXCEPT ![1] = d] /\ candidate' = d
  BY DEF SeekLeft
<1>4. \/ d > heads[2] /\ pc' = "right" /\ turn' = turn
      \/ d = heads[2] /\ Len(input.lists) = 2 /\ pc' = "found" /\ turn' = turn
      \/ d = heads[2] /\ Len(input.lists) >= 3 /\ pc' = "others" /\ turn' = 3
  <2>1. d \in Nat /\ heads[2] \in Nat /\ Len(input.lists) \in Nat /\ Len(input.lists) >= 2
    BY <1>1, <1>2, Facts, Sizes DEF IInv, Control
  <2>2. IF d /= heads[2]
          THEN pc' = "right" /\ turn' = turn
          ELSE IF Len(input.lists) = 2
                 THEN pc' = "found" /\ turn' = turn
                 ELSE pc' = "others" /\ turn' = 3
    BY DEF SeekLeft
  <2>. HIDE DEF d
  <2>3. heads[2] <= d
    BY <1>2
  <2>4. d = heads[2] \/ d > heads[2]
    BY <2>1, <2>3
  <2>0. \A n \in Nat : n >= 2 => (n = 2 /\ ~(n >= 3)) \/ (n /= 2 /\ n >= 3)
    OBVIOUS
  <2>5. Len(input.lists) = 2 \/ Len(input.lists) >= 3
    BY <2>0, <2>1, Zenon
  <2>6. ~(d = heads[2] /\ d > heads[2])
    BY <2>1
  <2>7. ~(Len(input.lists) = 2 /\ Len(input.lists) >= 3)
    BY <2>0, <2>1, Zenon
  <2>. QED BY <2>2, <2>4, <2>5, <2>6, <2>7, Zenon
<1>5. /\ heads[1] = candidate
      /\ candidate <= heads[2]
      /\ \A k \in Lists : k = 2 \/ heads[k] <= candidate
  BY <1>1 DEF IInv, Aligned
<1>. HIDE DEF d
<1>6. TypeOK'
  BY <1>1, <1>2, <1>3, <1>4, Facts, SMTT(30) DEF TypeOK, Keeps
<1>7. Control'
  BY <1>1, <1>4 DEF IInv, Control, Keeps, IsUnion, IsNew
<1>8. HeadsAreDocs'
  BY <1>1, <1>2, <1>3, Facts DEF IInv, HeadsAreDocs, Keeps
<1>9. Aligned'
  <2>1. \A k \in Lists : heads'[k] <= d
    BY <1>1, <1>2, <1>3, <1>5, Facts, Sizes
  <2>2. heads'[1] = d /\ (d = heads[2] => heads'[2] = d)
    BY <1>1, <1>3, Facts
  <2>3. Keeps /\ Lists' = Lists
    BY <1>1
  <2>4. CASE d > heads[2] /\ pc' = "right"
    BY <1>3, <2>1, <2>2, <2>3, <2>4 DEF Aligned
  <2>5. CASE d = heads[2] /\ Len(input.lists) = 2 /\ pc' = "found"
    BY <1>3, <2>2, <2>3, <2>5, Facts, <1>1 DEF Aligned
  <2>6. CASE d = heads[2] /\ Len(input.lists) >= 3 /\ pc' = "others" /\ turn' = 3
    <3>1. \A k \in Lists : k < 3 => k = 1 \/ k = 2
      BY <1>1, Facts
    <3>. QED BY <1>1, <1>3, <2>1, <2>2, <2>3, <2>6, <3>1, Facts DEF Aligned, Keeps
  <2>. QED BY <1>4, <2>4, <2>5, <2>6
<1>10. AimReached'
  BY <1>1, <1>2, <1>3, <1>5, Facts, Sizes DEF IInv, AimReached, Searching, Keeps
<1>11. NothingPassed'
  <2>1. Wanted' = Wanted
    BY <1>1 DEF Wanted, Keeps, IsNew
  <2>2. ASSUME NEW e \in Wanted, e >= request.aim
        PROVE  candidate' <= e /\ \A k \in Lists : heads'[k] <= e
    <3>1. \A k \in Lists : heads[k] <= e
      BY <1>1, <2>2 DEF IInv, NothingPassed, Searching
    <3>2. e \in input.lists[1]
      BY <1>1 DEF Wanted
    <3>3. d <= e
      BY <1>1, <1>2, <3>1, <3>2
    <3>. QED BY <1>1, <1>3, <3>1, <3>3, Facts
  <2>. QED BY <1>1, <2>1, <2>2 DEF NothingPassed, Keeps
<1>12. UnionHeads'
  BY <1>1 DEF UnionHeads, IsUnion, Keeps
<1>. QED BY <1>6, <1>7, <1>8, <1>9, <1>10, <1>11, <1>12 DEF IInv

\* The lists after the first two seek the candidate.
LEMMA SeekOtherStep ==
  ASSUME IInv, SeekOther
  PROVE  IInv'
<1>. DEFINE d == SeekIn(turn, candidate)
            c == SeekIn(1, d)
<1>1. /\ pc = "others" /\ ~IsUnion /\ ~IsNew /\ 1 \in Lists /\ turn \in Lists /\ turn /= 1
      /\ TypeOK /\ Keeps /\ Lists' = Lists
  BY Facts DEF IInv, Control, SeekOther, Keeps, Lists, Aligned
<1>2. /\ d \in input.lists[turn] \cup {Terminated}
      /\ d \in Positions
      /\ candidate <= d /\ heads[turn] <= d
      /\ \A e \in input.lists[turn] : e >= candidate /\ e >= heads[turn] => d <= e
  BY <1>1, SeekInIs, Facts DEF TypeOK
<1>3. /\ c \in input.lists[1] \cup {Terminated}
      /\ c \in Positions
      /\ d <= c /\ heads[1] <= c
      /\ \A e \in input.lists[1] : e >= d /\ e >= heads[1] => c <= e
  BY <1>1, <1>2, SeekInIs, Facts DEF TypeOK
<1>4. \/ /\ d > candidate /\ candidate' = c /\ turn' = 1 /\ pc' = "right"
         /\ heads' = [heads EXCEPT ![turn] = d, ![1] = c]
      \/ /\ d = candidate /\ candidate' = candidate
         /\ heads' = [heads EXCEPT ![turn] = d]
         /\ \/ turn < Len(input.lists) /\ turn' = turn + 1 /\ pc' = "others"
            \/ turn = Len(input.lists) /\ turn' = 1 /\ pc' = "found"
  <2>1. d \in Nat /\ candidate \in Nat /\ turn \in Nat /\ turn <= Len(input.lists) /\ Len(input.lists) \in Nat
    BY <1>1, <1>2, Facts, Sizes
  <2>. QED BY <1>1, <1>2, <2>1 DEF SeekOther
<1>5. /\ turn \in 3 .. Len(input.lists)
      /\ \A k \in Lists : heads[k] <= candidate /\ (k < turn => heads[k] = candidate)
  BY <1>1 DEF IInv, Aligned
<1>. HIDE DEF d, c
<1>6. TypeOK'
  <2>1. heads' \in [Lists -> Positions]
    BY <1>1, <1>2, <1>3, <1>4, Facts
  <2>2. candidate' \in Positions /\ turn' \in 1 .. Len(input.lists) /\ pc' \in {"right", "others", "found"}
    BY <1>1, <1>2, <1>3, <1>4, <1>5, Facts DEF TypeOK
  <2>. QED BY <1>1, <2>1, <2>2, <1>5, Facts DEF TypeOK, Keeps
<1>7. Control'
  BY <1>1, <1>4 DEF IInv, Control, Keeps, IsUnion, IsNew
<1>8. HeadsAreDocs'
  BY <1>1, <1>2, <1>3, <1>4, Facts DEF IInv, HeadsAreDocs, Keeps
<1>9. Aligned'
  <2>1. CASE d > candidate
    <3>0. \A k \in Lists : heads'[k] = IF k = 1 THEN c ELSE IF k = turn THEN d ELSE heads[k]
      <4>1. heads' = [heads EXCEPT ![turn] = d, ![1] = c]
        BY <1>2, <1>4, <2>1, Facts, Sizes, <1>1
      <4>. QED BY <1>1, <4>1, Facts
    <3>1. heads'[1] = c /\ \A k \in Lists : heads'[k] <= c
      <4>1. candidate \in Nat /\ d \in Nat /\ c \in Nat /\ candidate <= c /\ d <= c
        BY <1>1, <1>2, <1>3, Facts, Sizes
      <4>. QED BY <1>1, <1>5, <3>0, <4>1, Facts
    <3>. QED BY <1>1, <1>2, <1>4, <2>1, <3>1, Facts, Sizes DEF Aligned
  <2>2. CASE d = candidate
    <3>1. heads' = [heads EXCEPT ![turn] = candidate]
      <4>1. ~(d > candidate)
        BY <1>1, <2>2, Facts
      <4>. QED BY <1>4, <2>2, <4>1
    <3>2. \A k \in Lists : heads'[k] = IF k = turn THEN candidate ELSE heads[k]
      BY <1>1, <3>1, Facts
    <3>3. \A k \in Lists : k <= turn => k = turn \/ k < turn
      BY <1>1, Facts
    <3>4. candidate <= candidate
      BY <1>1, Facts
    <3>5. \A k \in Lists : heads'[k] <= candidate /\ (k <= turn => heads'[k] = candidate)
      BY <1>5, <3>2, <3>3, <3>4
    <3>. QED BY <1>1, <1>4, <1>5, <2>2, <3>5, Facts, SMTT(30) DEF Aligned, Keeps
  <2>. QED BY <1>4, <2>1, <2>2
<1>10. AimReached'
  BY <1>1, <1>2, <1>3, <1>4, Facts, Sizes DEF IInv, AimReached, Searching, Keeps
<1>11. NothingPassed'
  <2>1. Wanted' = Wanted
    BY <1>1 DEF Wanted, Keeps, IsNew
  <2>2. ASSUME NEW e \in Wanted, e >= request.aim
        PROVE  candidate' <= e /\ \A k \in Lists : heads'[k] <= e
    <3>1. candidate <= e /\ \A k \in Lists : heads[k] <= e
      BY <1>1, <2>2 DEF IInv, NothingPassed, Searching
    <3>2. e \in input.lists[turn] /\ e \in input.lists[1]
      BY <1>1 DEF Wanted
    <3>3. d <= e /\ c <= e
      BY <1>1, <1>2, <1>3, <3>1, <3>2
    <3>. QED BY <1>1, <1>4, <3>1, <3>3, Facts
  <2>. QED BY <1>1, <2>1, <2>2 DEF NothingPassed, Keeps
<1>12. UnionHeads'
  BY <1>1 DEF UnionHeads, IsUnion, Keeps
<1>. QED BY <1>6, <1>7, <1>8, <1>9, <1>10, <1>11, <1>12 DEF IInv

\* The left list goes on from a document on which all lists stand.
LEMMA AdvanceLeftIs ==
  ASSUME TypeOK, Len(input.lists) >= 2, AdvanceLeft, NEW c \in Positions,
         \A k \in Lists : heads[k] = c
  PROVE  /\ Lists' = Lists /\ input' = input /\ turn' = turn /\ at' = at /\ pc' = "right"
         /\ heads' \in [Lists -> Positions] /\ candidate' \in Positions
         /\ heads'[1] = candidate' /\ candidate' \in input.lists[1] \cup {Terminated}
         /\ \A k \in Lists : k = 1 \/ heads'[k] = c
         /\ c <= candidate' /\ (c /= Terminated => c + 1 <= candidate')
         /\ \A e \in input.lists[1] : e > c => candidate' <= e
<1>. DEFINE d == AdvanceIn(1)
<1>1. 1 \in Lists /\ heads[1] = c
  BY Facts
<1>2. /\ d \in input.lists[1] \cup {Terminated}
      /\ d \in Positions
      /\ c <= d /\ (c /= Terminated => c + 1 <= d)
      /\ \A e \in input.lists[1] : e > c => d <= e
  BY <1>1, AdvanceInIs, Facts
<1>3. heads' = [heads EXCEPT ![1] = d] /\ candidate' = d /\ pc' = "right"
      /\ input' = input /\ turn' = turn /\ at' = at
  BY DEF AdvanceLeft
<1>4. Lists' = Lists
  BY <1>3 DEF Lists
<1>. HIDE DEF d
<1>. QED BY <1>1, <1>2, <1>3, <1>4, Facts

\* A call of advance.
LEMMA IntersectionAdvanceStep ==
  ASSUME IInv, IntersectionAdvance
  PROVE  IInv'
<1>1. /\ ~IsUnion /\ pc = "idle" /\ at /= Terminated /\ at \in Positions
      /\ request' = [op |-> "advance", aim |-> at + 1]
      /\ furthest' = IF at + 1 > furthest THEN at + 1 ELSE furthest
      /\ TypeOK /\ Len(input.lists) >= 2 /\ AdvanceLeft
      /\ \A k \in Lists : heads[k] = at
      /\ furthest \in Positions
  BY DEF IInv, TypeOK, Control, Aligned, IntersectionAdvance, Ask
<1>2. /\ Lists' = Lists /\ input' = input /\ turn' = turn /\ at' = at /\ pc' = "right"
      /\ heads' \in [Lists -> Positions] /\ candidate' \in Positions
      /\ heads'[1] = candidate' /\ candidate' \in input.lists[1] \cup {Terminated}
      /\ \A k \in Lists : k = 1 \/ heads'[k] = at
      /\ at <= candidate' /\ at + 1 <= candidate'
      /\ \A e \in input.lists[1] : e > at => candidate' <= e
  BY <1>1, AdvanceLeftIs
<1>3. at + 1 \in Positions /\ furthest' \in Positions /\ at + 1 <= furthest'
  BY <1>1, Sizes
<1>5. TypeOK'
  BY <1>1, <1>2, <1>3 DEF TypeOK
<1>6. Control'
  BY <1>1, <1>2, <1>3 DEF IInv, Control, IsUnion, IsNew, NoRequest
<1>7. HeadsAreDocs'
  BY <1>1, <1>2 DEF IInv, HeadsAreDocs
<1>8. Aligned'
  BY <1>1, <1>2, Facts, Sizes, SMTT(30) DEF Aligned
<1>9. AimReached'
  BY <1>1, <1>2 DEF AimReached
<1>10. NothingPassed'
  <2>1. request'.aim = at + 1
    BY <1>1
  <2>2. ASSUME NEW e \in Docs, \A k \in Lists : e \in input.lists[k], e >= at + 1
        PROVE  candidate' <= e /\ \A k \in Lists : heads'[k] <= e
    <3>1. at \in Nat /\ e \in Nat /\ e > at /\ at <= e
      BY <1>1, <2>2, Sizes
    <3>2. e \in input.lists[1]
      BY <1>1, <2>2, Facts
    <3>. QED BY <1>2, <3>1, <3>2
  <2>3. \A e \in Wanted' : e \in Docs /\ \A k \in Lists : e \in input.lists[k]
    BY <1>2 DEF Wanted, Docs
  <2>. QED BY <1>2, <2>1, <2>2, <2>3 DEF NothingPassed
<1>11. UnionHeads'
  BY <1>1, <1>2 DEF UnionHeads, IsUnion
<1>. QED BY <1>5, <1>6, <1>7, <1>8, <1>9, <1>10, <1>11 DEF IInv

\* A pattern goes on from a document that does not match.
LEMMA NoMatchStep ==
  ASSUME IInv, NoMatch
  PROVE  IInv'
<1>1. /\ ~IsUnion /\ ~IsNew /\ pc = "found" /\ candidate /= Terminated
      /\ candidate \in Positions /\ input.kind = "pattern"
      /\ candidate \notin input.matching \cup input.panics
      /\ request' = request /\ furthest' = furthest
      /\ TypeOK /\ Len(input.lists) >= 2 /\ AdvanceLeft
      /\ \A k \in Lists : heads[k] = candidate
  BY DEF IInv, TypeOK, Control, Aligned, NoMatch, LooksAtPositions, IsUnion, IsNew
<1>2. /\ Lists' = Lists /\ input' = input /\ turn' = turn /\ at' = at /\ pc' = "right"
      /\ heads' \in [Lists -> Positions] /\ candidate' \in Positions
      /\ heads'[1] = candidate' /\ candidate' \in input.lists[1] \cup {Terminated}
      /\ \A k \in Lists : k = 1 \/ heads'[k] = candidate
      /\ candidate <= candidate' /\ candidate + 1 <= candidate'
      /\ \A e \in input.lists[1] : e > candidate => candidate' <= e
  BY <1>1, AdvanceLeftIs
<1>5. TypeOK'
  BY <1>1, <1>2 DEF TypeOK
<1>6. Control'
  BY <1>1, <1>2 DEF IInv, Control, IsUnion, IsNew
<1>7. HeadsAreDocs'
  BY <1>1, <1>2 DEF IInv, HeadsAreDocs
<1>8. Aligned'
  BY <1>1, <1>2, Facts, Sizes DEF Aligned
<1>9. AimReached'
  <2>1. request.aim <= candidate
    BY <1>1 DEF IInv, AimReached, Searching
  <2>. QED BY <1>1, <1>2, <2>1, Facts, Sizes DEF AimReached
<1>10. NothingPassed'
  <2>1. Wanted' = Wanted
    BY <1>1, <1>2 DEF Wanted, IsNew
  <2>2. ASSUME NEW e \in Wanted, e >= request.aim
        PROVE  candidate' <= e /\ \A k \in Lists : heads'[k] <= e
    <3>1. candidate <= e
      BY <1>1, <2>2 DEF IInv, NothingPassed, Searching
    <3>2. e /= candidate /\ e \in Docs /\ e \in input.lists[1]
      BY <1>1, Facts DEF Wanted
    <3>3. e > candidate
      BY <1>1, <3>1, <3>2, Sizes
    <3>. QED BY <1>2, <3>1, <3>2, <3>3
  <2>. QED BY <1>1, <1>2, <2>1, <2>2 DEF NothingPassed
<1>11. UnionHeads'
  BY <1>1, <1>2 DEF UnionHeads, IsUnion
<1>. QED BY <1>5, <1>6, <1>7, <1>8, <1>9, <1>10, <1>11 DEF IInv

\* A call of seek.
LEMMA IntersectionSeekStep ==
  ASSUME IInv, NEW aim \in at .. Terminated, IntersectionSeek(aim)
  PROVE  IInv'
<1>. DEFINE d == SeekIn(1, aim)
<1>1. /\ ~IsUnion /\ pc = "idle" /\ at \in Positions
      /\ request' = [op |-> "seek", aim |-> aim]
      /\ furthest' = IF aim > furthest THEN aim ELSE furthest
      /\ TypeOK /\ Len(input.lists) >= 2 /\ 1 \in Lists
      /\ \A k \in Lists : heads[k] = at
      /\ furthest \in Positions
      /\ heads' = [heads EXCEPT ![1] = d]
      /\ candidate' = Greatest(heads')
      /\ turn' = 1 /\ pc' = "first" /\ input' = input /\ at' = at /\ Lists' = Lists
  BY Facts DEF IInv, TypeOK, Control, Aligned, IntersectionSeek, Ask, Lists
<1>2. aim \in Positions /\ at <= aim /\ furthest' \in Positions /\ aim <= furthest'
  BY <1>1, Sizes
<1>3. /\ d \in input.lists[1] \cup {Terminated}
      /\ d \in Positions
      /\ aim <= d
      /\ \A e \in input.lists[1] : e >= aim /\ e >= heads[1] => d <= e
  BY <1>1, <1>2, SeekInIs, Facts DEF TypeOK
<1>. HIDE DEF d
<1>4. /\ heads' \in [Lists -> Positions]
      /\ heads'[1] = d /\ \A k \in Lists : k = 1 \/ heads'[k] = at
  BY <1>1, <1>3, Facts
<1>5. /\ \E k \in Lists : candidate' = heads'[k]
      /\ \A k \in Lists : heads'[k] <= candidate'
  <2>1. Len(input.lists) \in Nat \ {0} /\ heads' \in [1 .. Len(input.lists) -> Positions]
    BY <1>1, <1>4, Facts
  <2>. QED BY <1>1, <2>1, GreatestIs, Facts
<1>6. candidate' \in Positions
  BY <1>4, <1>5
<1>7. TypeOK'
  BY <1>1, <1>2, <1>4, <1>6, Facts DEF TypeOK
<1>8. Control'
  BY <1>1, <1>2 DEF IInv, Control, IsUnion, IsNew, NoRequest
<1>9. HeadsAreDocs'
  BY <1>1, <1>3, <1>4 DEF IInv, HeadsAreDocs
<1>10. Aligned'
  <2>1. \A k \in Lists : ~(k < turn')
    BY <1>1, Facts
  <2>. QED BY <1>1, <1>5, <2>1 DEF Aligned
<1>11. AimReached'
  <2>1. aim <= d /\ d <= candidate' /\ aim \in Nat /\ d \in Nat /\ candidate' \in Nat
    BY <1>1, <1>2, <1>3, <1>4, <1>5, <1>6, Sizes
  <2>. QED BY <1>1, <2>1 DEF AimReached
<1>12. NothingPassed'
  <2>1. request'.aim = aim
    BY <1>1
  <2>2. ASSUME NEW e \in Docs, \A k \in Lists : e \in input.lists[k], e >= aim
        PROVE  candidate' <= e /\ \A k \in Lists : heads'[k] <= e
    <3>1. at <= e
      BY <1>1, <1>2, <2>2, Sizes
    <3>2. d <= e
      BY <1>1, <1>3, <2>2, <3>1
    <3>3. \A k \in Lists : heads'[k] <= e
      BY <1>4, <3>1, <3>2
    <3>. QED BY <1>5, <3>3
  <2>3. \A e \in Wanted' : e \in Docs /\ \A k \in Lists : e \in input.lists[k]
    BY <1>1 DEF Wanted, Docs
  <2>. QED BY <1>1, <2>1, <2>2, <2>3 DEF NothingPassed
<1>13. UnionHeads'
  BY <1>1 DEF UnionHeads, IsUnion
<1>. QED BY <1>7, <1>8, <1>9, <1>10, <1>11, <1>12, <1>13 DEF IInv

\* A call returns.
LEMMA ReturnStep ==
  ASSUME IInv, Return
  PROVE  IInv'
<1>1. /\ ~IsUnion /\ pc = "found" /\ TypeOK
      /\ \A k \in Lists : heads[k] = candidate
      /\ at' = candidate /\ candidate \in Positions /\ furthest \in Positions
      /\ request' = NoRequest /\ pc' = "idle" /\ Lists' = Lists
      /\ UNCHANGED <<input, heads, furthest, candidate, turn>>
  BY DEF IInv, TypeOK, Control, Aligned, Return, Lists
<1>2. NoRequest \in [op : {"none", "new", "advance", "seek"}, aim : Positions]
  BY Sizes DEF NoRequest
<1>3. TypeOK'
  BY <1>1, <1>2 DEF TypeOK
<1>4. Control'
  BY <1>1, Sizes DEF IInv, Control, IsUnion, IsNew, NoRequest
<1>5. HeadsAreDocs' /\ Aligned' /\ AimReached' /\ NothingPassed' /\ UnionHeads'
  BY <1>1 DEF IInv, HeadsAreDocs, Aligned, AimReached, NothingPassed, UnionHeads,
              Searching, IsUnion
<1>. QED BY <1>3, <1>4, <1>5 DEF IInv

\* A pattern panics.
LEMMA IndexOutOfBoundsStep ==
  ASSUME IInv, IndexOutOfBounds
  PROVE  IInv'
<1>1. /\ ~IsUnion /\ pc = "found" /\ pc' = "panicked" /\ Lists' = Lists
      /\ UNCHANGED <<input, heads, request, at, furthest, candidate, turn>>
  BY DEF IInv, Control, IndexOutOfBounds, Lists
<1>2. TypeOK'
  BY <1>1 DEF IInv, TypeOK
<1>3. Control'
  BY <1>1 DEF IInv, Control, IsUnion, IsNew
<1>4. HeadsAreDocs' /\ Aligned' /\ AimReached' /\ NothingPassed' /\ UnionHeads'
  BY <1>1 DEF IInv, HeadsAreDocs, Aligned, AimReached, NothingPassed, UnionHeads,
              Searching, IsUnion
<1>. QED BY <1>2, <1>3, <1>4 DEF IInv

\* A call of a union.
LEMMA UnionCallStep ==
  ASSUME IInv, NEW op, NEW aim \in Positions, at /= Terminated,
         \/ op = "advance" /\ aim = at + 1
         \/ op = "seek" /\ aim >= at,
         UnionCall(op, aim)
  PROVE  IInv'
<1>1. /\ IsUnion /\ pc = "idle" /\ pc' = "heads" /\ Lists' = Lists
      /\ request' = [op |-> op, aim |-> aim]
      /\ furthest' = IF aim > furthest THEN aim ELSE furthest
      /\ UNCHANGED <<input, heads, at, candidate, turn>>
      /\ TypeOK /\ furthest \in Positions
  BY DEF IInv, Control, UnionCall, Ask, Lists
<1>2. furthest' \in Positions /\ aim <= furthest' /\ furthest <= furthest'
  BY <1>1, Sizes
<1>3. TypeOK'
  BY <1>1 DEF TypeOK
<1>4. Control'
  BY <1>1, <1>2 DEF IInv, Control, IsUnion, IsNew, NoRequest
<1>5. HeadsAreDocs' /\ Aligned' /\ AimReached' /\ NothingPassed'
  BY <1>1 DEF IInv, HeadsAreDocs, Aligned, AimReached, NothingPassed, Searching, IsUnion
<1>6. UnionHeads'
  <2>1. ASSUME NEW k \in Lists, NEW e \in input.lists[k], e >= furthest'
        PROVE  heads[k] <= e
    <3>1. e >= furthest
      BY <1>1, <1>2, <2>1, Facts, Sizes, SMTT(30)
    <3>. QED BY <1>1, <3>1 DEF IInv, UnionHeads
  <2>2. \A k \in Lists : at <= heads[k]
    BY <1>1 DEF IInv, UnionHeads
  <2>. QED BY <1>1, <2>1, <2>2 DEF UnionHeads
<1>. QED BY <1>3, <1>4, <1>5, <1>6 DEF IInv

\* A list leaves the heap and comes back.
LEMMA UnionMoveHeadStep ==
  ASSUME IInv, UnionMoveHead
  PROVE  IInv'
<1>1. /\ IsUnion /\ pc = "heads" /\ TypeOK /\ Lists' = Lists
      /\ UNCHANGED <<input, request, at, furthest, pc, candidate, turn>>
      /\ furthest \in Positions /\ request.aim <= furthest
  BY DEF IInv, Control, UnionMoveHead, Lists
<1>2. PICK k \in Lists : /\ heads[k] = at
                         /\ heads' = [heads EXCEPT ![k] = IF request.op = "seek"
                                        THEN SeekIn(k, request.aim) ELSE AdvanceIn(k)]
  BY DEF UnionMoveHead, OldHeads
<1>3. PICK d \in Positions : /\ heads' = [heads EXCEPT ![k] = d]
                             /\ d \in input.lists[k] \cup {Terminated}
                             /\ heads[k] <= d
                             /\ \A e \in input.lists[k] : e >= furthest => d <= e
  <2>1. CASE request.op = "seek"
    <3>1. /\ SeekIn(k, request.aim) \in input.lists[k] \cup {Terminated}
          /\ SeekIn(k, request.aim) \in Positions
          /\ heads[k] <= SeekIn(k, request.aim)
          /\ \A e \in input.lists[k] : e >= request.aim /\ e >= heads[k]
                                         => SeekIn(k, request.aim) <= e
      BY <1>1, SeekInIs, Facts
    <3>2. ASSUME NEW e \in input.lists[k], e >= furthest
          PROVE  e >= request.aim /\ e >= heads[k]
      <4>1. heads[k] <= e
        BY <1>1, <3>2 DEF IInv, UnionHeads
      <4>. QED BY <1>1, <3>2, <4>1, Facts, Sizes, SMTT(30)
    <3>. QED BY <1>2, <2>1, <3>1, <3>2
  <2>2. CASE request.op /= "seek"
    <3>1. /\ AdvanceIn(k) \in input.lists[k] \cup {Terminated}
          /\ AdvanceIn(k) \in Positions
          /\ heads[k] <= AdvanceIn(k)
          /\ \A e \in input.lists[k] : e > heads[k] => AdvanceIn(k) <= e
      BY <1>1, AdvanceInIs, Facts
    <3>2. request.aim = at + 1
      BY <1>1, <2>2 DEF IInv, UnionHeads
    <3>3. ASSUME NEW e \in input.lists[k], e >= furthest
          PROVE  e > heads[k]
      BY <1>1, <1>2, <3>2, <3>3, Facts, Sizes
    <3>. QED BY <1>2, <2>2, <3>1, <3>3
  <2>. QED BY <2>1, <2>2
<1>4. TypeOK'
  BY <1>1, <1>3, Facts DEF TypeOK
<1>5. Control'
  BY <1>1 DEF IInv, Control, IsUnion, IsNew
<1>6. HeadsAreDocs'
  BY <1>1, <1>3, Facts DEF IInv, HeadsAreDocs
<1>7. Aligned' /\ AimReached' /\ NothingPassed'
  BY <1>1 DEF Aligned, AimReached, NothingPassed, Searching, IsUnion
<1>8. UnionHeads'
  <2>1. \A j \in Lists : heads'[j] = IF j = k THEN d ELSE heads[j]
    BY <1>1, <1>3, Facts
  <2>2. \A j \in Lists : at <= heads'[j]
    BY <1>1, <1>2, <1>3, <2>1 DEF IInv, UnionHeads
  <2>3. \A j \in Lists : \A e \in input.lists[j] : e >= furthest => heads'[j] <= e
    BY <1>1, <1>3, <2>1 DEF IInv, UnionHeads
  <2>. QED BY <1>1, <2>2, <2>3 DEF IInv, UnionHeads
<1>. QED BY <1>4, <1>5, <1>6, <1>7, <1>8 DEF IInv

\* A call of a union returns.
LEMMA UnionReturnStep ==
  ASSUME IInv, UnionReturn
  PROVE  IInv'
<1>1. /\ IsUnion /\ pc' = "idle" /\ TypeOK /\ Lists' = Lists
      /\ at' = Least(heads) /\ request' = NoRequest
      /\ UNCHANGED <<input, heads, furthest, candidate, turn>>
      /\ furthest \in Positions
  BY DEF IInv, Control, UnionReturn, Lists
<1>2. Least(heads) \in Positions /\ \A k \in Lists : Least(heads) <= heads[k]
  BY <1>1, LeastIs, Facts
<1>3. NoRequest \in [op : {"none", "new", "advance", "seek"}, aim : Positions]
  BY Sizes DEF NoRequest
<1>4. TypeOK'
  BY <1>1, <1>2, <1>3 DEF TypeOK
<1>5. Control'
  BY <1>1, Sizes DEF IInv, Control, IsUnion, IsNew, NoRequest
<1>6. HeadsAreDocs' /\ Aligned' /\ AimReached' /\ NothingPassed' /\ UnionHeads'
  BY <1>1, <1>2 DEF IInv, HeadsAreDocs, Aligned, AimReached, NothingPassed, UnionHeads,
              Searching, IsUnion
<1>. QED BY <1>4, <1>5, <1>6 DEF IInv

\* The invariant holds of a new DocSet.
LEMMA InitIInv == Init => IInv
<1>. SUFFICES ASSUME Init PROVE IInv
  OBVIOUS
<1>1. /\ input \in Inputs /\ heads = FirstHeads(input) /\ turn = 1 /\ furthest = 0
      /\ input.kind \in {"union", "intersection", "pattern"}
      /\ input.lists \in Seq(SUBSET Docs)
      /\ Len(input.lists) \in Nat /\ Lists = 1 .. Len(input.lists)
      /\ 0 \in Positions /\ 0 \in Nat
  BY DocSetsAssumption, Sizes DEF Init, Docs, Lists
<1>2. \A k \in Lists :
        /\ heads[k] \in input.lists[k] \cup {Terminated}
        /\ heads[k] \in Positions /\ 0 <= heads[k]
        /\ \A e \in input.lists[k] : e >= 0 => heads[k] <= e
  BY <1>1, FirstFromIs DEF FirstHeads
<1>3. heads \in [Lists -> Positions]
  BY <1>1, <1>2 DEF FirstHeads
<1>4. HeadsAreDocs
  BY <1>2 DEF HeadsAreDocs
<1>5. NoRequest \in [op : {"none", "new", "advance", "seek"}, aim : Positions]
  BY <1>1 DEF NoRequest
<1>6. turn \in 1 .. (IF Len(input.lists) = 0 THEN 1 ELSE Len(input.lists))
  BY <1>1
<1>7. CASE IsUnion
  <2>1. pc = "idle" /\ at = Least(heads) /\ candidate = 0 /\ request = NoRequest
    BY <1>7 DEF Init
  <2>2. Least(heads) \in Positions /\ \A k \in Lists : Least(heads) <= heads[k]
    BY <1>1, <1>3, LeastIs
  <2>3. TypeOK
    BY <1>1, <1>3, <1>5, <1>6, <2>1, <2>2 DEF TypeOK
  <2>4. Control
    BY <1>1, <1>7, <2>1 DEF Control, IsNew, NoRequest
  <2>5. Aligned /\ AimReached /\ NothingPassed
    BY <1>7, <2>1 DEF Aligned, AimReached, NothingPassed, Searching
  <2>6. UnionHeads
    BY <1>1, <1>2, <2>1, <2>2 DEF UnionHeads
  <2>. QED BY <1>4, <2>3, <2>4, <2>5, <2>6 DEF IInv
<1>8. CASE ~IsUnion /\ Len(input.lists) < 2
  <2>1. pc = "panicked" /\ at = 0 /\ candidate = 0 /\ request = [op |-> "new", aim |-> 0]
    BY <1>8 DEF Init
  <2>2. TypeOK
    BY <1>1, <1>3, <1>6, <2>1 DEF TypeOK
  <2>3. Control
    BY <1>1, <1>8, <2>1 DEF Control, IsNew, NoRequest
  <2>4. Aligned /\ AimReached /\ NothingPassed /\ UnionHeads
    BY <1>8, <2>1 DEF Aligned, AimReached, NothingPassed, UnionHeads, Searching
  <2>. QED BY <1>4, <2>2, <2>3, <2>4 DEF IInv
<1>9. CASE ~IsUnion /\ ~(Len(input.lists) < 2)
  <2>1. pc = "first" /\ at = 0 /\ candidate = Greatest(heads)
        /\ request = [op |-> "new", aim |-> 0]
    BY <1>9 DEF Init
  <2>2. Len(input.lists) >= 2 /\ Len(input.lists) \in Nat \ {0}
    BY <1>1, <1>9
  <2>3. /\ \E k \in Lists : candidate = heads[k]
        /\ \A k \in Lists : heads[k] <= candidate
    BY <1>1, <1>3, <2>1, <2>2, GreatestIs
  <2>4. candidate \in Positions /\ 0 <= candidate
    BY <1>2, <2>3
  <2>5. TypeOK
    BY <1>1, <1>3, <1>6, <2>1, <2>4 DEF TypeOK
  <2>6. Control
    BY <1>1, <1>9, <2>1, <2>2 DEF Control, IsNew, NoRequest
  <2>7. Aligned
    BY <1>1, <2>1, <2>3 DEF Aligned
  <2>8. AimReached
    BY <2>1, <2>4 DEF AimReached
  <2>9. NothingPassed
    <3>1. ASSUME NEW e \in Wanted
          PROVE  candidate <= e /\ \A k \in Lists : heads[k] <= e
      <4>1. e \in Nat /\ \A k \in Lists : e \in input.lists[k]
        BY Sizes DEF Wanted
      <4>2. \A k \in Lists : heads[k] <= e
        BY <1>2, <4>1
      <4>. QED BY <2>3, <4>2
    <3>. QED BY <3>1 DEF NothingPassed
  <2>10. UnionHeads
    BY <1>9 DEF UnionHeads
  <2>. QED BY <1>4, <2>5, <2>6, <2>7, <2>8, <2>9, <2>10 DEF IInv
<1>. QED BY <1>7, <1>8, <1>9

\* Every step keeps it.
LEMMA NextIInv == IInv /\ [Next]_vars => IInv'
<1>. SUFFICES ASSUME IInv, [Next]_vars PROVE IInv'
  OBVIOUS
<1>0. at \in Positions
  BY DEF IInv, TypeOK
<1>1. CASE IntersectionAdvance
  BY <1>1, IntersectionAdvanceStep
<1>2. CASE at /= Terminated /\ UnionCall("advance", at + 1)
  <2>1. PICK next \in Positions : next = at + 1
    BY <1>0, <1>2, Sizes
  <2>2. at /= Terminated /\ UnionCall("advance", next)
    BY <1>2, <2>1
  <2>. QED BY <2>1, <2>2, UnionCallStep
<1>3. ASSUME at /= Terminated, NEW aim \in at .. Terminated,
             IntersectionSeek(aim) \/ UnionCall("seek", aim)
      PROVE  IInv'
  <2>1. aim \in Positions /\ aim >= at
    BY <1>0, Sizes
  <2>2. CASE IntersectionSeek(aim)
    BY <2>2, IntersectionSeekStep
  <2>3. CASE UnionCall("seek", aim)
    BY <1>3, <2>1, <2>3, UnionCallStep
  <2>. QED BY <1>3, <2>2, <2>3
<1>4. CASE Work
  BY <1>4, UnionMoveHeadStep, UnionReturnStep, GoToFirstStep, SeekRightStep, SeekLeftStep,
     SeekOtherStep, ReturnStep, NoMatchStep, IndexOutOfBoundsStep DEF Work
<1>5. CASE UNCHANGED vars
  BY <1>5 DEF vars, IInv, TypeOK, Control, HeadsAreDocs, Aligned, AimReached,
     NothingPassed, UnionHeads, Searching, Wanted, IsUnion, IsNew, Lists
<1>. QED BY <1>1, <1>2, <1>3, <1>4, <1>5 DEF Next, Advance, Seek

\* It holds always.
LEMMA IInvAlways == Spec => []IInv
  BY InitIInv, NextIInv, PTL DEF Spec

(* The heads of the posting lists, the candidate and what the calls return   *)
(* stay within the documents and the end that tantivy calls TERMINATED.      *)
THEOREM TypeCorrect == Spec => []TypeOK
<1>1. IInv => TypeOK
  BY DEF IInv
<1>. QED BY <1>1, IInvAlways, PTL

(* What Intersection::advance and go_to_first_doc assert of their lists, and *)
(* the callers of seek of its result, holds for any lists: no list is asked  *)
(* to go back, and all of them stand on the document that is returned.       *)
THEOREM AssertionsHold == Spec => []DebugAssertionsHold
<1>1. IInv => DebugAssertionsHold
  <2>. SUFFICES ASSUME IInv PROVE DebugAssertionsHold
    OBVIOUS
  <2>1. TypeOK /\ Lists = 1 .. Len(input.lists)
    BY Facts DEF IInv
  <2>2. pc = "first" => heads[turn] <= candidate
    BY <2>1, Facts DEF IInv, Aligned, Control, IsUnion, TypeOK
  <2>3. pc = "right" => heads[1] = candidate /\ heads[2] <= candidate
    BY <2>1, Facts DEF IInv, Aligned, Control
  <2>4. pc = "left" => heads[1] <= heads[2]
    BY <2>1 DEF IInv, Aligned
  <2>5. pc = "others" => /\ heads[1] = candidate /\ heads[2] = candidate
                         /\ heads[turn] <= candidate
    BY <2>1, Facts DEF IInv, Aligned, Control
  <2>6. pc = "found" => /\ \A k \in Lists : heads[k] = candidate
                        /\ candidate >= request.aim
    BY <2>1, Facts DEF IInv, Aligned, AimReached, Searching
  <2>. QED BY <2>2, <2>3, <2>4, <2>5, <2>6 DEF DebugAssertionsHold
<1>. QED BY <1>1, IInvAlways, PTL
-----------------------------------------------------------------------------
(* Every DocSet is a cursor.                                                 *)

Common == {d \in Docs : \A k \in Lists : d \in input.lists[k]}
Where == IF IsNew THEN FirstOf(Common) ELSE at
Asked == IF IsNew THEN NoRequest ELSE request

\* The abstract definitions, over the state of the DocSet.
LEMMA AbstractIs ==
  /\ Abstract!Init <=> Where \in Positions /\ Asked = NoRequest /\ furthest = 0
  /\ Abstract!vars = <<Found, ~IsUnion, Where, Asked, furthest>>
  BY DEF Abstract!Init, Abstract!vars, Abstract!Positions, Abstract!NoRequest, Positions,
         Where, Asked, Common, NoRequest

\* There is one first document.
LEMMA FirstOfIs ==
  ASSUME NEW S \in SUBSET Docs
  PROVE  /\ FirstOf(S) \in S \cup {Terminated} /\ FirstOf(S) \in Positions
         /\ \A c \in S \cup {Terminated} : (\A e \in S : c <= e) => c = FirstOf(S)
<1>. DEFINE T == S \cup {Terminated}
            P(d) == \A e \in S : d <= e
<1>1. T \in SUBSET Nat /\ T /= {} /\ T \in SUBSET Positions
  BY Sizes
<1>2. PICK m \in T : \A n \in T : m <= n
  BY <1>1, NatMin
<1>3. FirstOf(S) \in T /\ P(FirstOf(S))
  <2>1. m \in T /\ P(m)
    BY <1>2
  <2>. QED BY <2>1, Zenon DEF FirstOf
<1>4. ASSUME NEW c \in T, P(c)
      PROVE  c = FirstOf(S)
  <2>1. CASE c \in S /\ FirstOf(S) \in S
    <3>1. c <= FirstOf(S) /\ FirstOf(S) <= c
      BY <1>3, <1>4, <2>1
    <3>. QED BY <1>1, <1>3, <3>1
  <2>2. CASE c = Terminated /\ FirstOf(S) \in S
    <3>1. Terminated <= FirstOf(S)
      BY <1>4, <2>2
    <3>2. FirstOf(S) \in Docs
      BY <2>2
    <3>. QED BY <2>2, <3>1, <3>2, Sizes
  <2>3. CASE c \in S /\ FirstOf(S) = Terminated
    <3>1. Terminated <= c
      BY <1>3, <2>3
    <3>2. c \in Docs
      BY <2>3
    <3>. QED BY <2>3, <3>1, <3>2, Sizes
  <2>. QED BY <1>3, <2>1, <2>2, <2>3
<1>. QED BY <1>1, <1>3, <1>4

\* A step within a call is a stutter of the cursor.
LEMMA Stutter ==
  ASSUME Keeps
  PROVE  UNCHANGED Abstract!vars
<1>1. Lists' = Lists /\ Common' = Common /\ Found' = Found /\ IsUnion' = IsUnion
  BY DEF Keeps, Lists, Common, Found, IsUnion
<1>2. Where' = Where /\ Asked' = Asked
  BY <1>1 DEF Keeps, Where, Asked, IsNew, FirstOf
<1>3. Abstract!vars' = <<Found', ~IsUnion', Where', Asked', furthest'>>
  BY DEF Abstract!vars, Where, Asked, Common, Abstract!NoRequest, NoRequest
<1>. QED BY <1>1, <1>2, <1>3, AbstractIs DEF Keeps

\* A call is a call of the cursor.
LEMMA CallIs ==
  ASSUME IInv, pc = "idle", at /= Terminated, input' = input, at' = at,
         NEW op, NEW aim, Ask(op, aim),
         \/ op = "advance" /\ aim = at + 1
         \/ op = "seek" /\ aim \in at .. Terminated
  PROVE  Abstract!Next
<1>1. /\ request = NoRequest /\ ~IsNew /\ ~IsNew'
      /\ request' = [op |-> op, aim |-> aim]
  BY DEF IInv, Control, Ask, NoRequest, IsNew
<1>2. Found' = Found /\ IsUnion' = IsUnion
  BY DEF Found, Lists, IsUnion
<1>3. Abstract!Ask(op, aim)
  BY <1>1, <1>2 DEF Abstract!Ask, Ask
<1>4. CASE op = "advance" /\ aim = at + 1
  <2>1. Abstract!CallAdvance
    BY <1>1, <1>3, <1>4 DEF Abstract!CallAdvance, Abstract!NoRequest, NoRequest,
       Abstract!Terminated, Terminated
  <2>. QED BY <2>1 DEF Abstract!Next
<1>5. CASE op = "seek" /\ aim \in at .. Terminated
  <2>1. Abstract!CallSeek
    BY <1>1, <1>3, <1>5 DEF Abstract!CallSeek, Abstract!NoRequest, NoRequest,
       Abstract!Terminated, Terminated
  <2>. QED BY <2>1 DEF Abstract!Next
<1>. QED BY <1>4, <1>5

\* Where an intersection or pattern returns, all lists have a document.
LEMMA CandidateIs ==
  ASSUME IInv, pc = "found"
  PROVE  /\ ~IsUnion /\ candidate \in Common \cup {Terminated}
         /\ candidate >= request.aim
         /\ \A e \in Wanted : e >= request.aim => candidate <= e
<1>1. /\ ~IsUnion /\ TypeOK /\ 1 \in Lists
      /\ \A k \in Lists : heads[k] = candidate /\ candidate \in input.lists[k] \cup {Terminated}
  BY Facts DEF IInv, Control, Aligned, HeadsAreDocs
<1>2. candidate \in Common \cup {Terminated}
  BY <1>1, Facts DEF Common
<1>. QED BY <1>1, <1>2, Facts DEF IInv, AimReached, NothingPassed, Searching

\* A return of an intersection or a pattern answers the call; for a new one, the
\* cursor is there already.
LEMMA ReturnIs ==
  ASSUME \A in \in Inputs : MeaningIsRight(in), IInv, Return
  PROVE  [Abstract!Next]_(Abstract!vars)
<1>1. /\ pc = "found" /\ ~IsUnion /\ at' = candidate /\ request' = NoRequest
      /\ input' = input /\ furthest' = furthest /\ ~IsNew' /\ request /= NoRequest
      /\ input \in Inputs /\ furthest \in Positions /\ request.aim <= furthest
      /\ LooksAtPositions => candidate \in input.matching
      /\ TypeOK
  BY CandidateIs DEF IInv, Control, Return, IsNew, NoRequest
<1>2. Found' = Found /\ IsUnion' = IsUnion
  BY <1>1 DEF Found, Lists, IsUnion
<1>3. /\ candidate \in Common \cup {Terminated} /\ candidate \in Positions
      /\ candidate >= request.aim
      /\ \A e \in Wanted : e >= request.aim => candidate <= e
  BY <1>1, CandidateIs DEF TypeOK
<1>4. CASE IsNew
  <2>1. request.aim = 0 /\ Wanted = Common
    BY <1>4 DEF IInv, Control, Wanted, Common
  <2>2. \A e \in Common : candidate <= e
    BY <1>3, <2>1, Sizes DEF Common
  <2>3. candidate = FirstOf(Common)
    BY <1>3, <2>2, FirstOfIs DEF Common
  <2>4. Where' = Where /\ Asked' = Asked
    BY <1>1, <1>4, <2>3 DEF Where, Asked
  <2>5. Abstract!vars' = <<Found', ~IsUnion', Where', Asked', furthest'>>
    BY DEF Abstract!vars, Where, Asked, Common, Abstract!NoRequest, NoRequest
  <2>. QED BY <1>1, <1>2, <2>4, <2>5, AbstractIs
<1>5. CASE ~IsNew
  <2>1. \A d \in Docs : (\A k \in Lists : d \in input.lists[k]) /\ input.kind = "pattern" =>
          /\ d \in input.matching => d \in input.meaning
          /\ d \in input.meaning => d \in input.matching \cup input.panics
    BY <1>1 DEF MeaningIsRight, Lists
  <2>2. input.kind \in {"intersection", "pattern"}
    BY <1>1, DocSetsAssumption DEF IsUnion
  <2>3. Found \in SUBSET Docs /\ Found \in SUBSET Wanted
    BY <2>1, <2>2 DEF Found, Wanted, IsUnion
  <2>4. candidate \in Found \cup {Terminated}
    BY <1>1, <1>3, <1>5, <2>1, <2>2 DEF Found, Common, LooksAtPositions, IsNew, IsUnion
  <2>5. \A e \in Found : e >= furthest => candidate <= e
    <3>1. ASSUME NEW e \in Found, e >= furthest PROVE e >= request.aim
      BY <1>1, <2>3, <3>1, Facts, Sizes
    <3>. QED BY <1>3, <2>3, <3>1
  <2>6. Abstract!Lands(candidate)
    BY <1>1, <1>3, <1>5, <2>4, <2>5 DEF Abstract!Lands, Abstract!LowerBound,
       Abstract!Terminated, Terminated
  <2>7. Abstract!Answer
    BY <1>1, <1>2, <1>3, <1>5, <2>6 DEF Abstract!Answer, Abstract!NoRequest, NoRequest,
       Abstract!Positions, Positions
  <2>. QED BY <2>7 DEF Abstract!Next
<1>. QED BY <1>4, <1>5

\* A return of a union answers the call, possibly short of a seek's aim.
LEMMA UnionReturnIs ==
  ASSUME IInv, UnionReturn
  PROVE  Abstract!Next
<1>. DEFINE d == Least(heads)
<1>1. /\ pc = "heads" /\ IsUnion /\ at' = d /\ request' = NoRequest
      /\ input' = input /\ furthest' = furthest /\ ~StillOld
      /\ ~IsNew' /\ ~IsNew /\ request /= NoRequest
      /\ input.kind = "union"
      /\ TypeOK
  BY DEF IInv, Control, UnionReturn, IsNew, NoRequest, IsUnion
<1>2. Found' = Found /\ IsUnion' = IsUnion
  BY <1>1 DEF Found, Lists, IsUnion
<1>3. /\ d \in {heads[k] : k \in Lists} \cup {Terminated}
      /\ d \in Positions
      /\ \A k \in Lists : d <= heads[k]
  BY <1>1, LeastIs, Facts
<1>4. /\ \A k \in Lists : at <= heads[k]
      /\ \A k \in Lists : \A e \in input.lists[k] : e >= furthest => heads[k] <= e
      /\ \/ request.op = "advance" /\ request.aim = at + 1 /\ at /= Terminated
         \/ request.op = "seek" /\ request.aim >= at
  BY <1>1 DEF IInv, UnionHeads
<1>5. at <= d
  BY <1>1, <1>3, <1>4, Facts, Sizes DEF TypeOK
<1>6. Abstract!LowerBound <= d
  <2>1. CASE request.op = "advance"
    <3>1. ~(\E k \in Lists : heads[k] = at /\ at = d)
      BY <1>1, <2>1 DEF StillOld, OldHeads
    <3>2. d /= at
      BY <1>3, <1>4, <2>1, <3>1
    <3>3. d >= at + 1
      BY <1>1, <1>3, <1>5, <3>2, Facts, Sizes
    <3>. QED BY <1>1, <1>4, <2>1, <3>3 DEF Abstract!LowerBound
  <2>2. CASE request.op = "seek"
    BY <1>1, <1>5, <2>2 DEF Abstract!LowerBound
  <2>. QED BY <1>4, <2>1, <2>2
<1>7. d \in Found \cup {Terminated}
  <2>1. ASSUME d /= Terminated
        PROVE  d \in Docs /\ \E k \in Lists : d \in input.lists[k]
    <3>1. PICK k \in Lists : d = heads[k]
      BY <1>3, <2>1
    <3>. QED BY <1>1, <2>1, <3>1, Facts DEF IInv, HeadsAreDocs
  <2>. QED BY <1>1, <2>1 DEF Found
<1>8. ASSUME NEW e \in Found, e >= furthest
      PROVE  d <= e
  <2>1. PICK k \in Lists : e \in input.lists[k]
    BY <1>1 DEF Found
  <2>2. d <= heads[k] /\ heads[k] <= e
    BY <1>3, <1>4, <1>8, <2>1
  <2>. QED BY <1>1, <1>3, <2>1, <2>2, Facts, Sizes
<1>. HIDE DEF d
<1>9. Abstract!Lands(d)
  BY <1>1, <1>3, <1>6, <1>7, <1>8 DEF Abstract!Lands, Abstract!Terminated, Terminated,
     Abstract!LowerBound
<1>10. Abstract!Answer
  BY <1>1, <1>2, <1>3, <1>9 DEF Abstract!Answer, Abstract!NoRequest, NoRequest,
     Abstract!Positions, Positions
<1>. QED BY <1>10 DEF Abstract!Next

\* A new DocSet is a new cursor.
LEMMA InitIs == Init => Abstract!Init
<1>. SUFFICES ASSUME Init PROVE Where \in Positions /\ Asked = NoRequest /\ furthest = 0
  BY AbstractIs
<1>1. IInv /\ TypeOK
  BY InitIInv DEF IInv
<1>2. CASE IsUnion
  BY <1>1, <1>2 DEF Init, Where, Asked, IsNew, NoRequest, TypeOK
<1>3. CASE ~IsUnion
  <2>1. IsNew /\ furthest = 0
    BY <1>3 DEF Init, IsNew
  <2>2. Common \in SUBSET Docs
    BY DEF Common
  <2>. QED BY <2>1, <2>2, FirstOfIs DEF Where, Asked
<1>. QED BY <1>2, <1>3

\* Every step is a step of the cursor or none.
LEMMA NextIs ==
  ASSUME \A in \in Inputs : MeaningIsRight(in), IInv, [Next]_vars
  PROVE  [Abstract!Next]_(Abstract!vars)
<1>1. CASE IntersectionAdvance
  <2>1. pc = "idle" /\ at /= Terminated /\ Ask("advance", at + 1) /\ input' = input /\ at' = at
    BY <1>1 DEF IntersectionAdvance, AdvanceLeft
  <2>. QED BY <2>1, CallIs
<1>2. CASE at /= Terminated /\ UnionCall("advance", at + 1)
  <2>1. pc = "idle" /\ at /= Terminated /\ Ask("advance", at + 1) /\ input' = input /\ at' = at
    BY <1>2 DEF UnionCall
  <2>. QED BY <2>1, CallIs
<1>3. ASSUME at /= Terminated, NEW aim \in at .. Terminated,
             IntersectionSeek(aim) \/ UnionCall("seek", aim)
      PROVE  Abstract!Next
  <2>1. pc = "idle" /\ Ask("seek", aim) /\ input' = input /\ at' = at
    BY <1>3 DEF IntersectionSeek, UnionCall
  <2>. QED BY <1>3, <2>1, CallIs
<1>4. CASE Return
  BY <1>4, ReturnIs
<1>5. CASE UnionReturn
  BY <1>5, UnionReturnIs
<1>6. CASE \/ UnionMoveHead \/ GoToFirst \/ SeekRight \/ SeekLeft \/ SeekOther
           \/ NoMatch \/ IndexOutOfBounds \/ UNCHANGED vars
  <2>1. Keeps
    BY <1>6 DEF Keeps, UnionMoveHead, GoToFirst, SeekRight, SeekLeft, SeekOther, NoMatch,
       AdvanceLeft, IndexOutOfBounds, vars
  <2>. QED BY <2>1, Stutter
<1>. QED BY <1>1, <1>2, <1>3, <1>4, <1>5, <1>6 DEF Next, Advance, Seek, Work

(* Union, Intersection and PatternScorer are cursors: each call goes to the  *)
(* first document from its aim on that is in some list, in all lists, or in  *)
(* all lists and a match, and skips none, provided that the positions say    *)
(* what the pattern means (MeaningIsRight).                                  *)
THEOREM Implementation ==
  ASSUME \A in \in Inputs : MeaningIsRight(in)
  PROVE  Spec => ImplementsCursor
<1>1. Init => Abstract!Init
  BY InitIs
<1>2. IInv /\ [Next]_vars => [Abstract!Next]_(Abstract!vars)
  BY NextIs
<1>. QED BY <1>1, <1>2, IInvAlways, PTL DEF Spec, ImplementsCursor, Abstract!Spec
=============================================================================
