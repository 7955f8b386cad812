-------------------------- MODULE MapReduceProofs --------------------------
(***************************************************************************)
(* For any number of workers and jobs:                                     *)
(*  - the worker pool of the map-reduce manager neither leaks a worker nor *)
(*    hands one out twice, its counter is right between any two steps, and *)
(*    the manager gives up only when a job has failed on every worker, and *)
(*    blocks its thread for want of one only when a job has failed on some;*)
(*  - a job is mapped again only at the price of a worker;                 *)
(*  - the manager implements ReduceOnce: whatever fails and is done again  *)
(*    on another worker, each job is reduced once before run returns.      *)
(***************************************************************************)
EXTENDS MapReduce, FiniteSetTheorems, SequenceTheorems, TLAPS

\* A future holds a guard exactly between taking a worker and dropping it.
HoldingStates == {"connect", "await", "failed", "push", "drop"}
GuardsAreHeld == \A j \in Jobs : guard[j] /= NoOne <=> future[j] \in HoldingStates

\* Only futures of the chunk that is being mapped are under way.
OthersAreIdle ==
  \A j \in Jobs : \/ future[j] \in {"unstarted", "done"}
                  \/ phase \in {"mapping", "panicked"} /\ j \in ChunkOf(chunk)

\* WorkersAreAccountedFor, element by element.
EachIsSomewhere ==
  \A w \in Workers : \/ \E i \in 1 .. Len(ready) : ready[i] = w
                     \/ \E j \in Active : guard[j] = w
                     \/ w \in lost
NoneIsTwice ==
  /\ \A i \in 1 .. Len(ready) : ready[i] \notin lost /\ \A j \in Active : ready[i] /= guard[j]
  /\ \A j \in Active : guard[j] \notin lost
  /\ \A i, k \in 1 .. Len(ready) : ready[i] = ready[k] => i = k
  /\ \A j, k \in Active : guard[j] = guard[k] => j = k

IInv == /\ TypeOK
        /\ GuardsAreHeld
        /\ OthersAreIdle
        /\ RunningCountsGuards
        /\ EachIsSomewhere
        /\ NoneIsTwice
        /\ PanicsOnlyWithoutWorkers
        /\ SleepsOnlyAfterFailures

----------------------------------------------------------------------------
\* No number stands for a worker and for none.
LEMMA NoOneIsNoWorker == NoOne \notin Workers /\ NoOne \notin Jobs
  BY MapReduceAssumption DEF NoOne, Workers, Jobs

LEMMA JobsAreFinite == IsFiniteSet(Jobs)
  BY MapReduceAssumption, FS_Interval DEF Jobs

\* The elements of a stack after a push and after a pop.
LEMMA PushElements ==
  ASSUME NEW S, NEW s \in Seq(S), NEW e \in S
  PROVE  /\ Append(s, e) \in Seq(S)
         /\ Len(Append(s, e)) = Len(s) + 1
         /\ \A i \in 1 .. Len(s) : Append(s, e)[i] = s[i]
         /\ Append(s, e)[Len(s) + 1] = e
  OBVIOUS

LEMMA PrefixLength ==
  ASSUME NEW S, NEW s, NEW n \in Nat, \A i \in 1 .. n : s[i] \in S
  PROVE  Len(SubSeq(s, 1, n)) = n
<1>1. Len(SubSeq(s, 1, n)) = IF 1 <= n THEN n - 1 + 1 ELSE 0
  BY SubSeqProperties
<1>2. QED
  BY <1>1

LEMMA PopElements ==
  ASSUME NEW S, NEW s \in Seq(S), s /= <<>>
  PROVE  /\ Len(s) \in Nat \ {0}
         /\ SubSeq(s, 1, Len(s) - 1) \in Seq(S)
         /\ Len(SubSeq(s, 1, Len(s) - 1)) = Len(s) - 1
         /\ \A i \in 1 .. Len(s) - 1 : SubSeq(s, 1, Len(s) - 1)[i] = s[i]
         /\ s[Len(s)] \in S
<1>1. Len(s) \in Nat \ {0}
  BY EmptySeq
<1>2. \A i \in 1 .. Len(s) : s[i] \in S
  BY ElementOfSeq
<1>3. SubSeq(s, 1, Len(s) - 1) \in Seq(S)
  BY <1>1, <1>2, SubSeqProperties
<1>4. Len(SubSeq(s, 1, Len(s) - 1)) = Len(s) - 1
  <2>1. Len(s) - 1 \in Nat
    BY <1>1
  <2>2. \A i \in 1 .. Len(s) - 1 : s[i] \in S
    BY <1>1, <1>2
  <2>3. QED
    BY <2>1, <2>2, PrefixLength
<1>5. \A i \in 1 .. Len(s) - 1 : SubSeq(s, 1, Len(s) - 1)[i] = s[i]
  BY <1>1, <1>2, SubSeqProperties
<1>6. QED
  BY <1>1, <1>2, <1>3, <1>4, <1>5

\* A future in one of the holding states holds a worker, and is counted.
LEMMA HeldIsFinite == IsFiniteSet(Held)
<1>1. Held \in SUBSET Jobs
  BY DEF Held
<1>2. QED
  BY <1>1, JobsAreFinite, FS_Subset

LEMMA HoldersAreCounted ==
  ASSUME TypeOK, GuardsAreHeld, RunningCountsGuards,
         NEW j \in Jobs, future[j] \in HoldingStates
  PROVE  guard[j] \in Workers /\ j \in Held /\ running - 1 \in Nat
<1>1. guard[j] \in Workers /\ j \in Held
  BY DEF TypeOK, GuardsAreHeld, Held
<1>2. Cardinality(Held) \in Nat /\ Cardinality(Held) /= 0
  BY <1>1, HeldIsFinite, FS_CardinalityType, FS_EmptySet
<1>3. QED
  BY <1>1, <1>2 DEF RunningCountsGuards

----------------------------------------------------------------------------
\* Types.
LEMMA TypeInit == Init => TypeOK
  BY MapReduceAssumption
     DEF Init, TypeOK, Workers, Jobs, NoOne, Stop, Futures, ChunkOf

LEMMA TypeFuture ==
  ASSUME TypeOK, RunningCountsGuards, GuardsAreHeld,
         NEW j \in Jobs, FutureStep(j)
  PROVE  TypeOK'
<1> USE DEF TypeOK, Futures, managerVars, workerVars
<1>1. CASE TakeWorker(j)
  BY <1>1, PopElements, NoOneIsNoWorker DEF TakeWorker
<1>2. CASE Panic(j)
  BY <1>2 DEF Panic
<1>3. CASE Connect(j)
  <2>1. guard[j] \in Workers
    BY <1>3, HoldersAreCounted DEF Connect, HoldingStates
  <2>2. inbox' \in [Workers -> Seq(Jobs \cup {Stop})]
    BY <1>3, <2>1 DEF Connect
  <2>3. QED
    BY <1>3, <2>1, <2>2 DEF Connect
<1>4. CASE PerformFails(j)
  BY <1>4 DEF PerformFails
<1>5. CASE DropFailed(j)
  BY <1>5, HoldersAreCounted DEF DropFailed, HoldingStates
<1>6. CASE Receive(j)
  BY <1>6 DEF Receive
<1>7. CASE PushWorker(j)
  BY <1>7, HoldersAreCounted DEF PushWorker, HoldingStates
<1>8. CASE DropGuard(j)
  BY <1>8, HoldersAreCounted DEF DropGuard, HoldingStates
<1>9. CASE Sleep(j)
  BY <1>9 DEF Sleep
<1>10. CASE Yield(j)
  BY <1>10 DEF Yield
<1>11. QED
  BY <1>1, <1>2, <1>3, <1>4, <1>5, <1>6, <1>7, <1>8, <1>9, <1>10 DEF FutureStep

LEMMA TypeRun ==
  ASSUME TypeOK, RunStep \/ StopStep
  PROVE  TypeOK'
<1> USE DEF TypeOK, Futures, managerVars, workerVars
<1>1. CASE Collect
  BY <1>1 DEF Collect
<1>2. CASE Reduce
  <2>1. Head(results) \in Jobs /\ Tail(results) \in Seq(Jobs)
    BY <1>2, HeadTailProperties DEF Reduce
  <2>2. QED
    BY <1>2, <2>1 DEF Reduce
<1>3. CASE NextChunk
  BY <1>3 DEF NextChunk
<1>4. CASE StopConnect
  <2>1. inbox' \in [Workers -> Seq(Jobs \cup {Stop})]
    BY <1>4 DEF StopConnect
  <2>2. stopping' \in [who : 1 .. NWorkers + 1, sent : BOOLEAN]
    BY <1>4 DEF StopConnect
  <2>3. answer' \in [Workers -> {"none", "content", "empty"}]
    BY <1>4 DEF StopConnect
  <2>4. QED
    BY <1>4, <2>1, <2>2, <2>3 DEF StopConnect
<1>5. CASE StopReceive
  BY <1>5, MapReduceAssumption, SMTT(30) DEF StopReceive, NextToStop, Workers
<1>6. CASE StopFails
  <2>1. stopping' \in [who : 1 .. NWorkers + 1, sent : BOOLEAN]
    BY <1>6, MapReduceAssumption DEF StopFails, NextToStop, Workers
  <2>2. QED
    BY <1>6, <2>1 DEF StopFails
<1>7. CASE Return
  BY <1>7 DEF Return
<1>8. QED
  BY <1>1, <1>2, <1>3, <1>4, <1>5, <1>6, <1>7 DEF RunStep, StopStep

LEMMA TypeWorker ==
  ASSUME TypeOK, NEW w \in Workers, WorkerStep(w) \/ Crash(w)
  PROVE  TypeOK'
<1> USE DEF TypeOK, managerVars, workerVars
<1>1. CASE AcceptJob(w)
  <2>1. Tail(inbox[w]) \in Seq(Jobs \cup {Stop})
    BY <1>1, HeadTailProperties DEF AcceptJob
  <2>2. QED
    BY <1>1, <2>1 DEF AcceptJob
<1>2. CASE AcceptFails(w)
  BY <1>2 DEF AcceptFails
<1>3. CASE Respond(w)
  <2>1. serving' \in [Workers -> Jobs \cup {NoOne}]
    BY <1>3 DEF Respond
  <2>2. runs' \in [Jobs -> Nat]
    <3>1. runs' = [runs EXCEPT ![serving[w]] = runs[serving[w]] + 1]
      BY <1>3 DEF Respond
    <3>2. CASE serving[w] \in Jobs
      BY <3>1, <3>2
    <3>3. CASE serving[w] \notin Jobs
      BY <3>1, <3>3
    <3>4. QED
      BY <3>2, <3>3
  <2>3. inbox' \in [Workers -> Seq(Jobs \cup {Stop})]
    <3>1. inbox' = inbox \/ inbox' = [inbox EXCEPT ![w] = <<>>]
      BY <1>3 DEF Respond
    <3>2. <<>> \in Seq(Jobs \cup {Stop})
      OBVIOUS
    <3>3. QED
      BY <3>1, <3>2
  <2>4. worker' \in [Workers -> {"down", "listening", "busy", "ended"}]
    BY <1>3 DEF Respond
  <2>5. answer' \in [Workers -> {"none", "content", "empty"}]
    BY <1>3 DEF Respond
  <2>6. QED
    BY <1>3, <2>1, <2>2, <2>3, <2>4, <2>5 DEF Respond
<1>4. CASE AcceptStop(w)
  BY <1>4 DEF AcceptStop
<1>5. CASE Crash(w)
  BY <1>5 DEF Crash
<1>6. QED
  BY <1>1, <1>2, <1>3, <1>4, <1>5 DEF WorkerStep

----------------------------------------------------------------------------
\* Guards: every step keeps them in the hands of the futures under way.
LEMMA GuardsInit == Init => GuardsAreHeld /\ OthersAreIdle
  BY MapReduceAssumption
     DEF Init, GuardsAreHeld, OthersAreIdle, HoldingStates, Jobs, NoOne, ChunkOf

LEMMA GuardsStep ==
  ASSUME TypeOK, GuardsAreHeld, OthersAreIdle, [Next]_vars
  PROVE  GuardsAreHeld' /\ OthersAreIdle'
<1> USE DEF GuardsAreHeld, OthersAreIdle, HoldingStates
<1>1. ASSUME NEW j \in Jobs, FutureStep(j) PROVE GuardsAreHeld' /\ OthersAreIdle'
  <2> USE DEF TypeOK
  <2>1. CASE TakeWorker(j)
    <3>1. ready[Len(ready)] \in Workers
      BY <2>1, PopElements DEF TakeWorker
    <3>2. QED
      BY <2>1, <3>1, NoOneIsNoWorker DEF TakeWorker
  <2>2. CASE Panic(j)
    BY <2>2 DEF Panic
  <2>3. CASE Connect(j)
    BY <2>3 DEF Connect
  <2>4. CASE PerformFails(j)
    BY <2>4 DEF PerformFails
  <2>5. CASE DropFailed(j)
    BY <2>5 DEF DropFailed
  <2>6. CASE Receive(j)
    BY <2>6 DEF Receive
  <2>7. CASE PushWorker(j)
    BY <2>7 DEF PushWorker
  <2>8. CASE DropGuard(j)
    BY <2>8 DEF DropGuard
  <2>9. CASE Sleep(j)
    BY <2>9 DEF Sleep
  <2>10. CASE Yield(j)
    BY <2>10 DEF Yield
  <2>11. QED
    BY <1>1, <2>1, <2>2, <2>3, <2>4, <2>5, <2>6, <2>7, <2>8, <2>9, <2>10 DEF FutureStep
<1>2. CASE Collect
  BY <1>2 DEF Collect, ChunkDone, TypeOK
<1>3. CASE NextChunk
  <2>1. \A j \in Jobs : future[j] \in {"unstarted", "done"} /\ guard[j] = NoOne
    BY <1>3 DEF NextChunk
  <2>2. CASE ChunkOf(chunk + 1) = {}
    BY <1>3, <2>1, <2>2 DEF NextChunk
  <2>3. CASE ChunkOf(chunk + 1) /= {}
    <3>1. /\ phase' = "mapping" /\ chunk' = chunk + 1 /\ guard' = guard
          /\ future' = [j \in Jobs |-> IF j \in ChunkOf(chunk + 1) THEN "get" ELSE future[j]]
      BY <1>3, <2>3 DEF NextChunk
    <3>2. ChunkOf(chunk)' = ChunkOf(chunk + 1)
      BY <3>1 DEF ChunkOf
    <3>3. QED
      BY <2>1, <3>1, <3>2
  <2>4. QED
    BY <2>2, <2>3
<1>4. CASE UNCHANGED <<future, guard, chunk>> /\ (phase' = phase \/ phase \notin {"mapping", "panicked"})
  BY <1>4 DEF ChunkOf
<1>5. ASSUME Reduce \/ StopStep \/ (\E w \in Workers : WorkerStep(w) \/ Crash(w)) \/ UNCHANGED vars
      PROVE  UNCHANGED <<future, guard, chunk>> /\ (phase' = phase \/ phase \notin {"mapping", "panicked"})
  BY <1>5 DEF Reduce, StopStep, StopConnect, StopReceive, StopFails, Return,
     WorkerStep, AcceptJob, AcceptFails, Respond, AcceptStop, Crash, vars, managerVars
<1>6. QED
  BY <1>1, <1>2, <1>3, <1>4, <1>5 DEF Next, RunStep

----------------------------------------------------------------------------
\* The pool.  Only four steps of a future touch it.
PoolStep(j) == TakeWorker(j) \/ DropFailed(j) \/ PushWorker(j) \/ DropGuard(j)
PoolUntouched == UNCHANGED <<guard, ready, running, lost>> /\ Active' = Active

LEMMA OnlyPoolSteps ==
  ASSUME TypeOK, GuardsAreHeld, OthersAreIdle, [Next]_vars,
         \A j \in Jobs : ~PoolStep(j)
  PROVE  PoolUntouched
<1> USE DEF PoolUntouched
<1>1. ASSUME NEW j \in Jobs, FutureStep(j) PROVE PoolUntouched
  <2>1. Panic(j) \/ Sleep(j) \/ Yield(j) \/ Connect(j) \/ PerformFails(j) \/ Receive(j)
    BY <1>1 DEF FutureStep, PoolStep
  <2>2. /\ UNCHANGED <<guard, ready, running, lost>>
        /\ \A i \in Jobs : (future[i] = "drop") = (future'[i] = "drop")
    BY <2>1 DEF TypeOK, Panic, Sleep, Yield, Connect, PerformFails, Receive
  <2>3. QED
    BY <2>2 DEF Active, Held
<1>2. CASE NextChunk
  <2>1. UNCHANGED <<guard, ready, running, lost>>
    BY <1>2 DEF NextChunk
  <2>2. \A i \in Jobs : guard[i] = NoOne
    BY <1>2 DEF NextChunk, GuardsAreHeld, OthersAreIdle, HoldingStates
  <2>3. QED
    BY <2>1, <2>2 DEF Active, Held
<1>3. CASE UNCHANGED <<guard, ready, running, lost, future>>
  BY <1>3 DEF Active, Held
<1>4. ASSUME \/ Collect \/ Reduce \/ StopStep
             \/ \E w \in Workers : WorkerStep(w) \/ Crash(w)
             \/ UNCHANGED vars
      PROVE  UNCHANGED <<guard, ready, running, lost, future>>
  BY <1>4 DEF Collect, Reduce, StopStep, StopConnect, StopReceive, StopFails, Return,
     WorkerStep, AcceptJob, AcceptFails, Respond, AcceptStop, Crash, vars, managerVars
<1>5. QED
  BY <1>1, <1>2, <1>3, <1>4 DEF Next, RunStep

\* The counter counts the guards.
LEMMA CountInit == Init => RunningCountsGuards
<1> SUFFICES ASSUME Init PROVE RunningCountsGuards
  OBVIOUS
<1>1. Held = {}
  BY DEF Init, Held
<1>2. QED
  BY <1>1, FS_EmptySet DEF Init, RunningCountsGuards

LEMMA CountStep ==
  ASSUME TypeOK, GuardsAreHeld, OthersAreIdle, RunningCountsGuards, [Next]_vars
  PROVE  RunningCountsGuards'
<1>0. IsFiniteSet(Held) /\ Cardinality(Held) \in Nat
  BY HeldIsFinite, FS_CardinalityType
<1>1. ASSUME NEW j \in Jobs, TakeWorker(j) PROVE RunningCountsGuards'
  <2>1. ready[Len(ready)] \in Workers
    BY <1>1, PopElements DEF TakeWorker, TypeOK
  <2>2. j \notin Held
    BY <1>1 DEF TakeWorker, Held, GuardsAreHeld, HoldingStates
  <2>3. Held' = Held \cup {j}
    BY <1>1, <2>1, NoOneIsNoWorker DEF TakeWorker, Held, TypeOK
  <2>4. Cardinality(Held') = Cardinality(Held) + 1
    BY <1>0, <2>2, <2>3, FS_AddElement
  <2>5. QED
    BY <1>1, <2>4 DEF TakeWorker, RunningCountsGuards
<1>2. ASSUME NEW j \in Jobs, DropFailed(j) \/ DropGuard(j) PROVE RunningCountsGuards'
  <2>1. j \in Held
    BY <1>2 DEF DropFailed, DropGuard, Held, GuardsAreHeld, HoldingStates
  <2>2. Held' = Held \ {j}
    BY <1>2 DEF DropFailed, DropGuard, Held, TypeOK
  <2>3. Cardinality(Held') = Cardinality(Held) - 1
    BY <1>0, <2>1, <2>2, FS_RemoveElement
  <2>4. running' = running - 1
    BY <1>2 DEF DropFailed, DropGuard
  <2>5. QED
    BY <2>3, <2>4 DEF RunningCountsGuards
<1>3. ASSUME NEW j \in Jobs, PushWorker(j) PROVE RunningCountsGuards'
  BY <1>3 DEF PushWorker, RunningCountsGuards, Held
<1>4. CASE PoolUntouched
  BY <1>4 DEF PoolUntouched, RunningCountsGuards, Held
<1>5. QED
  BY <1>1, <1>2, <1>3, <1>4, OnlyPoolSteps DEF PoolStep

----------------------------------------------------------------------------
LEMMA Elementwise ==
  ASSUME TypeOK, EachIsSomewhere, NoneIsTwice
  PROVE  WorkersAreAccountedFor
<1> DEFINE used == {guard[j] : j \in Active}
<1>1. \A i \in 1 .. Len(ready) : ready[i] \in Workers
  BY ElementOfSeq DEF TypeOK
<1>2. \A j \in Active : guard[j] \in Workers
  BY DEF TypeOK, Active, Held
<1>3. lost \subseteq Workers
  BY DEF TypeOK
<1>4. InReady \cup used \cup lost = Workers
  <2>1. InReady \subseteq Workers /\ used \subseteq Workers
    BY <1>1, <1>2 DEF InReady
  <2>2. \A w \in Workers : w \in InReady \/ w \in used \/ w \in lost
    BY DEF EachIsSomewhere, InReady
  <2>3. QED
    BY <1>3, <2>1, <2>2
<1>5. InReady \cap used = {} /\ InReady \cap lost = {} /\ used \cap lost = {}
  BY DEF NoneIsTwice, InReady
<1>6. QED
  BY <1>4, <1>5 DEF WorkersAreAccountedFor, NoneIsTwice

LEMMA AccountInit == Init => EachIsSomewhere /\ NoneIsTwice
<1> SUFFICES ASSUME Init PROVE EachIsSomewhere /\ NoneIsTwice
  OBVIOUS
<1>1. Active = {}
  BY DEF Init, Active, Held
<1>2. Len(ready) = NWorkers /\ \A i \in 1 .. NWorkers : ready[i] = i
  <2>1. Len(ready) \in Nat /\ DOMAIN ready = 1 .. Len(ready)
    BY TypeInit, LenProperties DEF TypeOK
  <2>2. DOMAIN ready = 1 .. NWorkers
    BY DEF Init, Workers
  <2>3. QED
    BY <2>1, <2>2, MapReduceAssumption DEF Init, Workers
<1>3. EachIsSomewhere /\ NoneIsTwice
  BY <1>1, <1>2 DEF EachIsSomewhere, NoneIsTwice, Workers, Init
<1>4. QED
  BY <1>3

LEMMA AccountStep ==
  ASSUME TypeOK, GuardsAreHeld, OthersAreIdle, EachIsSomewhere, NoneIsTwice, [Next]_vars
  PROVE  EachIsSomewhere' /\ NoneIsTwice'
<1>0. EachIsSomewhere /\ NoneIsTwice
  OBVIOUS
<1>2. Len(ready) \in Nat /\ \A i \in 1 .. Len(ready) : ready[i] \in Workers
  BY ElementOfSeq DEF TypeOK
<1> USE DEF EachIsSomewhere, NoneIsTwice
<1>3. ASSUME NEW j \in Jobs, TakeWorker(j) PROVE EachIsSomewhere' /\ NoneIsTwice'
  <2> DEFINE n == Len(ready)  w == ready[n]
  <2>1. /\ n \in Nat \ {0} /\ w \in Workers /\ Len(ready') = n - 1
        /\ \A i \in 1 .. n - 1 : ready'[i] = ready[i]
    BY <1>3, PopElements DEF TakeWorker, TypeOK
  <2>2. lost' = lost /\ guard' = [guard EXCEPT ![j] = w]
    BY <1>3 DEF TakeWorker
  <2>3. j \notin Active /\ Active' = Active \cup {j}
    <3>1. guard[j] = NoOne
      BY <1>3 DEF TakeWorker, GuardsAreHeld, HoldingStates
    <3>2. guard'[j] /= NoOne /\ future'[j] = "connect"
      BY <1>3, <2>1, <2>2, NoOneIsNoWorker DEF TakeWorker, TypeOK
    <3>3. \A k \in Jobs : k /= j => guard'[k] = guard[k] /\ future'[k] = future[k]
      BY <1>3 DEF TakeWorker, TypeOK
    <3>4. QED
      BY <3>1, <3>2, <3>3 DEF Active, Held
  <2>4. guard'[j] = w /\ \A k \in Active : guard'[k] = guard[k]
    <3>1. guard'[j] = w /\ \A k \in Jobs : k /= j => guard'[k] = guard[k]
      BY <2>2 DEF TypeOK
    <3>2. Active \subseteq Jobs
      BY DEF Active, Held
    <3>3. QED
      BY <2>3, <3>1, <3>2
  <2> HIDE DEF n, w
  <2>5. n \in 1 .. Len(ready) /\ ready[n] = w /\ Len(ready) = n
    BY <2>1 DEF n, w
  <2>6. EachIsSomewhere'
    <3> SUFFICES ASSUME NEW v \in Workers
                 PROVE  \/ \E i \in 1 .. Len(ready') : ready'[i] = v
                        \/ \E k \in Active' : guard'[k] = v
                        \/ v \in lost'
      OBVIOUS
    <3>1. CASE \E i \in 1 .. Len(ready) : ready[i] = v
      BY <2>1, <2>3, <2>4, <2>5, <3>1
    <3>2. CASE \E k \in Active : guard[k] = v
      BY <2>3, <2>4, <3>2
    <3>3. CASE v \in lost
      BY <2>2, <3>3
    <3>4. QED
      BY <1>0, <3>1, <3>2, <3>3
  <2>7. NoneIsTwice'
    BY <1>0, <2>1, <2>2, <2>3, <2>4, <2>5
  <2>8. QED
    BY <2>6, <2>7
<1>4. ASSUME NEW j \in Jobs, DropFailed(j) PROVE EachIsSomewhere' /\ NoneIsTwice'
  <2>1. j \in Active /\ Active' = Active \ {j} /\ \A k \in Active' : guard'[k] = guard[k]
    BY <1>4 DEF DropFailed, Active, Held, GuardsAreHeld, HoldingStates, TypeOK
  <2>2. ready' = ready /\ lost' = lost \cup {guard[j]}
    BY <1>4 DEF DropFailed
  <2>3. QED
    BY <1>0, <2>1, <2>2
<1>5. ASSUME NEW j \in Jobs, PushWorker(j) PROVE EachIsSomewhere' /\ NoneIsTwice'
  <2>1. j \in Active /\ Active' = Active \ {j} /\ guard' = guard
    BY <1>5 DEF PushWorker, Active, Held, GuardsAreHeld, HoldingStates, TypeOK
  <2>2. guard[j] \in Workers /\ lost' = lost
    BY <1>5, <2>1 DEF PushWorker, Active, Held, TypeOK
  <2>3. /\ Len(ready') = Len(ready) + 1 /\ ready'[Len(ready) + 1] = guard[j]
        /\ \A i \in 1 .. Len(ready) : ready'[i] = ready[i]
    BY <1>5, <2>2, PushElements DEF PushWorker, TypeOK
  <2>4. EachIsSomewhere'
    BY <1>0, <1>2, <2>1, <2>2, <2>3
  <2>5. NoneIsTwice'
    BY <1>0, <1>2, <2>1, <2>2, <2>3
  <2>6. QED
    BY <2>4, <2>5
<1>6. ASSUME NEW j \in Jobs, DropGuard(j) PROVE EachIsSomewhere' /\ NoneIsTwice'
  <2>1. Active' = Active /\ \A k \in Active : guard'[k] = guard[k]
    BY <1>6 DEF DropGuard, Active, Held, TypeOK
  <2>2. ready' = ready /\ lost' = lost
    BY <1>6 DEF DropGuard
  <2>3. QED
    BY <1>0, <2>1, <2>2
<1>7. CASE PoolUntouched
  BY <1>0, <1>7 DEF PoolUntouched
<1>8. QED
  BY <1>3, <1>4, <1>5, <1>6, <1>7, OnlyPoolSteps DEF PoolStep

----------------------------------------------------------------------------
\* Giving up.
LEMMA PanicStep ==
  ASSUME TypeOK, RunningCountsGuards, EachIsSomewhere, NoneIsTwice,
         PanicsOnlyWithoutWorkers, [Next]_vars
  PROVE  PanicsOnlyWithoutWorkers'
<1>1. ASSUME NEW j \in Jobs, Panic(j) PROVE PanicsOnlyWithoutWorkers'
  <2>1. Len(ready) \in Nat /\ Cardinality(Held) \in Nat
    BY HeldIsFinite, FS_CardinalityType DEF TypeOK
  <2>2. Len(ready) = 0 /\ Cardinality(Held) = 0
    BY <1>1, <2>1 DEF Panic, NoAvailableWorker, RunningCountsGuards, TypeOK
  <2>3. Held = {}
    BY <2>2, HeldIsFinite, FS_EmptySet
  <2>4. InReady = {} /\ Active = {}
    BY <2>2, <2>3 DEF InReady, Active
  <2>5. lost = Workers
    <3>1. \A w \in Workers : w \in lost
      BY <2>2, <2>4 DEF EachIsSomewhere
    <3>2. QED
      BY <3>1 DEF TypeOK
  <2>6. QED
    BY <1>1, <2>5 DEF Panic, PanicsOnlyWithoutWorkers
<1>2. CASE phase = "panicked" /\ ~\E j \in Jobs : Panic(j)
  <2>1. lost' = lost
    BY <1>2 DEF Next, FutureStep, TakeWorker, Sleep, Yield, Connect, PerformFails, DropFailed, Receive,
       PushWorker, DropGuard, RunStep, Collect, Reduce, NextChunk, StopStep, StopConnect,
       StopReceive, StopFails, Return, WorkerStep, AcceptJob, AcceptFails, Respond,
       AcceptStop, Crash, vars, managerVars
  <2>2. QED
    BY <1>2, <2>1 DEF PanicsOnlyWithoutWorkers
<1>3. CASE phase /= "panicked" /\ ~\E j \in Jobs : Panic(j)
  <2>1. phase' /= "panicked"
    BY <1>3 DEF Next, FutureStep, TakeWorker, Sleep, Yield, Connect, PerformFails, DropFailed, Receive,
       PushWorker, DropGuard, RunStep, Collect, Reduce, NextChunk, StopStep, StopConnect,
       StopReceive, StopFails, Return, WorkerStep, AcceptJob, AcceptFails, Respond,
       AcceptStop, Crash, vars, managerVars
  <2>2. QED
    BY <2>1 DEF PanicsOnlyWithoutWorkers
<1>4. QED
  BY <1>1, <1>2, <1>3

----------------------------------------------------------------------------
\* Sleeping.  There is a worker for each future of a chunk.
LEMMA ChunksAreNoLarger ==
  ASSUME NEW c \in Nat
  PROVE  IsFiniteSet(ChunkOf(c)) /\ Cardinality(ChunkOf(c)) <= NWorkers
<1> DEFINE first == (c - 1) * NWorkers
<1>1. /\ first \in Int /\ c * NWorkers = first + NWorkers
      /\ NWorkers \in Nat \ {0} /\ NJobs \in Nat
  BY MapReduceAssumption
<1> HIDE DEF first
<1>2. ChunkOf(c) \subseteq first + 1 .. first + NWorkers
  <2>1. ChunkOf(c) = {j \in Jobs : first < j /\ j <= first + NWorkers}
    BY <1>1 DEF ChunkOf, first
  <2>2. QED
    BY <1>1, <2>1 DEF Jobs
<1>3. /\ IsFiniteSet(first + 1 .. first + NWorkers)
      /\ Cardinality(first + 1 .. first + NWorkers) = NWorkers
  <2> DEFINE low == first + 1  high == first + NWorkers
  <2>1. low \in Int /\ high \in Int /\ ~(low > high) /\ high - low + 1 = NWorkers
    BY <1>1
  <2> HIDE DEF low, high
  <2>2. IsFiniteSet(low .. high) /\ Cardinality(low .. high) = NWorkers
    BY <2>1, FS_Interval
  <2>3. QED
    BY <2>2 DEF low, high
<1>4. QED
  BY <1>2, <1>3, FS_Subset

\* If no worker is ready, lost or left to a future, the others hold them all.
LEMMA SomebodyHasFailed ==
  ASSUME TypeOK, GuardsAreHeld, OthersAreIdle, EachIsSomewhere, NEW j \in Jobs, Sleep(j)
  PROVE  lost /= {}
<1> SUFFICES ASSUME lost = {} PROVE FALSE
  OBVIOUS
<1>1. phase = "mapping" /\ future[j] = "get" /\ Len(ready) = 0 /\ chunk \in Nat
  BY DEF Sleep, TypeOK
<1>2. Workers = {guard[i] : i \in Active}
  <2>1. \A w \in Workers : \E i \in Active : guard[i] = w
    BY <1>1 DEF EachIsSomewhere
  <2>2. \A i \in Active : guard[i] \in Workers
    BY DEF Active, Held, TypeOK
  <2>3. QED
    BY <2>1, <2>2
<1>3. Active \subseteq ChunkOf(chunk) \ {j} /\ j \in ChunkOf(chunk)
  <2>1. \A i \in Active : future[i] \in HoldingStates /\ i \in Jobs
    BY DEF Active, Held, GuardsAreHeld
  <2>2. QED
    BY <1>1, <2>1 DEF OthersAreIdle, HoldingStates
<1> DEFINE rest == ChunkOf(chunk) \ {j}
<1>4. /\ IsFiniteSet(rest) /\ Cardinality(rest) \in Nat
      /\ Cardinality(rest) = Cardinality(ChunkOf(chunk)) - 1
      /\ Cardinality(ChunkOf(chunk)) \in Nat
      /\ Cardinality(ChunkOf(chunk)) <= NWorkers
  BY <1>1, <1>3, ChunksAreNoLarger, FS_RemoveElement, FS_CardinalityType
<1>5. IsFiniteSet(Active) /\ Cardinality(Active) \in Nat /\ Cardinality(Active) <= Cardinality(rest)
  BY <1>3, <1>4, FS_Subset, FS_CardinalityType
<1>6. Cardinality(Workers) <= Cardinality(Active)
  <2> DEFINE holds == [i \in Active |-> guard[i]]
  <2>1. holds \in Surjection(Active, Workers)
    BY <1>2 DEF Surjection
  <2>2. QED
    BY <1>5, <2>1, FS_Surjection
<1>7. Cardinality(Workers) = NWorkers /\ NWorkers \in Nat
  <2>1. NWorkers \in Nat /\ ~(1 > NWorkers) /\ NWorkers - 1 + 1 = NWorkers
    BY MapReduceAssumption
  <2>2. QED
    BY <2>1, FS_Interval DEF Workers
<1>8. QED
  BY <1>4, <1>5, <1>6, <1>7

LEMMA SleepStep ==
  ASSUME TypeOK, GuardsAreHeld, OthersAreIdle, EachIsSomewhere,
         SleepsOnlyAfterFailures, [Next]_vars
  PROVE  SleepsOnlyAfterFailures'
<1>1. ASSUME NEW j \in Jobs, Sleep(j) PROVE SleepsOnlyAfterFailures'
  <2>1. lost' = lost /\ lost /= {}
    BY <1>1, SomebodyHasFailed DEF Sleep
  <2>2. QED
    BY <2>1 DEF SleepsOnlyAfterFailures
<1>2. CASE lost' = lost /\ Asleep' \subseteq Asleep
  BY <1>2 DEF SleepsOnlyAfterFailures
<1>3. CASE Asleep' = {}
  BY <1>3 DEF SleepsOnlyAfterFailures
<1>4. ASSUME NEW j \in Jobs, FutureStep(j), ~Sleep(j)
      PROVE  (lost' = lost /\ Asleep' \subseteq Asleep) \/ Asleep' = {}
  <2>1. CASE Yield(j)
    BY <2>1 DEF Yield, Asleep, TypeOK
  <2>2. CASE ~Yield(j)
    <3>1. Asleep = {}
      BY <1>4, <2>2 DEF FutureStep
    <3>2. /\ future'[j] /= "asleep"
          /\ \A k \in Jobs \ {j} : future'[k] = future[k]
      <4>1. CASE Panic(j)
        BY <3>1, <4>1 DEF Panic, Asleep
      <4>2. CASE ~Panic(j)
        <5>1. PICK f \in Futures \ {"asleep"} : future' = [future EXCEPT ![j] = f]
          BY <1>4, <2>2, <4>2 DEF FutureStep, TakeWorker, Connect, PerformFails, DropFailed,
             Receive, PushWorker, DropGuard, Futures
        <5>2. QED
          BY <5>1 DEF TypeOK
      <4>3. QED
        BY <4>1, <4>2
    <3>3. QED
      BY <3>1, <3>2 DEF Asleep
  <2>3. QED
    BY <2>1, <2>2
<1>5. ASSUME \/ RunStep \/ StopStep \/ UNCHANGED vars
             \/ \E w \in Workers : WorkerStep(w) \/ Crash(w)
      PROVE  lost' = lost /\ Asleep' \subseteq Asleep
  <2>1. CASE NextChunk
    <3>1. /\ lost' = lost
          /\ \/ future' = future
             \/ future' = [i \in Jobs |-> IF i \in ChunkOf(chunk + 1) THEN "get" ELSE future[i]]
      BY <2>1 DEF NextChunk
    <3>2. \A i \in Jobs : future'[i] = "asleep" => future[i] = "asleep"
      BY <3>1
    <3>3. QED
      BY <3>1, <3>2 DEF Asleep
  <2>2. CASE ~NextChunk
    <3>1. lost' = lost /\ future' = future
      BY <1>5, <2>2 DEF RunStep, Collect, Reduce, StopStep, StopConnect, StopReceive, StopFails,
         Return, WorkerStep, AcceptJob, AcceptFails, Respond, AcceptStop, Crash, vars, managerVars
    <3>2. QED
      BY <3>1 DEF Asleep
  <2>3. QED
    BY <2>1, <2>2
<1>6. QED
  BY <1>1, <1>2, <1>3, <1>4, <1>5 DEF Next

----------------------------------------------------------------------------
\* All of it is inductive.
THEOREM IInvHolds == Spec => []IInv
<1>1. Init => IInv
  BY TypeInit, GuardsInit, CountInit, AccountInit
     DEF IInv, Init, PanicsOnlyWithoutWorkers, SleepsOnlyAfterFailures, Asleep
<1>2. IInv /\ [Next]_vars => IInv'
  <2> SUFFICES ASSUME IInv, [Next]_vars PROVE IInv'
    OBVIOUS
  <2> USE DEF IInv
  <2>1. TypeOK'
    <3>1. CASE UNCHANGED vars
      BY <3>1 DEF TypeOK, vars, managerVars, workerVars
    <3>2. CASE Next
      BY <3>2, TypeFuture, TypeRun, TypeWorker DEF Next
    <3>3. QED
      BY <3>1, <3>2
  <2>2. GuardsAreHeld' /\ OthersAreIdle'
    BY GuardsStep
  <2>3. RunningCountsGuards'
    BY CountStep
  <2>4. EachIsSomewhere' /\ NoneIsTwice'
    BY AccountStep
  <2>5. PanicsOnlyWithoutWorkers'
    BY PanicStep
  <2>6. SleepsOnlyAfterFailures'
    BY SleepStep
  <2>7. QED
    BY <2>1, <2>2, <2>3, <2>4, <2>5, <2>6
<1>3. QED
  BY <1>1, <1>2, PTL DEF Spec

\* Every state of the manager, the workers and the network is of its type.
THEOREM TypeCorrect == Spec => []TypeOK
  BY IInvHolds, PTL DEF IInv

\* running_workers is the number of WorkerGuards alive, between any two steps
\* of any number of futures.
THEOREM CounterCorrect == Spec => []RunningCountsGuards
  BY IInvHolds, PTL DEF IInv

\* Each worker is in the pool, or with one future, or lost after a failure,
\* and in one of these places only.
THEOREM NoWorkerLeaks == Spec => []WorkersAreAccountedFor
<1>1. IInv => WorkersAreAccountedFor
  BY Elementwise DEF IInv
<1>2. QED
  BY <1>1, IInvHolds, PTL

\* map panics only when a perform has failed on every worker.
THEOREM GivesUpLast == Spec => []PanicsOnlyWithoutWorkers
  BY IInvHolds, PTL DEF IInv

\* try_map blocks its thread for want of a worker only after some perform has
\* failed: a pool and chunks of the same size leave nobody without one before.
THEOREM SleepsLate == Spec => []SleepsOnlyAfterFailures
  BY IInvHolds, PTL DEF IInv

----------------------------------------------------------------------------
\* What is mapped twice.

\* The jobs of later chunks have not been started.
LaterJobsWait == \A j \in Jobs : j > chunk * NWorkers => future[j] = "unstarted"

\* Only a busy worker serves a job.
OthersServeNone == \A w \in Workers : worker[w] /= "busy" => serving[w] = NoOne

\* The mappings to come: of the job a worker serves, at place 0, and of those
\* that wait in its inbox.
Places == Workers \X Nat
JobAt(p) == IF p[2] = 0 THEN serving[p[1]] \in Jobs
            ELSE p[2] <= Len(inbox[p[1]]) /\ inbox[p[1]][p[2]] \in Jobs
Pending == {p \in Places : JobAt(p)}

\* The jobs whose present perform has sent its request.
Sent == {j \in Jobs : future[j] \in {"await", "push", "drop", "done"}}

\* Each mapping, done or to come, was asked for by a future that still counts
\* on it or by one whose perform has failed.
MappingsArePaidFor ==
  /\ IsFiniteSet(Mappings) /\ IsFiniteSet(Pending)
  /\ Cardinality(Mappings) + Cardinality(Pending) <= Cardinality(Sent) + Cardinality(Spent)

CInv == LaterJobsWait /\ OthersServeNone /\ MappingsArePaidFor

----------------------------------------------------------------------------
LEMMA SentAndSpentAreFinite ==
  ASSUME TypeOK
  PROVE  /\ IsFiniteSet(Sent) /\ Cardinality(Sent) \in Nat /\ Cardinality(Sent) <= NJobs
         /\ IsFiniteSet(Spent) /\ Cardinality(Spent) \in Nat
<1>1. Cardinality(Jobs) = NJobs
  BY MapReduceAssumption, FS_Interval DEF Jobs
<1>2. Sent \in SUBSET Jobs
  BY DEF Sent
<1>3. IsFiniteSet(Sent) /\ Cardinality(Sent) <= NJobs
  BY <1>1, <1>2, JobsAreFinite, FS_Subset
<1>4. Spent \in SUBSET Workers
  BY DEF TypeOK, Spent, Held
<1>5. IsFiniteSet(Workers)
  BY MapReduceAssumption, FS_Interval DEF Workers
<1>6. IsFiniteSet(Spent)
  BY <1>4, <1>5, FS_Subset
<1>7. QED
  BY <1>3, <1>6, FS_CardinalityType

\* Sets that are at most one larger, or smaller.
LEMMA OneMore ==
  ASSUME NEW S, IsFiniteSet(S), NEW x
  PROVE  /\ IsFiniteSet(S \cup {x}) /\ Cardinality(S \cup {x}) \in Nat
         /\ Cardinality(S) \in Nat
         /\ Cardinality(S \cup {x}) <= Cardinality(S) + 1
         /\ x \notin S => Cardinality(S \cup {x}) = Cardinality(S) + 1
<1>1. Cardinality(S) \in Nat
  BY FS_CardinalityType
<1>2. CASE x \in S
  <2>1. S \cup {x} = S
    BY <1>2
  <2>2. QED
    BY <1>1, <1>2, <2>1
<1>3. CASE x \notin S
  <2>1. IsFiniteSet(S \cup {x}) /\ Cardinality(S \cup {x}) = Cardinality(S) + 1
    BY <1>3, FS_AddElement
  <2>2. QED
    BY <1>1, <1>3, <2>1
<1>4. QED
  BY <1>2, <1>3

LEMMA OneLess ==
  ASSUME NEW S, IsFiniteSet(S), NEW x \in S, NEW T, T \subseteq S \ {x}
  PROVE  /\ IsFiniteSet(T) /\ Cardinality(T) \in Nat
         /\ Cardinality(T) <= Cardinality(S) - 1 /\ Cardinality(S) \in Nat
<1>1. IsFiniteSet(S \ {x}) /\ Cardinality(S \ {x}) = Cardinality(S) - 1
  BY FS_RemoveElement
<1>2. T \in SUBSET (S \ {x})
  OBVIOUS
<1>3. QED
  BY <1>1, <1>2, FS_Subset, FS_CardinalityType

LEMMA NotMore ==
  ASSUME NEW S, IsFiniteSet(S), NEW T, T \subseteq S
  PROVE  /\ IsFiniteSet(T) /\ Cardinality(T) \in Nat /\ Cardinality(S) \in Nat
         /\ Cardinality(T) <= Cardinality(S)
  BY FS_Subset, FS_CardinalityType

LEMMA PaidInit == Init => CInv
<1> SUFFICES ASSUME Init PROVE CInv
  OBVIOUS
<1>1. Mappings = {}
  BY MapReduceAssumption DEF Init, Mappings, Jobs
<1>2. Pending = {}
  BY NoOneIsNoWorker DEF Init, Pending, Places, JobAt
<1>3. MappingsArePaidFor
  BY <1>1, <1>2, TypeInit, SentAndSpentAreFinite, FS_EmptySet DEF MappingsArePaidFor
<1>4. LaterJobsWait /\ OthersServeNone
  BY MapReduceAssumption DEF Init, LaterJobsWait, OthersServeNone, ChunkOf, Jobs
<1>5. QED
  BY <1>3, <1>4 DEF CInv

\* A future's steps.  Sending asks for a mapping; a failure gives up the claim
\* to it, and one worker.
LEMMA PaidFuture ==
  ASSUME TypeOK, GuardsAreHeld, OthersAreIdle, NoneIsTwice, CInv,
         NEW j \in Jobs, FutureStep(j)
  PROVE  CInv'
<1>0. /\ IsFiniteSet(Sent) /\ Cardinality(Sent) \in Nat
      /\ IsFiniteSet(Spent) /\ Cardinality(Spent) \in Nat
      /\ IsFiniteSet(Mappings) /\ IsFiniteSet(Pending)
      /\ Cardinality(Mappings) \in Nat /\ Cardinality(Pending) \in Nat
      /\ Cardinality(Mappings) + Cardinality(Pending) <= Cardinality(Sent) + Cardinality(Spent)
  BY SentAndSpentAreFinite, FS_CardinalityType DEF CInv, MappingsArePaidFor
<1>1. LaterJobsWait' /\ OthersServeNone' /\ Mappings' = Mappings
  <2>1. /\ UNCHANGED <<chunk, worker, serving, runs>>
        /\ phase = "mapping" /\ future[j] /= "unstarted"
        /\ \A k \in Jobs \ {j} : future'[k] = future[k]
    BY DEF FutureStep, TakeWorker, Panic, Sleep, Yield, Connect, PerformFails, DropFailed, Receive,
       PushWorker, DropGuard, TypeOK, managerVars, workerVars
  <2>2. LaterJobsWait'
    BY <2>1 DEF CInv, LaterJobsWait
  <2>3. QED
    BY <2>1, <2>2 DEF CInv, OthersServeNone, Mappings
<1>2. CASE Connect(j)
  <2>0. PICK w \in Workers, n \in Nat : w = guard[j] /\ n = Len(inbox[w])
    BY <1>2 DEF Connect, GuardsAreHeld, HoldingStates, TypeOK
  <2>1. inbox[w] \in Seq(Jobs \cup {Stop})
    BY DEF TypeOK
  <2>2. /\ serving' = serving /\ inbox' = [inbox EXCEPT ![w] = Append(inbox[w], j)]
        /\ future' = [future EXCEPT ![j] = "await"] /\ future[j] = "connect"
        /\ UNCHANGED <<guard, lost>>
    BY <1>2, <2>0 DEF Connect
  <2>3. /\ Len(inbox'[w]) = n + 1 /\ inbox'[w][n + 1] = j
        /\ \A i \in 1 .. n : inbox'[w][i] = inbox[w][i]
        /\ \A v \in Workers \ {w} : inbox'[v] = inbox[v]
    BY <2>0, <2>1, <2>2, PushElements DEF TypeOK
  <2>4. Pending' = Pending \cup {<<w, n + 1>>}
    <3>1. \A p \in Places : p /= <<w, n + 1>> => (JobAt(p)' <=> JobAt(p))
      <4> SUFFICES ASSUME NEW v \in Workers, NEW i \in Nat, <<v, i>> /= <<w, n + 1>>
                   PROVE  JobAt(<<v, i>>)' <=> JobAt(<<v, i>>)
        BY DEF Places
      <4>1. CASE v = w
        BY <2>0, <2>1, <2>2, <2>3, <4>1 DEF JobAt
      <4>2. CASE v /= w
        BY <2>2, <2>3, <4>2 DEF JobAt
      <4>3. QED
        BY <4>1, <4>2
    <3>2. JobAt(<<w, n + 1>>)' /\ <<w, n + 1>> \in Places
      BY <2>1, <2>3 DEF JobAt, Places
    <3>3. QED
      BY <3>1, <3>2 DEF Pending
  <2>5. Sent' = Sent \cup {j} /\ j \notin Sent
    BY <2>2 DEF Sent, TypeOK
  <2>6. Spent' = Spent
    BY <2>2 DEF Spent, Held, TypeOK
  <2>7. MappingsArePaidFor'
    <3>1. Cardinality(Sent') = Cardinality(Sent) + 1
      BY <1>0, <2>5, OneMore
    <3>2. /\ IsFiniteSet(Pending') /\ Cardinality(Pending') \in Nat
          /\ Cardinality(Pending') <= Cardinality(Pending) + 1
      BY <1>0, <2>4, OneMore
    <3>3. QED
      BY <1>0, <1>1, <2>6, <3>1, <3>2 DEF MappingsArePaidFor
  <2>8. QED
    BY <1>1, <2>7 DEF CInv
<1>3. CASE ~Connect(j)
  <2>1. UNCHANGED <<serving, inbox>>
    BY <1>3 DEF FutureStep, TakeWorker, Panic, Sleep, Yield, PerformFails, DropFailed, Receive,
       PushWorker, DropGuard, workerVars
  <2>2. Pending' = Pending
    BY <2>1 DEF Pending, JobAt
  <2>3. CASE PerformFails(j)
    <3>1. /\ future' = [future EXCEPT ![j] = "failed"] /\ UNCHANGED <<guard, lost>>
          /\ future[j] \in {"connect", "await"}
      BY <2>3 DEF PerformFails, managerVars
    <3>2. guard[j] /= NoOne /\ j \in Active
      BY <3>1 DEF GuardsAreHeld, HoldingStates, Active, Held
    <3>3. guard[j] \notin Spent
      <4>1. guard[j] \notin lost
        BY <3>2 DEF NoneIsTwice
      <4>2. ASSUME NEW k \in Held, future[k] = "failed" PROVE guard[k] /= guard[j]
        BY <3>1, <3>2, <4>2 DEF NoneIsTwice, Active
      <4>3. QED
        BY <4>1, <4>2 DEF Spent
    <3>4. Spent' = Spent \cup {guard[j]}
      <4>1. {i \in Held : future[i] = "failed"}' = {i \in Held : future[i] = "failed"} \cup {j}
        BY <3>1, <3>2 DEF Held, TypeOK
      <4>2. QED
        BY <3>1, <4>1 DEF Spent
    <3>5. Sent' = Sent \ {j}
      BY <3>1 DEF Sent, TypeOK
    <3>6. Cardinality(Sent') \in Nat /\ Cardinality(Sent') + 1 >= Cardinality(Sent)
      <4>1. CASE j \in Sent
        <5>1. Cardinality(Sent \ {j}) = Cardinality(Sent) - 1 /\ IsFiniteSet(Sent \ {j})
          BY <1>0, <4>1, FS_RemoveElement
        <5>2. Cardinality(Sent \ {j}) \in Nat
          BY <5>1, FS_CardinalityType
        <5>3. QED
          BY <1>0, <3>5, <5>1, <5>2
      <4>2. CASE j \notin Sent
        <5>1. Sent' = Sent
          BY <3>5, <4>2
        <5>2. QED
          BY <1>0, <5>1
      <4>3. QED
        BY <4>1, <4>2
    <3>7. Cardinality(Spent') = Cardinality(Spent) + 1
      BY <1>0, <3>3, <3>4, OneMore
    <3>8. MappingsArePaidFor'
      BY <1>0, <1>1, <2>2, <3>6, <3>7 DEF MappingsArePaidFor
    <3>9. QED
      BY <1>1, <3>8 DEF CInv
  <2>4. CASE DropFailed(j)
    <3>1. /\ future' = [future EXCEPT ![j] = "get"] /\ future[j] = "failed"
          /\ guard' = [guard EXCEPT ![j] = NoOne] /\ lost' = lost \cup {guard[j]}
      BY <2>4 DEF DropFailed
    <3>2. j \in Held
      BY <3>1 DEF GuardsAreHeld, HoldingStates, Held
    <3>3. {i \in Held : future[i] = "failed"}' = {i \in Held : future[i] = "failed"} \ {j}
      BY <3>1, <3>2 DEF Held, TypeOK
    <3>4. \A k \in Jobs \ {j} : guard'[k] = guard[k]
      BY <3>1 DEF TypeOK
    <3>5. Spent' = Spent
      BY <3>1, <3>2, <3>3, <3>4 DEF Spent, Held
    <3>6. Sent' = Sent
      BY <3>1 DEF Sent, TypeOK
    <3>7. QED
      BY <1>1, <2>2, <3>5, <3>6 DEF CInv, MappingsArePaidFor
  <2>5. CASE ~PerformFails(j) /\ ~DropFailed(j)
    <3>1. Sent' = Sent
      BY <1>3, <2>5 DEF FutureStep, TakeWorker, Panic, Sleep, Yield, Receive, PushWorker, DropGuard, Sent, TypeOK
    <3>2. lost' = lost
      BY <1>3, <2>5 DEF FutureStep, TakeWorker, Panic, Sleep, Yield, Receive, PushWorker, DropGuard
    <3>3. /\ future[j] /= "failed" /\ future'[j] /= "failed"
          /\ \A k \in Jobs \ {j} : guard'[k] = guard[k] /\ future'[k] = future[k]
      BY <1>3, <2>5, SMTT(30) DEF FutureStep, TakeWorker, Panic, Sleep, Yield, Receive, PushWorker, DropGuard, TypeOK
    <3>4. {i \in Held : future[i] = "failed"}' = {i \in Held : future[i] = "failed"}
      BY <3>3 DEF Held
    <3>5. Spent' = Spent
      <4>1. \A k \in {i \in Held : future[i] = "failed"} : guard'[k] = guard[k]
        BY <3>3 DEF Held
      <4>2. QED
        BY <3>2, <3>4, <4>1 DEF Spent
    <3>6. QED
      BY <1>1, <2>2, <3>1, <3>5 DEF CInv, MappingsArePaidFor
  <2>6. QED
    BY <2>3, <2>4, <2>5
<1>4. QED
  BY <1>2, <1>3
\* The manager's own steps: the next chunk's futures have sent nothing yet.
LEMMA PaidRun ==
  ASSUME TypeOK, GuardsAreHeld, OthersAreIdle, CInv, RunStep \/ StopStep
  PROVE  CInv'
<1>1. CASE UNCHANGED <<chunk, future, guard, lost, worker, serving, inbox, runs>>
  BY <1>1 DEF CInv, LaterJobsWait, OthersServeNone, MappingsArePaidFor, Mappings, Pending,
     JobAt, Sent, Spent, Held
<1>2. CASE NextChunk
  <2>1. UNCHANGED <<guard, lost, worker, serving, inbox, runs>> /\ phase = "reducing"
    BY <1>2 DEF NextChunk, workerVars
  <2>2. CASE ChunkOf(chunk + 1) = {}
    <3>1. UNCHANGED <<chunk, future>>
      BY <1>2, <2>2 DEF NextChunk
    <3>2. QED
      BY <1>1, <2>1, <3>1
  <2>3. CASE ChunkOf(chunk + 1) /= {}
    <3>1. /\ chunk' = chunk + 1
          /\ future' = [j \in Jobs |-> IF j \in ChunkOf(chunk + 1) THEN "get" ELSE future[j]]
      BY <1>2, <2>3 DEF NextChunk
    <3>2. PICK n \in Nat : /\ n = chunk * NWorkers
                           /\ (chunk + 1) * NWorkers = n + NWorkers
                           /\ (chunk + 1) - 1 = chunk
      BY MapReduceAssumption DEF TypeOK
    <3>3. \A j \in Jobs : j \in ChunkOf(chunk + 1) <=> n < j /\ j <= n + NWorkers
      BY <3>2 DEF ChunkOf
    <3>4. \A j \in Jobs : j > n => future[j] = "unstarted"
      BY <3>2 DEF CInv, LaterJobsWait
    <3>5. LaterJobsWait'
      BY <3>1, <3>2, <3>3, <3>4, MapReduceAssumption DEF LaterJobsWait, Jobs
    <3>6. \A j \in Jobs : future[j] /= future'[j] => future[j] = "unstarted" /\ future'[j] = "get"
      BY <3>1, <3>3, <3>4
    <3>7. Sent' = Sent
      BY <3>6 DEF Sent
    <3>8. {i \in Held : future[i] = "failed"}' = {i \in Held : future[i] = "failed"}
      BY <2>1, <3>6 DEF Held
    <3>9. Spent' = Spent
      BY <2>1, <3>8 DEF Spent
    <3>10. MappingsArePaidFor' /\ OthersServeNone'
      BY <2>1, <3>7, <3>9 DEF CInv, MappingsArePaidFor, OthersServeNone, Mappings, Pending, JobAt
    <3>11. QED
      BY <3>5, <3>10 DEF CInv
  <2>4. QED
    BY <2>2, <2>3
<1>3. CASE StopConnect
  <2>1. /\ UNCHANGED <<chunk, future, guard, lost, worker, serving, runs>>
        /\ stopping.who \in Workers
        /\ inbox' = [inbox EXCEPT ![stopping.who] = Append(inbox[stopping.who], Stop)]
    BY <1>3 DEF StopConnect
  <2>2. Stop \notin Jobs
    BY MapReduceAssumption DEF Stop, Jobs
  <2>3. PICK w \in Workers, n \in Nat :
          /\ w = stopping.who /\ n = Len(inbox[w]) /\ inbox[w] \in Seq(Jobs \cup {Stop})
    BY <2>1 DEF TypeOK
  <2>4. /\ Len(inbox'[w]) = n + 1 /\ inbox'[w][n + 1] = Stop
        /\ \A i \in 1 .. n : inbox'[w][i] = inbox[w][i]
        /\ \A v \in Workers \ {w} : inbox'[v] = inbox[v]
    BY <2>1, <2>3, PushElements DEF TypeOK
  <2>5. \A p \in Places : JobAt(p)' <=> JobAt(p)
    <3> SUFFICES ASSUME NEW v \in Workers, NEW i \in Nat
                 PROVE  JobAt(<<v, i>>)' <=> JobAt(<<v, i>>)
      BY DEF Places
    <3>1. CASE v = w
      BY <2>1, <2>2, <2>3, <2>4, <3>1 DEF JobAt
    <3>2. CASE v /= w
      BY <2>1, <2>4, <3>2 DEF JobAt
    <3>3. QED
      BY <3>1, <3>2
  <2>6. Pending' = Pending
    BY <2>5 DEF Pending
  <2>7. QED
    BY <2>1, <2>6 DEF CInv, LaterJobsWait, OthersServeNone, MappingsArePaidFor, Mappings,
       Sent, Spent, Held
<1>4. ASSUME ~NextChunk, ~StopConnect
      PROVE  UNCHANGED <<chunk, future, guard, lost, worker, serving, inbox, runs>>
  BY <1>4 DEF RunStep, Collect, Reduce, StopStep, StopReceive, StopFails, Return, workerVars
<1>5. QED
  BY <1>1, <1>2, <1>3, <1>4

\* The workers' steps: a mapping to come moves on, is done, or is dropped.
LEMMA PaidWorker ==
  ASSUME TypeOK, CInv, NEW w \in Workers, WorkerStep(w) \/ Crash(w)
  PROVE  CInv'
<1>0. UNCHANGED <<chunk, future, guard, lost>>
  BY DEF WorkerStep, AcceptJob, AcceptFails, Respond, AcceptStop, Crash, managerVars
<1>1. LaterJobsWait' /\ Sent' = Sent /\ Spent' = Spent
  BY <1>0 DEF CInv, LaterJobsWait, Sent, Spent, Held
<1>2. /\ IsFiniteSet(Sent) /\ Cardinality(Sent) \in Nat
      /\ IsFiniteSet(Spent) /\ Cardinality(Spent) \in Nat
      /\ IsFiniteSet(Mappings) /\ IsFiniteSet(Pending)
      /\ Cardinality(Mappings) \in Nat /\ Cardinality(Pending) \in Nat
      /\ Cardinality(Mappings) + Cardinality(Pending) <= Cardinality(Sent) + Cardinality(Spent)
  BY SentAndSpentAreFinite, FS_CardinalityType DEF CInv, MappingsArePaidFor
<1>3. OthersServeNone'
  BY DEF CInv, OthersServeNone, WorkerStep, AcceptJob, AcceptFails, Respond, AcceptStop,
     Crash, TypeOK
<1>4. \A v \in Workers \ {w} : serving'[v] = serving[v] /\ inbox'[v] = inbox[v]
  BY DEF WorkerStep, AcceptJob, AcceptFails, Respond, AcceptStop, Crash, TypeOK
<1>5. CASE AcceptJob(w)
  <2>1. /\ runs' = runs /\ worker[w] = "listening" /\ inbox[w] /= <<>>
        /\ serving' = [serving EXCEPT ![w] = Head(inbox[w])]
        /\ inbox' = [inbox EXCEPT ![w] = Tail(inbox[w])]
    BY <1>5 DEF AcceptJob, managerVars
  <2>2. PICK n \in Nat \ {0} : n = Len(inbox[w])
    BY <2>1, EmptySeq DEF TypeOK
  <2>3. /\ serving[w] = NoOne
        /\ Head(inbox[w]) = inbox[w][1]
        /\ Len(Tail(inbox[w])) = n - 1
        /\ \A i \in 1 .. n - 1 : Tail(inbox[w])[i] = inbox[w][i + 1]
    BY <2>1, <2>2, HeadTailProperties DEF TypeOK, CInv, OthersServeNone
  <2>4. /\ serving'[w] = inbox[w][1] /\ Len(inbox'[w]) = n - 1
        /\ \A i \in 1 .. n - 1 : inbox'[w][i] = inbox[w][i + 1]
    BY <2>1, <2>3 DEF TypeOK
  <2> DEFINE f == [p \in Pending' |-> IF p[1] = w THEN <<w, p[2] + 1>> ELSE p]
  <2>5. \A v \in Workers, i \in Nat : JobAt(<<v, i>>)' =>
          JobAt(IF v = w THEN <<w, i + 1>> ELSE <<v, i>>)
    <3> SUFFICES ASSUME NEW v \in Workers, NEW i \in Nat, JobAt(<<v, i>>)'
                 PROVE  JobAt(IF v = w THEN <<w, i + 1>> ELSE <<v, i>>)
      OBVIOUS
    <3>1. CASE v = w
      BY <2>2, <2>4, <3>1 DEF JobAt
    <3>2. CASE v /= w
      BY <1>4, <3>2 DEF JobAt
    <3>3. QED
      BY <3>1, <3>2
  <2>6. f \in Injection(Pending', Pending)
    <3>1. \A p \in Pending' : /\ p = <<p[1], p[2]>> /\ p[1] \in Workers /\ p[2] \in Nat
                              /\ JobAt(p)'
      BY DEF Pending, Places
    <3>2. f \in [Pending' -> Pending]
      BY <2>5, <3>1 DEF Pending, Places
    <3>3. \A p, q \in Pending' : f[p] = f[q] => p = q
      BY <3>1
    <3>4. QED
      BY <3>2, <3>3 DEF Injection, IsInjective
  <2>7. IsFiniteSet(Pending') /\ Cardinality(Pending') <= Cardinality(Pending)
    BY <1>2, <2>6, FS_Injection
  <2>8. Cardinality(Pending') \in Nat
    BY <2>7, FS_CardinalityType
  <2>9. Mappings' = Mappings
    BY <2>1 DEF Mappings
  <2>10. QED
    BY <1>1, <1>2, <1>3, <2>7, <2>8, <2>9 DEF CInv, MappingsArePaidFor
<1>6. CASE Respond(w)
  <2>1. /\ serving' = [serving EXCEPT ![w] = NoOne]
        /\ runs' = [runs EXCEPT ![serving[w]] = @ + 1]
        /\ inbox'[w] = inbox[w] \/ inbox'[w] = <<>>
    BY <1>6 DEF Respond, TypeOK
  <2>2. \A v \in Workers, i \in Nat : JobAt(<<v, i>>)' => JobAt(<<v, i>>) /\ <<v, i>> /= <<w, 0>>
    <3> SUFFICES ASSUME NEW v \in Workers, NEW i \in Nat, JobAt(<<v, i>>)'
                 PROVE  JobAt(<<v, i>>) /\ <<v, i>> /= <<w, 0>>
      OBVIOUS
    <3>1. CASE v = w
      <4>1. i /= 0
        BY <2>1, <3>1, NoOneIsNoWorker DEF JobAt, TypeOK
      <4>2. Len(<<>>) = 0
        BY EmptySeq
      <4>3. inbox'[w] = inbox[w]
        BY <2>1, <3>1, <4>1, <4>2 DEF JobAt
      <4>4. QED
        BY <3>1, <4>1, <4>3 DEF JobAt
    <3>2. CASE v /= w
      BY <1>4, <3>2 DEF JobAt
    <3>3. QED
      BY <3>1, <3>2
  <2>3. Pending' \subseteq Pending \ {<<w, 0>>}
    BY <2>2 DEF Pending, Places
  <2>4. CASE serving[w] \in Jobs
    <3>1. PICK j \in Jobs : j = serving[w]
      BY <2>4
    <3>2. runs[j] \in Nat /\ runs'[j] = runs[j] + 1 /\ \A k \in Jobs \ {j} : runs'[k] = runs[k]
      BY <2>1, <3>1 DEF TypeOK
    <3>3. Mappings' = Mappings \cup {<<j, runs[j] + 1>>}
      BY <3>2 DEF Mappings
    <3>4. /\ IsFiniteSet(Mappings') /\ Cardinality(Mappings') \in Nat
          /\ Cardinality(Mappings') <= Cardinality(Mappings) + 1
      BY <1>2, <3>3, OneMore
    <3>5. <<w, 0>> \in Pending
      BY <2>4 DEF Pending, Places, JobAt
    <3>6. /\ IsFiniteSet(Pending') /\ Cardinality(Pending') \in Nat
          /\ Cardinality(Pending') <= Cardinality(Pending) - 1
      BY <1>2, <2>3, <3>5, OneLess
    <3>7. QED
      BY <1>1, <1>2, <1>3, <3>4, <3>6 DEF CInv, MappingsArePaidFor
  <2>5. CASE serving[w] \notin Jobs
    <3>1. runs' = runs
      BY <2>1, <2>5 DEF TypeOK
    <3>2. Mappings' = Mappings
      BY <3>1 DEF Mappings
    <3>3. /\ IsFiniteSet(Pending') /\ Cardinality(Pending') \in Nat
          /\ Cardinality(Pending') <= Cardinality(Pending)
      BY <1>2, <2>3, NotMore
    <3>4. QED
      BY <1>1, <1>2, <1>3, <3>2, <3>3 DEF CInv, MappingsArePaidFor
  <2>6. QED
    BY <2>4, <2>5
<1>7. CASE ~AcceptJob(w) /\ ~Respond(w)
  <2>1. /\ runs' = runs /\ inbox'[w] = <<>>
        /\ serving'[w] = serving[w] \/ serving'[w] = NoOne
    BY <1>7 DEF WorkerStep, AcceptFails, AcceptStop, Crash, TypeOK, managerVars
  <2>2. \A v \in Workers, i \in Nat : JobAt(<<v, i>>)' => JobAt(<<v, i>>)
    <3> SUFFICES ASSUME NEW v \in Workers, NEW i \in Nat, JobAt(<<v, i>>)'
                 PROVE  JobAt(<<v, i>>)
      OBVIOUS
    <3>1. CASE v = w
      BY <2>1, <3>1, EmptySeq, NoOneIsNoWorker DEF JobAt
    <3>2. CASE v /= w
      BY <1>4, <3>2 DEF JobAt
    <3>3. QED
      BY <3>1, <3>2
  <2>3. Pending' \subseteq Pending
    BY <2>2 DEF Pending, Places
  <2>4. /\ IsFiniteSet(Pending') /\ Cardinality(Pending') \in Nat
        /\ Cardinality(Pending') <= Cardinality(Pending)
    BY <1>2, <2>3, NotMore
  <2>5. Mappings' = Mappings
    BY <2>1 DEF Mappings
  <2>6. QED
    BY <1>1, <1>2, <1>3, <2>4, <2>5 DEF CInv, MappingsArePaidFor
<1>8. QED
  BY <1>5, <1>6, <1>7

LEMMA PaidStep ==
  ASSUME IInv, CInv, [Next]_vars
  PROVE  CInv'
<1>1. CASE UNCHANGED vars
  BY <1>1 DEF vars, managerVars, workerVars, CInv, LaterJobsWait, OthersServeNone,
     MappingsArePaidFor, Mappings, Pending, JobAt, Sent, Spent, Held
<1>2. CASE Next
  BY <1>2, PaidFuture, PaidRun, PaidWorker DEF IInv, Next
<1>3. QED
  BY <1>1, <1>2

\* A job is mapped more often than once only at the price of a worker: all
\* mappings together are no more than the jobs and the workers whose perform
\* has failed (Manager::map, which starts over with another worker).
THEOREM RerunsAreBounded == Spec => []RerunsCostWorkers
<1>1. IInv /\ CInv /\ [Next]_vars => CInv'
  BY PaidStep
<1>2. IInv /\ CInv => RerunsCostWorkers
  BY SentAndSpentAreFinite, FS_CardinalityType, MapReduceAssumption
     DEF IInv, CInv, MappingsArePaidFor, RerunsCostWorkers
<1>3. QED
  BY <1>1, <1>2, PaidInit, IInvHolds, PTL DEF Spec

----------------------------------------------------------------------------
\* What is reduced.

\* The jobs of the first c chunks.
UpTo(c) == {j \in Jobs : j <= c * NWorkers}

InResults == {results[i] : i \in 1 .. Len(results)}
Reduced == {acc[i] : i \in 1 .. Len(acc)}

\* A result is collected once, and not after it has been reduced.
ResultsAreNew ==
  /\ \A i, k \in 1 .. Len(results) : results[i] = results[k] => i = k
  /\ InResults \cap Reduced = {}

\* What has been collected and reduced at each stage of run.
StagesAreComplete ==
  /\ chunk \in Nat \ {0}
  /\ phase = "mapping" =>
       /\ Reduced = UpTo(chunk - 1)
       /\ InResults = {j \in ChunkOf(chunk) : future[j] = "done"}
  /\ phase = "reducing" => Reduced \cup InResults = UpTo(chunk)
  /\ phase = "stopping" => Reduced = Jobs

RInv == ResultsAreNew /\ StagesAreComplete

----------------------------------------------------------------------------
\* The chunks cut the jobs into intervals, the last of which ends with the
\* last job.
LEMMA ChunksAreConsecutive ==
  ASSUME NEW c \in Nat \ {0}
  PROVE  /\ ChunkOf(c) \cap UpTo(c - 1) = {}
         /\ ChunkOf(c) \cup UpTo(c - 1) = UpTo(c)
         /\ ChunkOf(c + 1) = {} => UpTo(c) = Jobs
<1> DEFINE n == c * NWorkers
<1>1. n \in Nat /\ NWorkers \in Nat \ {0} /\ NJobs \in Nat
  BY MapReduceAssumption
<1>2. (c - 1) * NWorkers = n - NWorkers /\ (c + 1) * NWorkers = n + NWorkers
  BY <1>1
<1>3. (c + 1) - 1 = c
  OBVIOUS
<1> HIDE DEF n
<1>4. /\ ChunkOf(c) = {j \in Jobs : n - NWorkers < j /\ j <= n}
      /\ UpTo(c - 1) = {j \in Jobs : j <= n - NWorkers}
      /\ UpTo(c) = {j \in Jobs : j <= n}
      /\ ChunkOf(c + 1) = {j \in Jobs : n < j /\ j <= n + NWorkers}
  BY <1>2, <1>3 DEF ChunkOf, UpTo, n
<1>5. ChunkOf(c) \cap UpTo(c - 1) = {} /\ ChunkOf(c) \cup UpTo(c - 1) = UpTo(c)
  BY <1>1, <1>4 DEF Jobs
<1>6. ASSUME ChunkOf(c + 1) = {} PROVE UpTo(c) = Jobs
  <2>1. n + 1 \notin Jobs
    <3>1. n < n + 1 /\ n + 1 <= n + NWorkers
      BY <1>1
    <3>2. {j \in Jobs : n < j /\ j <= n + NWorkers} = {}
      BY <1>4, <1>6
    <3>3. QED
      BY <3>1, <3>2
  <2>2. \A j \in Jobs : j <= n
    BY <1>1, <2>1 DEF Jobs
  <2>3. QED
    BY <1>4, <2>2
<1>7. QED
  BY <1>5, <1>6

LEMMA NothingBeforeTheFirst == UpTo(0) = {}
  BY MapReduceAssumption DEF UpTo, Jobs

\* The elements of a sequence after a push, and of its two ends.
LEMMA PushedElements ==
  ASSUME NEW S, NEW s \in Seq(S), NEW e \in S, NEW t, t = Append(s, e)
  PROVE  {t[i] : i \in 1 .. Len(t)} = {s[i] : i \in 1 .. Len(s)} \cup {e}
<1>1. Len(s) \in Nat
  OBVIOUS
<1>2. /\ Len(t) = Len(s) + 1 /\ t[Len(s) + 1] = e
      /\ \A i \in 1 .. Len(s) : t[i] = s[i]
  BY PushElements
<1>3. QED
  BY <1>1, <1>2

LEMMA SplitElements ==
  ASSUME NEW S, NEW s \in Seq(S), s /= <<>>
  PROVE  /\ Head(s) = s[1] /\ Head(s) \in S /\ Tail(s) \in Seq(S)
         /\ Len(s) \in Nat \ {0} /\ Len(Tail(s)) = Len(s) - 1
         /\ \A i \in 1 .. Len(s) - 1 : Tail(s)[i] = s[i + 1]
  BY EmptySeq, HeadTailProperties

----------------------------------------------------------------------------
LEMMA ReduceInit == Init => RInv
<1> SUFFICES ASSUME Init PROVE RInv
  OBVIOUS
<1>1. InResults = {} /\ Reduced = {} /\ Len(results) = 0
  BY DEF Init, InResults, Reduced
<1>2. NJobs = 0 => Jobs = {}
  BY DEF Jobs
<1>3. \A j \in Jobs : future[j] /= "done"
  BY DEF Init
<1>4. ResultsAreNew
  BY <1>1 DEF ResultsAreNew
<1>5. chunk = 1 /\ chunk - 1 = 0 /\ (phase = "mapping" \/ (phase = "stopping" /\ NJobs = 0))
  BY DEF Init
<1>6. {j \in ChunkOf(chunk) : future[j] = "done"} = {}
  BY <1>3 DEF ChunkOf
<1>7. StagesAreComplete
  BY <1>1, <1>2, <1>5, <1>6, NothingBeforeTheFirst DEF StagesAreComplete
<1>8. QED
  BY <1>4, <1>7 DEF RInv

\* A future's steps: a result comes with the last of them, once.
LEMMA ReduceFuture ==
  ASSUME TypeOK, OthersAreIdle, RInv, NEW j \in Jobs, FutureStep(j)
  PROVE  RInv'
<1> USE DEF RInv, ResultsAreNew, StagesAreComplete, InResults, Reduced
<1>1. CASE DropGuard(j)
  <2>1. /\ phase = "mapping" /\ future[j] = "drop"
        /\ results' = Append(results, j) /\ future' = [future EXCEPT ![j] = "done"]
        /\ UNCHANGED <<phase, chunk, acc>>
    BY <1>1 DEF DropGuard
  <2>2. j \in ChunkOf(chunk)
    BY <2>1 DEF OthersAreIdle
  <2>3. j \notin InResults /\ j \notin Reduced
    BY <2>1, <2>2, ChunksAreConsecutive
  <2>4. InResults' = InResults \cup {j} /\ Reduced' = Reduced
    <3>1. results' = Append(results, j) /\ acc' = acc /\ results \in Seq(Jobs)
      BY <2>1 DEF TypeOK
    <3>2. QED
      BY <3>1, PushedElements
  <2>5. \A i, k \in 1 .. Len(results') : results'[i] = results'[k] => i = k
    <3>1. /\ Len(results') = Len(results) + 1 /\ results'[Len(results) + 1] = j
          /\ \A i \in 1 .. Len(results) : results'[i] = results[i]
      BY <2>1, PushElements DEF TypeOK
    <3>2. \A i \in 1 .. Len(results) : results[i] /= j
      BY <2>3
    <3>3. Len(results) \in Nat
      BY DEF TypeOK
    <3>4. QED
      BY <3>1, <3>2, <3>3
  <2>6. {i \in ChunkOf(chunk) : future'[i] = "done"}
          = {i \in ChunkOf(chunk) : future[i] = "done"} \cup {j}
    BY <2>1, <2>2 DEF TypeOK, ChunkOf
  <2>7. UpTo(chunk - 1)' = UpTo(chunk - 1) /\ ChunkOf(chunk)' = ChunkOf(chunk)
    BY <2>1 DEF UpTo, ChunkOf
  <2> HIDE DEF InResults, Reduced
  <2>8. QED
    BY <2>1, <2>3, <2>4, <2>5, <2>6, <2>7
<1>2. CASE ~DropGuard(j)
  <2>1. /\ UNCHANGED <<results, acc, chunk>> /\ (phase' = phase \/ phase' = "panicked")
        /\ future[j] /= "done" /\ phase = "mapping"
        /\ \E f \in Futures \ {"done"} : \/ future' = [future EXCEPT ![j] = f]
                                         \/ future' = future
    BY <1>2 DEF FutureStep, TakeWorker, Panic, Sleep, Yield, Connect, PerformFails, DropFailed, Receive,
       PushWorker, Futures
  <2>2. \A i \in Jobs : (future'[i] = "done") = (future[i] = "done")
    BY <2>1 DEF TypeOK
  <2>3. {i \in ChunkOf(chunk) : future'[i] = "done"} = {i \in ChunkOf(chunk) : future[i] = "done"}
    BY <2>2 DEF ChunkOf
  <2>4. /\ UpTo(chunk - 1)' = UpTo(chunk - 1) /\ ChunkOf(chunk)' = ChunkOf(chunk)
        /\ InResults' = InResults /\ Reduced' = Reduced
    BY <2>1 DEF UpTo, ChunkOf
  <2> HIDE DEF InResults, Reduced
  <2>5. ResultsAreNew'
    BY <2>1, <2>4
  <2> HIDE DEF ResultsAreNew
  <2>6. StagesAreComplete'
    BY <2>1, <2>3, <2>4
  <2>7. QED
    BY <2>5, <2>6
<1>3. QED
  BY <1>1, <1>2

\* The manager's own steps.
LEMMA ReduceRun ==
  ASSUME TypeOK, RInv, RunStep
  PROVE  RInv'
<1> USE DEF RInv, ResultsAreNew, StagesAreComplete
<1>1. CASE Collect
  <2>1. phase = "mapping" /\ phase' = "reducing" /\ UNCHANGED <<results, acc, chunk>>
    BY <1>1 DEF Collect
  <2>2. InResults = ChunkOf(chunk)
    BY <1>1, <2>1 DEF Collect, ChunkDone
  <2>3. Reduced \cup InResults = UpTo(chunk)
    BY <2>1, <2>2, ChunksAreConsecutive
  <2>4. InResults' = InResults /\ Reduced' = Reduced /\ UpTo(chunk)' = UpTo(chunk)
    BY <2>1 DEF InResults, Reduced, UpTo
  <2>5. QED
    BY <2>1, <2>3, <2>4
<1>2. CASE Reduce
  <2>1. /\ phase = "reducing" /\ UNCHANGED <<phase, chunk>> /\ results /= <<>>
        /\ acc' = Append(acc, Head(results)) /\ results' = Tail(results)
    BY <1>2 DEF Reduce
  <2>2. /\ Head(results) = results[1] /\ Head(results) \in Jobs
        /\ Len(results) \in Nat \ {0} /\ Len(results') = Len(results) - 1
        /\ \A i \in 1 .. Len(results) - 1 : results'[i] = results[i + 1]
    BY <2>1, SplitElements DEF TypeOK
  <2>3. Reduced' = Reduced \cup {results[1]}
    <3>1. acc' = Append(acc, results[1]) /\ acc \in Seq(Jobs)
      BY <2>1, <2>2 DEF TypeOK
    <3>2. QED
      BY <2>2, <3>1, PushedElements DEF Reduced
  <2>4. InResults' = InResults \ {results[1]}
    <3>1. InResults' \subseteq InResults \ {results[1]}
      BY <2>2 DEF InResults
    <3>2. ASSUME NEW i \in 1 .. Len(results), results[i] /= results[1]
          PROVE  results[i] \in InResults'
      <4>1. i - 1 \in 1 .. Len(results') /\ (i - 1) + 1 = i
        BY <2>2, <3>2
      <4>2. results'[i - 1] = results[i]
        BY <2>2, <4>1
      <4>3. QED
        BY <4>1, <4>2 DEF InResults
    <3>3. InResults \ {results[1]} \subseteq InResults'
      BY <3>2 DEF InResults
    <3>4. QED
      BY <3>1, <3>3
  <2>5. \A i, k \in 1 .. Len(results') : results'[i] = results'[k] => i = k
    BY <2>2
  <2>6. results[1] \in InResults
    BY <2>2 DEF InResults
  <2>7. UpTo(chunk)' = UpTo(chunk)
    BY <2>1 DEF UpTo
  <2>8. QED
    BY <2>1, <2>3, <2>4, <2>5, <2>6, <2>7
<1>3. CASE NextChunk
  <2>1. /\ phase = "reducing" /\ results = <<>> /\ UNCHANGED <<results, acc>>
    BY <1>3 DEF NextChunk
  <2>2. InResults = {} /\ InResults' = {} /\ Reduced' = Reduced /\ Len(results') = 0
    BY <2>1 DEF InResults, Reduced
  <2>3. Reduced = UpTo(chunk)
    BY <2>1, <2>2
  <2>4. CASE ChunkOf(chunk + 1) = {}
    <3>1. phase' = "stopping" /\ chunk' = chunk
      BY <1>3, <2>4 DEF NextChunk
    <3>2. QED
      BY <2>2, <2>3, <2>4, <3>1, ChunksAreConsecutive
  <2>5. CASE ChunkOf(chunk + 1) /= {}
    <3>1. /\ phase' = "mapping" /\ chunk' = chunk + 1
          /\ future' = [j \in Jobs |-> IF j \in ChunkOf(chunk + 1) THEN "get" ELSE future[j]]
      BY <1>3, <2>5 DEF NextChunk
    <3>2. UpTo(chunk - 1)' = UpTo(chunk) /\ ChunkOf(chunk)' = ChunkOf(chunk + 1)
      BY <3>1 DEF UpTo, ChunkOf
    <3>3. {j \in ChunkOf(chunk + 1) : future'[j] = "done"} = {}
      BY <3>1 DEF ChunkOf
    <3>4. QED
      BY <2>2, <2>3, <3>1, <3>2, <3>3
  <2>6. QED
    BY <2>4, <2>5
<1>4. QED
  BY <1>1, <1>2, <1>3 DEF RunStep

\* Stopping the workers, and the workers' steps, leave it alone.
LEMMA ReduceOthers ==
  ASSUME RInv,
         UNCHANGED <<results, acc, chunk, future>>,
         phase' = phase \/ phase' = "returned"
  PROVE  RInv'
<1>1. /\ UpTo(chunk - 1)' = UpTo(chunk - 1) /\ UpTo(chunk)' = UpTo(chunk)
      /\ ChunkOf(chunk)' = ChunkOf(chunk) /\ InResults' = InResults /\ Reduced' = Reduced
  BY DEF UpTo, ChunkOf, InResults, Reduced
<1>2. QED
  BY <1>1 DEF RInv, ResultsAreNew, StagesAreComplete

LEMMA ReduceStep ==
  ASSUME TypeOK, OthersAreIdle, RInv, [Next]_vars
  PROVE  RInv'
<1>1. ASSUME \/ StopStep
             \/ \E w \in Workers : WorkerStep(w) \/ Crash(w)
             \/ UNCHANGED vars
      PROVE  UNCHANGED <<results, acc, chunk, future>> /\ (phase' = phase \/ phase' = "returned")
  BY <1>1 DEF StopStep, StopConnect, StopReceive, StopFails, Return, WorkerStep,
     AcceptJob, AcceptFails, Respond, AcceptStop, Crash, vars, managerVars
<1>2. QED
  BY <1>1, ReduceFuture, ReduceRun, ReduceOthers DEF Next

\* Chunk by chunk, what is done is in results or in acc, and nothing is twice.
THEOREM RInvHolds == Spec => []RInv
<1>1. IInv /\ RInv /\ [Next]_vars => RInv'
  BY ReduceStep DEF IInv
<1>2. QED
  BY <1>1, ReduceInit, IInvHolds, PTL DEF Spec

----------------------------------------------------------------------------
\* The refinement: what each step is to ReduceOnce.
LEMMA SameReduced == Once!Reduced = Reduced /\ Once!Jobs = Jobs
  BY DEF Once!Reduced, Reduced, Once!Jobs, Jobs

LEMMA AStepOrNone ==
  ASSUME TypeOK, OthersAreIdle, RInv, [Next]_vars
  PROVE  [Once!Next]_Once!vars
<1> DEFINE outcome == IF phase \in {"returned", "panicked"} THEN phase ELSE "running"
<1> USE SameReduced DEF RInv, StagesAreComplete
<1>1. ASSUME NEW j \in Jobs, Panic(j) PROVE Once!Panic
  <2>1. phase = "mapping" /\ future[j] = "get" /\ phase' = "panicked" /\ acc' = acc
    BY <1>1 DEF Panic
  <2>2. j \in ChunkOf(chunk)
    BY <2>1 DEF OthersAreIdle
  <2>3. j \notin Reduced
    BY <2>1, <2>2, ChunksAreConsecutive
  <2>4. QED
    BY <2>1, <2>3 DEF Once!Panic
<1>2. CASE Reduce
  <2>1. phase = "reducing" /\ phase' = phase /\ results /= <<>> /\ acc' = Append(acc, Head(results))
    BY <1>2 DEF Reduce
  <2>2. Head(results) = results[1] /\ Head(results) \in Jobs /\ 1 \in 1 .. Len(results)
    BY <2>1, SplitElements DEF TypeOK
  <2>3. Head(results) \in Jobs \ Reduced
    BY <2>2 DEF ResultsAreNew, InResults
  <2>4. \E j \in Jobs \ Reduced : acc' = Append(acc, j)
    BY <2>1, <2>3
  <2>5. outcome = "running" /\ outcome' = outcome
    BY <2>1
  <2>6. QED
    BY <2>4, <2>5 DEF Once!Reduce, Once!Next
<1>3. CASE Return
  <2>1. phase = "stopping" /\ phase' = "returned" /\ acc' = acc
    BY <1>3 DEF Return
  <2>2. Reduced = Jobs
    BY <2>1
  <2>3. QED
    BY <2>1, <2>2 DEF Once!Return, Once!Next
<1>4. CASE UNCHANGED acc /\ outcome' = outcome
  BY <1>4 DEF Once!vars
<1>5. ASSUME NEW j \in Jobs, FutureStep(j), ~Panic(j) PROVE UNCHANGED acc /\ outcome' = outcome
  BY <1>5 DEF FutureStep, TakeWorker, Sleep, Yield, Connect, PerformFails, DropFailed, Receive,
     PushWorker, DropGuard
<1>6. ASSUME \/ Collect \/ NextChunk \/ StopConnect \/ StopReceive \/ StopFails
             \/ \E w \in Workers : WorkerStep(w) \/ Crash(w)
             \/ UNCHANGED vars
      PROVE  UNCHANGED acc /\ outcome' = outcome
  BY <1>6 DEF Collect, NextChunk, StopConnect, StopReceive, StopFails, WorkerStep,
     AcceptJob, AcceptFails, Respond, AcceptStop, Crash, vars, managerVars
<1>7. QED
  BY <1>1, <1>2, <1>3, <1>4, <1>5, <1>6 DEF Next, RunStep, StopStep, Once!Next

\* Manager::run reduces the result of each job exactly once, in whatever
\* order, and returns when that is done; or it panics before.
THEOREM ReducesOnce == Spec => ImplementsReduceOnce
<1>1. Init => Once!Init
  BY DEF Init, Once!Init
<1>2. IInv /\ RInv /\ [Next]_vars => [Once!Next]_Once!vars
  BY AStepOrNone DEF IInv
<1>3. QED
  BY <1>1, <1>2, IInvHolds, RInvHolds, PTL DEF Spec, ImplementsReduceOnce, Once!Spec
=============================================================================
