----------------------------- MODULE MapReduce -----------------------------
(***************************************************************************)
(* mapreduce/manager.rs and mapreduce/worker.rs over sonic.rs: a manager   *)
(* maps jobs on a pool of remote workers and reduces their results.        *)
(*                                                                         *)
(* The manager runs one future per job of the current chunk; a future      *)
(* takes a worker from the pool under a WorkerGuard, connects, sends the   *)
(* job, waits for the answer and hands the worker back.  A worker is a     *)
(* process that serves one connection at a time.  Every await of a future  *)
(* is a point where another future may run; returning a worker is two      *)
(* steps (push it, then count the guard down) because the pool's list and  *)
(* its counter are two objects.                                            *)
(*                                                                         *)
(* The futures of a chunk are one task.  One that finds no worker on the   *)
(* list while some are out blocks the thread and asks again, and no other  *)
(* future is polled until tokio makes it wait at the lock of the list.     *)
(***************************************************************************)
EXTENDS Naturals, Sequences, FiniteSets

CONSTANTS NWorkers, NJobs

ASSUME MapReduceAssumption == NWorkers \in Nat \ {0} /\ NJobs \in Nat

Workers == 1 .. NWorkers
Jobs == 1 .. NJobs
NoOne == 0                       \* no worker, no job
Stop == NJobs + 1                \* Task::AllFinished among the requests

VARIABLES
  \* the manager
  phase,        \* "mapping", "reducing", "stopping", "returned" or "panicked"
  chunk,        \* the number of the chunk of jobs being mapped
  future,       \* what each job's future does next
  guard,        \* the worker each future holds a WorkerGuard of
  ready,        \* ready_workers, a stack
  running,      \* running_workers
  results,      \* the results of the chunk, in order of completion
  acc,          \* the jobs reduced so far
  stopping,     \* the worker being stopped, and is the request sent
  failing,      \* failing_workers
  \* the workers and the network
  worker,       \* "down", "listening", "busy" or "ended"
  serving,      \* the job a busy worker maps
  inbox,        \* the requests of the connections it has not accepted yet
  answer,       \* what the worker wrote to the connection still open
  \* history
  lost,         \* workers a failed perform left out of the pool
  runs          \* how often each job was mapped

managerVars == <<phase, chunk, future, guard, ready, running, results, acc,
                 stopping, failing, lost>>
workerVars == <<worker, serving, inbox, answer, runs>>
vars == <<managerVars, workerVars>>

\* One job more than there are workers.
ChunkOf_Larger(c) == {j \in Jobs : (c - 1) * NWorkers < j /\ j <= c * NWorkers + 1}

ChunkOf(c) == {j \in Jobs : (c - 1) * NWorkers < j /\ j <= c * NWorkers}

\* The job whose future waits for an answer of w, if any: an open connection.
Waiting(w) ==
  IF phase = "mapping" THEN {j \in Jobs : guard[j] = w /\ future[j] = "await"} ELSE {}
StopWaits(w) == stopping = [who |-> w, sent |-> TRUE]

Init ==
  /\ phase = IF NJobs = 0 THEN "stopping" ELSE "mapping"
  /\ chunk = 1
  /\ future = [j \in Jobs |-> IF j \in ChunkOf(1) THEN "get" ELSE "unstarted"]
  /\ guard = [j \in Jobs |-> NoOne]
  /\ ready = [w \in Workers |-> w]
  /\ running = 0
  /\ results = <<>>
  /\ acc = <<>>
  /\ stopping = [who |-> 1, sent |-> FALSE]
  /\ failing = {}
  /\ worker \in [Workers -> {"down", "listening"}]
  /\ serving = [w \in Workers |-> NoOne]
  /\ inbox = [w \in Workers |-> <<>>]
  /\ answer = [w \in Workers |-> "none"]
  /\ lost = {}
  /\ runs = [j \in Jobs |-> 0]

----------------------------------------------------------------------------
\* The manager: Manager::map and try_map, one future per job.

\* A worker whose process accepts connections, busy or not: the kernel
\* completes the connect and queues it.
Up(w) == worker[w] \in {"listening", "busy"}

\* get_worker, with a worker on the stack: pop it, count the guard.
TakeWorker(j) ==
  /\ phase = "mapping" /\ future[j] = "get"
  /\ ready /= <<>>
  /\ guard' = [guard EXCEPT ![j] = ready[Len(ready)]]
  /\ ready' = SubSeq(ready, 1, Len(ready) - 1)
  /\ running' = running + 1
  /\ future' = [future EXCEPT ![j] = "connect"]
  /\ UNCHANGED <<phase, chunk, results, acc, stopping, failing, lost, workerVars>>

\* Give up as soon as no worker is on the stack.
NoAvailableWorker_Eager == ready = <<>>

\* get_worker, with no worker on the stack and none out: map panics.
NoAvailableWorker == Len(ready) + running = 0

Panic(j) ==
  /\ phase = "mapping" /\ future[j] = "get"
  /\ NoAvailableWorker
  /\ phase' = "panicked"
  /\ UNCHANGED <<chunk, future, guard, ready, running, results, acc, stopping,
                 failing, lost, workerVars>>

\* With none on the stack and some out, try_map sleeps in its thread and asks
\* again.  The lock is free, so the future goes round this loop without giving
\* up its turn, and finds what it found before: nobody else has moved.
Sleep(j) ==
  /\ phase = "mapping" /\ future[j] = "get"
  /\ ready = <<>> /\ ~NoAvailableWorker
  /\ future' = [future EXCEPT ![j] = "asleep"]
  /\ UNCHANGED <<phase, chunk, guard, ready, running, results, acc, stopping,
                 failing, lost, workerVars>>

\* When the budget of the task is used up the lock is not given, free as it is.
\* The others are polled without a budget, so whether one of them gets on
\* before this one asks again depends on the order of the list they are on.
Yield(j) ==
  /\ phase = "mapping" /\ future[j] = "asleep"
  /\ future' = [future EXCEPT ![j] = "get"]
  /\ UNCHANGED <<phase, chunk, guard, ready, running, results, acc, stopping,
                 failing, lost, workerVars>>

Asleep == {j \in Jobs : future[j] = "asleep"}

\* perform: one of the attempts to connect succeeds, and the job is sent.
Connect(j) ==
  /\ phase = "mapping" /\ future[j] = "connect"
  /\ Up(guard[j])
  /\ future' = [future EXCEPT ![j] = "await"]
  /\ inbox' = [inbox EXCEPT ![guard[j]] = Append(@, j)]
  /\ answer' = [answer EXCEPT ![guard[j]] = "none"]
  /\ UNCHANGED <<phase, chunk, guard, ready, running, results, acc, stopping,
                 failing, lost, worker, serving, runs>>

\* No attempt succeeds, or the send fails or takes 30 seconds in all.
PerformFails(j) ==
  /\ phase = "mapping" /\ future[j] \in {"connect", "await"}
  /\ future' = [future EXCEPT ![j] = "failed"]
  /\ UNCHANGED <<phase, chunk, guard, ready, running, results, acc, stopping,
                 failing, lost, workerVars>>

\* Push the worker back after a failure as after a success.
DropFailed_Recycles(j) ==
  /\ phase = "mapping" /\ future[j] = "failed"
  /\ ready' = Append(ready, guard[j])
  /\ running' = running - 1
  /\ guard' = [guard EXCEPT ![j] = NoOne]
  /\ future' = [future EXCEPT ![j] = "get"]
  /\ lost' = lost \cup {guard[j]}
  /\ UNCHANGED <<phase, chunk, results, acc, stopping, failing, workerVars>>

\* Drop the guard and leave the count.
DropFailed_KeepsCount(j) ==
  /\ phase = "mapping" /\ future[j] = "failed"
  /\ guard' = [guard EXCEPT ![j] = NoOne]
  /\ future' = [future EXCEPT ![j] = "get"]
  /\ lost' = lost \cup {guard[j]}
  /\ UNCHANGED <<phase, chunk, ready, running, results, acc, stopping, failing, workerVars>>

\* The guard of a failed perform is dropped, the worker is not pushed, and
\* map starts over with another worker.
DropFailed(j) ==
  /\ phase = "mapping" /\ future[j] = "failed"
  /\ running' = running - 1
  /\ guard' = [guard EXCEPT ![j] = NoOne]
  /\ future' = [future EXCEPT ![j] = "get"]
  /\ lost' = lost \cup {guard[j]}
  /\ UNCHANGED <<phase, chunk, ready, results, acc, stopping, failing, workerVars>>

\* The answer arrives in time.
Receive(j) ==
  /\ phase = "mapping" /\ future[j] = "await"
  /\ answer[guard[j]] = "content"
  /\ future' = [future EXCEPT ![j] = "push"]
  /\ answer' = [answer EXCEPT ![guard[j]] = "none"]
  /\ UNCHANGED <<phase, chunk, guard, ready, running, results, acc, stopping,
                 failing, lost, worker, serving, inbox, runs>>

\* WorkerGuard::success: the worker goes back on the stack ...
PushWorker(j) ==
  /\ phase = "mapping" /\ future[j] = "push"
  /\ ready' = Append(ready, guard[j])
  /\ future' = [future EXCEPT ![j] = "drop"]
  /\ UNCHANGED <<phase, chunk, guard, running, results, acc, stopping, failing,
                 lost, workerVars>>

\* ... and the guard is dropped: put_back.  The result is the job's.
DropGuard(j) ==
  /\ phase = "mapping" /\ future[j] = "drop"
  /\ running' = running - 1
  /\ guard' = [guard EXCEPT ![j] = NoOne]
  /\ future' = [future EXCEPT ![j] = "done"]
  /\ results' = Append(results, j)
  /\ UNCHANGED <<phase, chunk, ready, acc, stopping, failing, lost, workerVars>>

----------------------------------------------------------------------------
\* get_results and run.

\* Collect what the first futures give.
ChunkDone_Any == \E j \in ChunkOf(chunk) : future[j] = "done"

\* The chunk is collected when each of its futures has a result.
ChunkDone == \A j \in ChunkOf(chunk) : future[j] = "done"

Collect ==
  /\ phase = "mapping"
  /\ ChunkDone
  /\ phase' = "reducing"
  /\ UNCHANGED <<chunk, future, guard, ready, running, results, acc, stopping,
                 failing, lost, workerVars>>

Reduce ==
  /\ phase = "reducing" /\ results /= <<>>
  /\ acc' = Append(acc, Head(results))
  /\ results' = Tail(results)
  /\ UNCHANGED <<phase, chunk, future, guard, ready, running, stopping, failing,
                 lost, workerVars>>

NextChunk ==
  /\ phase = "reducing" /\ results = <<>>
  /\ IF ChunkOf(chunk + 1) = {}
     THEN /\ phase' = "stopping"
          /\ UNCHANGED <<chunk, future>>
     ELSE /\ phase' = "mapping"
          /\ chunk' = chunk + 1
          /\ future' = [j \in Jobs |->
               IF j \in ChunkOf(chunk + 1) THEN "get" ELSE future[j]]
  /\ UNCHANGED <<guard, ready, running, results, acc, stopping, failing, lost, workerVars>>

\* stop_workers goes through all the workers, those lost to the pool too.
StopConnect ==
  /\ phase = "stopping" /\ stopping.who \in Workers /\ ~stopping.sent
  /\ Up(stopping.who)
  /\ stopping' = [stopping EXCEPT !.sent = TRUE]
  /\ inbox' = [inbox EXCEPT ![stopping.who] = Append(@, Stop)]
  /\ answer' = [answer EXCEPT ![stopping.who] = "none"]
  /\ UNCHANGED <<phase, chunk, future, guard, ready, running, results, acc,
                 failing, lost, worker, serving, runs>>

NextToStop == [who |-> stopping.who + 1, sent |-> FALSE]

StopReceive ==
  /\ phase = "stopping" /\ stopping.who \in Workers /\ stopping.sent
  /\ answer[stopping.who] = "empty"
  /\ stopping' = NextToStop
  /\ UNCHANGED <<phase, chunk, future, guard, ready, running, results, acc,
                 failing, lost, workerVars>>

\* As for a job: no connection, a broken one, or no answer in 30 seconds.
StopFails ==
  /\ phase = "stopping" /\ stopping.who \in Workers
  /\ stopping' = NextToStop
  /\ failing' = failing \cup {stopping.who}
  /\ UNCHANGED <<phase, chunk, future, guard, ready, running, results, acc,
                 lost, workerVars>>

Return ==
  /\ phase = "stopping" /\ stopping.who \notin Workers
  /\ phase' = "returned"
  /\ UNCHANGED <<chunk, future, guard, ready, running, results, acc, stopping,
                 failing, lost, workerVars>>

----------------------------------------------------------------------------
\* A worker: Worker::run.

\* Read the request of the oldest connection.
AcceptJob(w) ==
  /\ worker[w] = "listening"
  /\ inbox[w] /= <<>> /\ Head(inbox[w]) \in Jobs
  /\ worker' = [worker EXCEPT ![w] = "busy"]
  /\ serving' = [serving EXCEPT ![w] = Head(inbox[w])]
  /\ inbox' = [inbox EXCEPT ![w] = Tail(@)]
  /\ UNCHANGED <<managerVars, answer, runs>>

\* The connection was closed before all of the request was read: accept()?
AcceptFails(w) ==
  /\ worker[w] = "listening"
  /\ inbox[w] /= <<>>
  /\ IF Head(inbox[w]) = Stop THEN ~StopWaits(w) ELSE Head(inbox[w]) \notin Waiting(w)
  /\ worker' = [worker EXCEPT ![w] = "ended"]
  /\ inbox' = [inbox EXCEPT ![w] = <<>>]
  /\ UNCHANGED <<managerVars, serving, answer, runs>>

\* job.map returns and the result is written.  Nobody may be reading it any
\* more: the write then succeeds into the void, or fails and ends the loop.
Respond(w) ==
  LET j == serving[w]
      open == j \in Waiting(w)
  IN  /\ worker[w] = "busy"
      /\ runs' = [runs EXCEPT ![j] = @ + 1]
      /\ serving' = [serving EXCEPT ![w] = NoOne]
      /\ answer' = IF open THEN [answer EXCEPT ![w] = "content"] ELSE answer
      /\ \/ /\ worker' = [worker EXCEPT ![w] = "listening"]
            /\ UNCHANGED inbox
         \/ /\ ~open
            /\ worker' = [worker EXCEPT ![w] = "ended"]
            /\ inbox' = [inbox EXCEPT ![w] = <<>>]
      /\ UNCHANGED managerVars

\* AllFinished: answer Empty and leave the loop.
AcceptStop(w) ==
  /\ worker[w] = "listening"
  /\ inbox[w] /= <<>> /\ Head(inbox[w]) = Stop
  /\ worker' = [worker EXCEPT ![w] = "ended"]
  /\ inbox' = [inbox EXCEPT ![w] = <<>>]
  /\ answer' = IF StopWaits(w) THEN [answer EXCEPT ![w] = "empty"] ELSE answer
  /\ UNCHANGED <<managerVars, serving, runs>>

\* The process dies, with whatever it was doing.
Crash(w) ==
  /\ Up(w)
  /\ worker' = [worker EXCEPT ![w] = "down"]
  /\ serving' = [serving EXCEPT ![w] = NoOne]
  /\ inbox' = [inbox EXCEPT ![w] = <<>>]
  /\ UNCHANGED <<managerVars, answer, runs>>

----------------------------------------------------------------------------
FutureStep(j) ==
  \/ Yield(j)
  \/ /\ Asleep = {}
     /\ \/ TakeWorker(j) \/ Panic(j) \/ Sleep(j) \/ Connect(j) \/ PerformFails(j)
        \/ DropFailed(j) \/ Receive(j) \/ PushWorker(j) \/ DropGuard(j)

RunStep == Collect \/ Reduce \/ NextChunk
StopStep == StopConnect \/ StopReceive \/ StopFails \/ Return
WorkerStep(w) == AcceptJob(w) \/ AcceptFails(w) \/ Respond(w) \/ AcceptStop(w)

Next ==
  \/ \E j \in Jobs : FutureStep(j)
  \/ RunStep
  \/ StopStep
  \/ \E w \in Workers : WorkerStep(w) \/ Crash(w)

\* A future that can go on and is not kept from it is polled, and a call that
\* gets no answer fails when its time is up; a worker goes on unless it dies.
\* While one future sleeps again and again, this promises the others nothing.
Fairness ==
  /\ \A j \in Jobs : WF_vars(FutureStep(j))
  /\ WF_vars(RunStep)
  /\ WF_vars(StopStep)
  /\ \A w \in Workers : WF_vars(WorkerStep(w))

Spec == Init /\ [][Next]_vars /\ Fairness

----------------------------------------------------------------------------
Futures == {"unstarted", "get", "asleep", "connect", "await", "failed", "push", "drop", "done"}
Held == {j \in Jobs : guard[j] /= NoOne}
Active == {j \in Held : future[j] /= "drop"}
InReady == {ready[i] : i \in 1 .. Len(ready)}

\* The type of the state.
TypeOK ==
  /\ phase \in {"mapping", "reducing", "stopping", "returned", "panicked"}
  /\ chunk \in Nat
  /\ future \in [Jobs -> Futures]
  /\ guard \in [Jobs -> Workers \cup {NoOne}]
  /\ ready \in Seq(Workers)
  /\ running \in Nat
  /\ results \in Seq(Jobs)
  /\ acc \in Seq(Jobs)
  /\ stopping \in [who : 1 .. NWorkers + 1, sent : BOOLEAN]
  /\ failing \subseteq Workers
  /\ worker \in [Workers -> {"down", "listening", "busy", "ended"}]
  /\ serving \in [Workers -> Jobs \cup {NoOne}]
  /\ inbox \in [Workers -> Seq(Jobs \cup {Stop})]
  /\ answer \in [Workers -> {"none", "content", "empty"}]
  /\ lost \subseteq Workers
  /\ runs \in [Jobs -> Nat]

\* The counter counts the guards that are alive, at every interleaving of
\* takes, failures and the two steps of a return.
RunningCountsGuards == running = Cardinality(Held)

\* No worker leaks and none is handed out twice: each is on the stack, or in
\* use by one future (one that has not pushed it back yet), or lost, and in
\* one of these places only.
WorkersAreAccountedFor ==
  LET used == {guard[j] : j \in Active}
  IN  /\ InReady \cup used \cup lost = Workers
      /\ InReady \cap used = {} /\ InReady \cap lost = {} /\ used \cap lost = {}
      /\ \A i, k \in 1 .. Len(ready) : ready[i] = ready[k] => i = k
      /\ \A j, k \in Active : guard[j] = guard[k] => j = k

\* The doc comment of Manager::map: a job whose machine failed is allocated
\* to another machine.  map gives up (panics with NoAvailableWorker) only
\* when a perform has failed on every machine, never because the last good
\* one is on its way back to the pool.
PanicsOnlyWithoutWorkers == phase = "panicked" => lost = Workers

\* The mappings done so far, and the workers whose perform has failed.
Mappings == UNION {{<<j, n>> : n \in 1 .. runs[j]} : j \in Jobs}
Spent == lost \cup {guard[j] : j \in {i \in Held : future[i] = "failed"}}

\* A job may be mapped again, by another worker while the first one is still
\* at it; but each needless mapping has cost the pool a worker.
RerunsCostWorkers == Cardinality(Mappings) <= NJobs + Cardinality(Spent)

\* Every result is reduced once, in whatever order, or run panics.
Once == INSTANCE ReduceOnce WITH
  outcome <- IF phase \in {"returned", "panicked"} THEN phase ELSE "running"
ImplementsReduceOnce == Once!Spec

\* The manager blocks its thread only when a perform has failed: as long as none
\* has, there is a worker for each future of the chunk.
SleepsOnlyAfterFailures == Asleep /= {} => lost /= {}

\* run comes to an end, whatever the workers do: they may crash, hang behind
\* an abandoned job or never have been started.  There is one exception, and
\* the doc comment of Manager::map knows none: when a perform has failed, its
\* future may ask for another worker for ever, and keep the future that has
\* one from ever handing it back.
Starves == /\ lost /= {} /\ ready = <<>>
           /\ \E i \in Jobs : guard[i] /= NoOne
           /\ \E j \in Jobs : future[j] \in {"get", "asleep"}
RunEndsOrStarves ==
  \/ <>(phase \in {"returned", "panicked"})
  \/ []<>(Asleep /= {}) /\ <>[]Starves
=============================================================================
