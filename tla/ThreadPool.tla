---------------------------- MODULE ThreadPool ----------------------------
(***************************************************************************)
(* ThreadPool: the workers of a pool, the threads that call run, and the   *)
(* thread that calls start and stop.  The critical sections of run and of  *)
(* threadFunc are single steps; stop keeps mutex_ while it joins.  The     *)
(* flag running_ is written by start, and read by the loop of threadFunc,  *)
(* without mutex_.  activeThreadNum_, which nothing reads, is left out.    *)
(***************************************************************************)
EXTENDS Integers, Sequences, SequencesExt, FiniteSets

CONSTANTS
    ThreadNum,   \* threadNum of start; worker w is threads_[w - 1]
    Producers,   \* the threads that call run
    MaxSize,     \* maxSize_
    MaxRuns,     \* bound: how often each producer calls run
    MaxStarts    \* bound: how often the pool is started

ASSUME PoolAssumption ==
    ThreadNum \in Nat \ {0} /\ MaxSize \in Nat \ {0} /\ MaxRuns \in Nat /\ MaxStarts \in Nat

Workers == 1..ThreadNum
Tasks == Producers \X (1..MaxRuns)

VARIABLES
    running,   \* running_
    queue,     \* queue_
    worker,    \* where each worker is in threadFunc
    task,      \* the task a worker took; <<>>: none
    caller,    \* where each producer is in run
    calls,     \* how many calls of run each producer has begun
    main,      \* what the owner of the pool is doing
    next,      \* the worker that start creates or stop joins next
    starts,    \* how often start was called
    taken      \* history: the tasks in the order the workers took them

vars == <<running, queue, worker, task, caller, calls, main, next, starts, taken>>

TypeOK ==
    /\ running \in BOOLEAN
    /\ queue \in Seq(Tasks)
    /\ worker \in [Workers -> {"none", "test", "lock", "wait", "woken", "took", "run", "exit"}]
    /\ task \in [Workers -> Tasks \cup {<<>>}]
    /\ caller \in [Producers -> {"idle", "wait", "woken"}]
    /\ calls \in [Producers -> 0..MaxRuns]
    /\ main \in {"stopped", "creating", "started", "joining"}
    /\ next \in 1..(ThreadNum + 1)
    /\ starts \in 0..MaxStarts
    /\ taken \in Seq(Tasks)

Init ==
    /\ running = FALSE
    /\ queue = <<>>
    /\ worker = [w \in Workers |-> "none"]
    /\ task = [w \in Workers |-> <<>>]
    /\ caller = [p \in Producers |-> "idle"]
    /\ calls = [p \in Producers |-> 0]
    /\ main = "stopped"
    /\ next = 1
    /\ starts = 0
    /\ taken = <<>>

\* stop owns mutex_ from its first line to its last.
MutexFree == main # "joining"

\* notify_all: everyone who waits on the condition competes for mutex_ again.
Woken(pc) == [x \in DOMAIN pc |-> IF pc[x] = "wait" THEN "woken" ELSE pc[x]]

-----------------------------------------------------------------------------
(* start and stop *)

\* start, up to its loop.
StartBegin ==
    /\ main = "stopped" /\ ~running /\ starts < MaxStarts
    /\ main' = "creating" /\ next' = 1 /\ starts' = starts + 1
    /\ UNCHANGED <<running, queue, worker, task, caller, calls, taken>>

\* threads_.push_back(new thread(threadFunc))
StartThread ==
    /\ main = "creating" /\ next <= ThreadNum
    /\ worker' = [worker EXCEPT ![next] = "test"]
    /\ next' = next + 1
    /\ UNCHANGED <<running, queue, task, caller, calls, main, starts, taken>>

\* running_ = true, the last line of start.
StartEnd ==
    /\ main = "creating" /\ next > ThreadNum
    /\ running' = TRUE /\ main' = "started"
    /\ UNCHANGED <<queue, worker, task, caller, calls, next, starts, taken>>

\* stop, up to its loop: the lock, the flag and the notification.
StopBegin ==
    /\ main = "started"
    /\ running' = FALSE /\ main' = "joining" /\ next' = 1
    /\ worker' = Woken(worker)
    /\ UNCHANGED <<queue, task, caller, calls, starts, taken>>

\* threads_[next - 1]->join()
StopJoin ==
    /\ main = "joining" /\ next <= ThreadNum
    /\ worker[next] = "exit"
    /\ worker' = [worker EXCEPT ![next] = "none"]
    /\ next' = next + 1
    /\ UNCHANGED <<running, queue, task, caller, calls, main, starts, taken>>

\* The end of stop: the queue is emptied and mutex_ released.
StopEnd ==
    /\ main = "joining" /\ next > ThreadNum
    /\ queue' = <<>> /\ main' = "stopped"
    /\ UNCHANGED <<running, worker, task, caller, calls, next, starts, taken>>

-----------------------------------------------------------------------------
(* run *)

\* The body of run once p has mutex_: wait, push, or return because the pool stopped.
RunLocked(p) ==
    /\ \/ /\ Len(queue) >= MaxSize /\ running
          /\ caller' = [caller EXCEPT ![p] = "wait"]
          /\ UNCHANGED <<queue, worker>>
       \/ /\ Len(queue) < MaxSize /\ running
          /\ queue' = Append(queue, <<p, calls'[p]>>)
          /\ worker' = Woken(worker)
          /\ caller' = [caller EXCEPT ![p] = "idle"]
       \/ /\ ~running
          /\ caller' = [caller EXCEPT ![p] = "idle"]
          /\ UNCHANGED <<queue, worker>>
    /\ UNCHANGED <<running, task, main, next, starts, taken>>

\* run(task)
RunCall(p) ==
    /\ MutexFree /\ caller[p] = "idle" /\ calls[p] < MaxRuns
    /\ calls' = [calls EXCEPT ![p] = @ + 1]
    /\ RunLocked(p)

\* Fault: if instead of while, the queue is not tested again.
FaultyRunWoken(p) ==
    /\ MutexFree /\ caller[p] = "woken"
    /\ queue' = IF running THEN Append(queue, <<p, calls[p]>>) ELSE queue
    /\ worker' = Woken(worker)
    /\ caller' = [caller EXCEPT ![p] = "idle"]
    /\ UNCHANGED <<running, task, calls, main, next, starts, taken>>

\* notFullCond_.wait returns and the loop tests again.
RunWoken(p) ==
    /\ MutexFree /\ caller[p] = "woken"
    /\ UNCHANGED calls
    /\ RunLocked(p)

-----------------------------------------------------------------------------
(* threadFunc *)

\* while (running_), read without mutex_.
Test(w) ==
    /\ worker[w] = "test"
    /\ worker' = [worker EXCEPT ![w] = IF running THEN "lock" ELSE "exit"]
    /\ UNCHANGED <<running, queue, task, caller, calls, main, next, starts, taken>>

\* Fault: the callers that wait for room are not told of it.
FaultyTakeSilent(w) ==
    /\ queue # <<>>
    /\ task' = [task EXCEPT ![w] = Head(queue)]
    /\ taken' = Append(taken, Head(queue))
    /\ queue' = Tail(queue)
    /\ worker' = [worker EXCEPT ![w] = "took"]
    /\ UNCHANGED caller

\* The front of a queue that is not empty is popped and its callers notified.
Take(w) ==
    /\ queue # <<>>
    /\ task' = [task EXCEPT ![w] = Head(queue)]
    /\ taken' = Append(taken, Head(queue))
    /\ queue' = Tail(queue)
    /\ worker' = [worker EXCEPT ![w] = "took"]
    /\ caller' = Woken(caller)

\* The critical section when w has just locked mutex_.
Locked(w) ==
    /\ MutexFree /\ worker[w] = "lock"
    /\ \/ Take(w)
       \/ /\ queue = <<>>
          /\ worker' = [worker EXCEPT ![w] = "wait"]
          /\ UNCHANGED <<queue, task, caller, taken>>
    /\ UNCHANGED <<running, calls, main, next, starts>>

\* Fault: a worker that was woken need not get mutex_ back.
FaultyResumed(w) ==
    /\ worker[w] = "woken"
    /\ \/ Take(w)
       \/ /\ queue = <<>>
          /\ worker' = [worker EXCEPT ![w] = "test"]
          /\ UNCHANGED <<queue, task, caller, taken>>
    /\ UNCHANGED <<running, calls, main, next, starts>>

\* The critical section after notEmptyCond_.wait: it waits only once.
Resumed(w) ==
    /\ MutexFree /\ worker[w] = "woken"
    /\ \/ Take(w)
       \/ /\ queue = <<>>
          /\ worker' = [worker EXCEPT ![w] = "test"]
          /\ UNCHANGED <<queue, task, caller, taken>>
    /\ UNCHANGED <<running, calls, main, next, starts>>

\* task() is called; mutex_ was released before.
Begin(w) ==
    /\ worker[w] = "took"
    /\ worker' = [worker EXCEPT ![w] = "run"]
    /\ UNCHANGED <<running, queue, task, caller, calls, main, next, starts, taken>>

\* task() returns.
Finish(w) ==
    /\ worker[w] = "run"
    /\ worker' = [worker EXCEPT ![w] = "test"]
    /\ task' = [task EXCEPT ![w] = <<>>]
    /\ UNCHANGED <<running, queue, caller, calls, main, next, starts, taken>>

\* A wait may return although nobody notified.
SpuriousWakeup ==
    /\ \/ /\ \E w \in Workers : worker[w] = "wait" /\ worker' = [worker EXCEPT ![w] = "woken"]
          /\ UNCHANGED caller
       \/ /\ \E p \in Producers : caller[p] = "wait" /\ caller' = [caller EXCEPT ![p] = "woken"]
          /\ UNCHANGED worker
    /\ UNCHANGED <<running, queue, task, calls, main, next, starts, taken>>

Start == StartBegin \/ StartThread \/ StartEnd
Stop == StopBegin \/ StopJoin \/ StopEnd
Run(p) == RunCall(p) \/ RunWoken(p)
threadFunc(w) == Test(w) \/ Locked(w) \/ Resumed(w) \/ Begin(w) \/ Finish(w)

Next ==
    \/ Start
    \/ Stop
    \/ \E p \in Producers : Run(p)
    \/ \E w \in Workers : threadFunc(w)
    \/ SpuriousWakeup

Spec == Init /\ [][Next]_vars

\* Every thread runs when it can, and tasks return.  Nobody has to call run or stop.
Fairness ==
    /\ WF_vars(StartThread \/ StartEnd \/ StopJoin \/ StopEnd)
    /\ \A p \in Producers : WF_vars(RunWoken(p))
    /\ \A w \in Workers : WF_vars(threadFunc(w))

FairSpec == Spec /\ Fairness

-----------------------------------------------------------------------------
(* Properties *)

\* main and running_ agree; outside start and stop nobody is in the pool.
Phases ==
    /\ running <=> main = "started"
    /\ main \in {"stopped", "creating"} =>
           /\ queue = <<>>
           /\ \A w \in Workers : worker[w] \in {"none", "test", "exit"}
    /\ main = "stopped" => \A w \in Workers : worker[w] = "none"
    /\ main = "joining" => \A w \in Workers : w < next => worker[w] = "none"

\* queue_ never holds more than maxSize_ tasks, also when several callers of run wake up.
QueueBound == Len(queue) <= MaxSize

\* The tasks that left run, in order; stop discards the tail that is still queued.
Line == taken \o queue

\* The last call of a producer that is still in run is not in the line yet.
Numbered ==
    /\ \A p \in Producers : caller[p] # "idle" => calls[p] > 0
    /\ \A i \in 1..Len(Line) :
           /\ Line[i][2] <= calls[Line[i][1]]
           /\ caller[Line[i][1]] # "idle" => Line[i][2] < calls[Line[i][1]]

\* A producer's calls reach the workers once each and in the order it made them.
ProducersInOrder ==
    \A i, j \in 1..Len(Line) :
        i < j /\ Line[i][1] = Line[j][1] => Line[i][2] < Line[j][2]

IInv == TypeOK /\ Phases /\ QueueBound /\ Numbered /\ ProducersInOrder

\* When stop has returned no worker of the pool is left and no task is queued.
StopIsComplete ==
    main = "stopped" => queue = <<>> /\ \A w \in Workers : worker[w] = "none"

\* No worker takes a task when stop has begun.  One that was taken before, and mutex_ released,
\* may still begin, but only while stop waits for its worker: none begins when stop has returned.
Begins(w) == worker[w] # "run" /\ worker'[w] = "run"

TasksEndWithStop ==
    [][/\ taken' # taken => running
       /\ \A w \in Workers : Begins(w) => running \/ (main = "joining" /\ next <= w)]_vars

\* A queued task is taken, if a worker is left and the pool is not stopped.
QueuedIsTaken ==
    \A t \in Tasks :
        (t \in Range(queue)) ~>
            (t \in Range(taken) \/ main = "joining" \/ \A w \in Workers : worker[w] = "exit")

\* A call of run that waits while tasks are queued returns, under the same conditions.  One
\* that still waits when the pool is stopped is left behind: stop empties the queue and
\* notifies nobody who waits for room.
RunReturns ==
    \A p \in Producers :
        (caller[p] # "idle" /\ running /\ queue # <<>>) ~>
            (caller[p] = "idle" \/ main = "joining" \/ \A w \in Workers : worker[w] = "exit")

\* No wakeup between run and the workers is lost, in either direction.
WakeupsArrive == QueuedIsTaken /\ RunReturns

\* stop returns once every task that was begun has returned.
StopReturns == (main = "joining") ~> (main = "stopped")
=============================================================================
