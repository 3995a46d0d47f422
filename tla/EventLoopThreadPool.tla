------------------------ MODULE EventLoopThreadPool ------------------------
(***************************************************************************)
(* EventLoopThreadPool: start creates threadNum_ threads, each of which    *)
(* makes a loop, adds it to loops_ and runs it, and waits for all of them; *)
(* the destructor stops and joins them one by one.  A loop is known by its *)
(* thread.  Here EventLoop is reduced to its promise StopEnds: a loop      *)
(* whose stop() was called ends.                                           *)
(***************************************************************************)
EXTENDS Naturals, Sequences, SequencesExt, FiniteSets

CONSTANT N   \* threadNum_; thread i is threads_[i - 1]

ASSUME PoolAssumption == N \in Nat \ {0}

Thread == 1..N

VARIABLES
    threads,    \* where each thread is in the function it was created with
    loops,      \* loops_
    initSuc,    \* the local variable of start() that the threads share
    stopped,    \* the loops whose stop() was called
    user,       \* where the user of the pool is in start() or the destructor
    index       \* the loop variable of start() and of the destructor

poolVars == <<threads, loops, initSuc, stopped, user, index>>

PoolTypeOK ==
    /\ threads \in [Thread -> {"none", "init", "locked", "notify", "loop", "ended", "joined"}]
    /\ loops \in Seq(Thread)
    /\ initSuc \in 0..N
    /\ stopped \subseteq Thread
    /\ user \in {"creates", "tests", "waits", "started", "stops", "joins", "gone"}
    /\ index \in 1..(N + 1)

PoolInit ==
    /\ threads = [t \in Thread |-> "none"]
    /\ loops = <<>>
    /\ initSuc = 0
    /\ stopped = {}
    /\ user = "creates"
    /\ index = 1

\* Nobody holds mutex_: start() takes it in its last loop and gives it up in its waits.
MutexFree == \A t \in Thread : threads[t] # "locked"

-----------------------------------------------------------------------------
(* The threads *)

\* new EventLoop, initCallback(loop), mutex_.lock(), loops_.push_back(loop)
AddLoop(t) ==
    /\ threads[t] = "init" /\ MutexFree
    /\ threads' = [threads EXCEPT ![t] = "locked"]
    /\ loops' = Append(loops, t)
    /\ UNCHANGED <<initSuc, stopped, user, index>>

\* ++initSuc, mutex_.unlock()
Count(t) ==
    /\ threads[t] = "locked"
    /\ initSuc' = initSuc + 1
    /\ threads' = [threads EXCEPT ![t] = "notify"]
    /\ UNCHANGED <<loops, stopped, user, index>>

\* Fault: nobody is notified.
FaultyNotifyAll(t) ==
    /\ threads[t] = "notify"
    /\ threads' = [threads EXCEPT ![t] = "loop"]
    /\ UNCHANGED <<loops, initSuc, stopped, user, index>>

\* cond_.notify_all()
NotifyAll(t) ==
    /\ threads[t] = "notify"
    /\ user' = IF user = "waits" THEN "tests" ELSE user
    /\ threads' = [threads EXCEPT ![t] = "loop"]
    /\ UNCHANGED <<loops, initSuc, stopped, index>>

\* loop->run() returns.
RunEnds(t) ==
    /\ threads[t] = "loop" /\ t \in stopped
    /\ threads' = [threads EXCEPT ![t] = "ended"]
    /\ UNCHANGED <<loops, initSuc, stopped, user, index>>

-----------------------------------------------------------------------------
(* start *)

\* threads_.push_back(new thread(...))
Create ==
    /\ user = "creates"
    /\ threads' = [threads EXCEPT ![index] = "init"]
    /\ index' = index + 1
    /\ user' = IF index = N THEN "tests" ELSE user
    /\ UNCHANGED <<loops, initSuc, stopped>>

\* while (initSuc != threadNum_) cond_.wait(locker), with mutex_ from the test to the wait
Test ==
    /\ user = "tests" /\ MutexFree
    /\ user' = IF initSuc = N THEN "started" ELSE "waits"
    /\ UNCHANGED <<threads, loops, initSuc, stopped, index>>

\* A wait may return although nobody notified.
SpuriousWakeup ==
    /\ user = "waits" /\ user' = "tests"
    /\ UNCHANGED <<threads, loops, initSuc, stopped, index>>

-----------------------------------------------------------------------------
(* The destructor *)

DestroyBegin ==
    /\ user = "started"
    /\ user' = "stops" /\ index' = 1
    /\ UNCHANGED <<threads, loops, initSuc, stopped>>

\* Fault: always the first loop is stopped.
FaultyStopLoop ==
    /\ user = "stops"
    /\ \/ /\ index <= Len(loops)
          /\ stopped' = stopped \cup {loops[1]}
          /\ user' = "joins"
       \/ /\ index > Len(loops)
          /\ user' = "gone"
          /\ UNCHANGED stopped
    /\ UNCHANGED <<threads, loops, initSuc, index>>

\* loops_[i]->stop(), or the end of the loop
StopLoop ==
    /\ user = "stops"
    /\ \/ /\ index <= Len(loops)
          /\ stopped' = stopped \cup {loops[index]}
          /\ user' = "joins"
       \/ /\ index > Len(loops)
          /\ user' = "gone"
          /\ UNCHANGED stopped
    /\ UNCHANGED <<threads, loops, initSuc, index>>

\* Fault: no join.
FaultyJoinThread ==
    /\ user = "joins"
    /\ threads' = [threads EXCEPT ![index] = IF @ = "ended" THEN "joined" ELSE @]
    /\ index' = index + 1 /\ user' = "stops"
    /\ UNCHANGED <<loops, initSuc, stopped>>

\* threads_[i]->join(); then the thread and loops_[i] are deleted.
JoinThread ==
    /\ user = "joins" /\ threads[index] = "ended"
    /\ threads' = [threads EXCEPT ![index] = "joined"]
    /\ index' = index + 1 /\ user' = "stops"
    /\ UNCHANGED <<loops, initSuc, stopped>>

Run(t) == AddLoop(t) \/ Count(t) \/ NotifyAll(t) \/ RunEnds(t)
Start == Create \/ Test
DestroyPool == StopLoop \/ JoinThread

PoolNext == Start \/ SpuriousWakeup \/ DestroyBegin \/ DestroyPool \/ \E t \in Thread : Run(t)

PoolSpec == PoolInit /\ [][PoolNext]_poolVars

\* Every thread runs, and a stopped loop ends.
FairPoolSpec ==
    PoolSpec /\ WF_poolVars(Start) /\ WF_poolVars(DestroyPool) /\ \A t \in Thread : WF_poolVars(Run(t))

-----------------------------------------------------------------------------
(* Properties *)

Started == user \in {"started", "stops", "joins", "gone"}

\* Each thread is in loops_ once, in the order in which the loops were made, and counted once.
Added == {t \in Thread : threads[t] \in {"locked", "notify", "loop", "ended", "joined"}}

LoopsAreThreads ==
    /\ Range(loops) = Added /\ Len(loops) = Cardinality(Added)
    /\ \A a, b \in 1..Len(loops) : loops[a] = loops[b] => a = b

\* Those that start() has counted.
Counted == Added \ {t \in Thread : threads[t] = "locked"}

\* initSuc is a local variable of start(): no thread uses it once start() has returned, which has
\* missed none, and getLoop finds every loop.
StartWaitsForAll ==
    /\ initSuc = Cardinality(Counted)
    /\ \A t \in Thread : threads[t] = "none" <=> user = "creates" /\ t >= index
    /\ Started => Counted = Thread

\* loops_[k] is the loop of threads_[k].
Paired == \A k \in 1..Len(loops) : loops[k] = k

\* How many loops the destructor has stopped.
StopsDone == IF user = "joins" THEN index ELSE index - 1

\* A loop is deleted after its thread was joined, and the destructor gets past only those loops
\* that happen to be in the place of their threads.
DeletedAreJoined ==
    /\ user = "creates" => index <= N
    /\ user \notin {"stops", "joins", "gone"} =>
           stopped = {} /\ \A t \in Thread : threads[t] \notin {"ended", "joined"}
    /\ user = "joins" => index <= Len(loops)
    /\ user = "gone" => index = N + 1 /\ Paired
    /\ user \in {"stops", "joins", "gone"} =>
           /\ \A k \in 1..(index - 1) : threads[k] = "joined" /\ loops[k] = k
           /\ stopped = {loops[k] : k \in 1..StopsDone}
           /\ \A t \in Thread : /\ threads[t] = "joined" => t < index
                                /\ threads[t] = "ended" => t \in stopped

PoolIInv == PoolTypeOK /\ LoopsAreThreads /\ StartWaitsForAll /\ DeletedAreJoined

\* start() returns: no wakeup is lost.
StartReturns == <>Started

\* In that order the destructor returns.
PairedDestructorReturns == (user = "stops" /\ Paired) ~> (user = "gone")
=============================================================================
