-------------------------- MODULE EventLoopThread --------------------------
(***************************************************************************)
(* EventLoopThread: startLoop creates a thread that makes an EventLoop and *)
(* runs it; the destructor stops the loop, joins the thread and deletes    *)
(* the loop.  Owner is the thread that does both; it and others may use    *)
(* the loop in between.  The new thread sets loop_ and notifies without    *)
(* mutex_.                                                                 *)
(***************************************************************************)
EXTENDS EventLoop

CONSTANTS
    Owner,     \* the thread that calls startLoop and the destructor
    MaxUses    \* bound: how often the other threads call the loop

ASSUME OwnerAssumption == Owner \in Threads /\ MaxUses \in Nat

VARIABLES
    owns,     \* where Owner is in startLoop or in the destructor
    thread,   \* what the new thread does before loop->run()
    loop      \* loop_ # NULL

threadVars == <<owns, thread, loop>>
allVars == <<vars, threadVars>>

ThreadTypeOK ==
    /\ owns \in {"new", "tests", "enters", "waits", "started", "stops", "joins", "gone"}
    /\ thread \in {"none", "init", "sets", "notifies", "runs"}
    /\ loop \in BOOLEAN

ThreadInit ==
    /\ Init
    /\ owns = "new" /\ thread = "none" /\ loop = FALSE

\* Everybody but Owner is held to MaxUses.
Bounded == \A c \in Callers \ {Owner} : ops'[c] <= MaxUses

-----------------------------------------------------------------------------
(* The new thread *)

\* new EventLoop and initCallback_(loop), which may use the loop.
InitCallback ==
    /\ thread = "init"
    /\ Call(Loop) \/ StopDirect \/ \E k \in Timers : TimerRun(Loop, k) \/ Cancel(Loop, k)
    /\ Bounded
    /\ UNCHANGED threadVars

InitReturns ==
    /\ thread = "init" /\ thread' = "sets"
    /\ UNCHANGED <<vars, owns, loop>>

\* this->loop_ = loop, without mutex_
SetLoop ==
    /\ thread = "sets"
    /\ loop' = TRUE /\ thread' = "notifies"
    /\ UNCHANGED <<vars, owns>>

\* cond_.notify_all(), without mutex_
Notify ==
    /\ thread = "notifies"
    /\ owns' = IF owns = "waits" THEN "tests" ELSE owns
    /\ thread' = "runs"
    /\ UNCHANGED <<vars, loop>>

\* loop->run(), in which callbacks use the loop.
ThreadRuns ==
    /\ thread = "runs"
    /\ \/ LoopStep
       \/ TimerCallback
       \/ /\ pc = "running"
          /\ Call(Loop) \/ StopDirect \/ \E k \in Timers : TimerRun(Loop, k) \/ Cancel(Loop, k)
          /\ Bounded
    /\ UNCHANGED threadVars

-----------------------------------------------------------------------------
(* The owner *)

\* startLoop, up to the lock of mutex_, which nobody else takes.
StartLoop ==
    /\ owns = "new"
    /\ owns' = "tests" /\ thread' = "init"
    /\ UNCHANGED <<vars, loop>>

\* while (loop_ == NULL)
TestLoop ==
    /\ owns = "tests"
    /\ owns' = IF loop THEN "started" ELSE "enters"
    /\ UNCHANGED <<vars, thread, loop>>

\* cond_.wait(locker) begins, and may end with no notification.
Wait ==
    /\ \/ owns = "enters" /\ owns' = "waits"
       \/ owns = "waits" /\ owns' = "tests"
    /\ UNCHANGED <<vars, thread, loop>>

\* The owner, and the threads it gave the loop to, use it.
Use(t) ==
    /\ owns = "started"
    /\ Call(t) \/ Stop(t) \/ \E k \in Timers : TimerRun(t, k) \/ Cancel(t, k)
    /\ Bounded
    /\ UNCHANGED threadVars

\* Fault: uv_stop without run_ = false.
FaultyDestroy ==
    \/ /\ owns = "started" /\ stopping = {}
       /\ stopping' = {Owner} /\ owns' = "stops"
       /\ UNCHANGED <<run, pc, stopFlag, async, batch, ran, entered, ops, timerVars, broken, thread, loop>>
    \/ /\ owns = "stops" /\ StopPost(Owner) /\ owns' = "joins"
       /\ UNCHANGED <<thread, loop>>

\* ~EventLoopThread: loop_->stop(), in two steps.  The user's duty: no other thread is in a
\* call of the loop, nor calls it from now on.
Destroy ==
    \/ /\ owns = "started" /\ stopping = {}
       /\ run' = FALSE /\ stopping' = {Owner} /\ owns' = "stops"
       /\ UNCHANGED <<pc, stopFlag, async, batch, ran, entered, ops, timerVars, broken, thread, loop>>
    \/ /\ owns = "stops" /\ StopPost(Owner) /\ owns' = "joins"
       /\ UNCHANGED <<thread, loop>>

\* Fault: the loop is deleted without joining.
FaultyJoin ==
    /\ owns = "joins"
    /\ owns' = "gone"
    /\ UNCHANGED <<vars, thread, loop>>

\* thread_->join(), and then the thread and the loop are deleted.
Join ==
    /\ owns = "joins" /\ thread = "runs" /\ pc = "ended"
    /\ owns' = "gone"
    /\ UNCHANGED <<vars, thread, loop>>

ThreadNext ==
    \/ InitCallback \/ InitReturns \/ SetLoop \/ Notify \/ ThreadRuns
    \/ StartLoop \/ TestLoop \/ Wait \/ Destroy \/ Join
    \/ \E t \in Threads : Use(t)

ThreadSpec == ThreadInit /\ [][ThreadNext]_allVars

\* Both threads run; initCallback_ and timers' callbacks return.  Between two rounds of timers libuv
\* looks at the asyncs and at its stop flag.  No wait ends without a notification by itself.
ThreadFairness ==
    /\ WF_allVars(InitReturns \/ SetLoop \/ Notify)
    /\ WF_allVars(thread = "runs" /\ (LoopStep \/ \E k \in Timers : TimerEnd(k)) /\ UNCHANGED threadVars)
    /\ SF_allVars(thread = "runs" /\ Gather /\ UNCHANGED threadVars)
    /\ SF_allVars(thread = "runs" /\ UvReturn /\ UNCHANGED threadVars)
    /\ WF_allVars(TestLoop)
    /\ WF_allVars(owns = "enters" /\ Wait)
    /\ WF_allVars(owns = "stops" /\ Destroy)
    /\ \A t \in Threads : WF_allVars(owns = "started" /\ StopPost(t) /\ UNCHANGED threadVars)
    /\ WF_allVars(Join)

FairThreadSpec == ThreadSpec /\ ThreadFairness

-----------------------------------------------------------------------------
(* Properties *)

\* loop_ is set behind initCallback_ and before run() is called; nobody is in a call of a loop that
\* is deleted, and its run() has returned.
ThreadIInv ==
    /\ IInv
    /\ ThreadTypeOK
    /\ owns = "new" <=> thread = "none"
    /\ loop <=> thread \in {"notifies", "runs"}
    /\ pc # "created" => thread = "runs"
    /\ owns \in {"started", "stops", "joins", "gone"} => loop
    /\ owns = "stops" => stopping = {Owner}
    /\ owns \in {"joins", "gone"} => stopping = {}
    /\ owns = "gone" => thread = "runs" /\ pc = "ended"

\* What was ever sent to the loop.
AllSent == ran \o Queued

\* Only one stop was ever begun, the destructor's.
OnlyTheDestructorStops ==
    /\ ops[Loop] = 0
    /\ \A i, j \in 1..Len(AllSent) : AllSent[i].kind = "stop" /\ AllSent[j].kind = "stop" => i = j

\* What was sent before the destructor stopped a running loop has run when the loop is
\* deleted, if nothing else stopped it.
NothingIsLost ==
    owns = "gone" /\ entered /\ OnlyTheDestructorStops =>
        \A c \in Threads : \A n \in 1..ops[c] : \E i \in 1..Len(ran) : ran[i].by = c /\ ran[i].n = n

\* The destructor returns, also when the new thread has not called run() yet.
DestructorReturns == (owns = "stops") ~> (owns = "gone")
=============================================================================
