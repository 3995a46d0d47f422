----------------------------- MODULE EventLoop -----------------------------
(***************************************************************************)
(* EventLoop: callbacks that other threads send to the loop, stop and run, *)
(* and timers.  A callback sent by runInLoopThread is a uv_async_t; libuv  *)
(* moves all of them out of the loop's queue, runs them in order, and then *)
(* looks at its stop flag.  What libuv does between two callbacks and      *)
(* where in its iteration it looks at the flag is left open.               *)
(***************************************************************************)
EXTENDS Naturals, Sequences, SequencesExt, FiniteSets

CONSTANTS
    Threads,     \* the threads that use the loop
    Loop,        \* the thread of the loop, threadId_
    Timers,      \* the timers they start
    OneShots,    \* those started by runAfter, runAt and runEvery(0); the others by runEvery
    MaxOps,      \* bound: how often each thread calls the loop
    LoopStops    \* whether the loop's thread calls stop() itself

ASSUME LoopAssumption ==
    Loop \notin Threads /\ OneShots \subseteq Timers /\ MaxOps \in Nat /\ LoopStops \in BOOLEAN

Callers == Threads \cup {Loop}

\* The callbacks: a user's, uv_stop, and those that start and cancel a timer.
Callbacks ==
    [kind : {"call", "stop"}, by : Callers, n : 0..MaxOps]
        \cup [kind : {"start", "cancel"}, by : Callers, n : 0..MaxOps, timer : Timers]

VARIABLES
    run,        \* run_
    pc,         \* EventLoop::run: "created", "testing", "running" (in uv_run), "ended"
    stopFlag,   \* uv_loop_t::stop_flag
    async,      \* the asyncs that were sent and are in the loop's queue
    batch,      \* those libuv has moved out of it in this iteration
    ops,        \* how often each caller has called the loop
    stopping,   \* the threads between the two lines of stop()
    timer,      \* "none", "starting" (allocated), "active" or "freed"
    firing,     \* the timer whose callback runs, if any
    broken,     \* history: the timers that were not cancelled as they may be
    misused,    \* history: the timers that were used uninitialised or after they were freed
    ran,        \* history: the asyncs that ran, in order
    entered     \* history: run() has called uv_run

loopVars == <<run, pc, stopFlag, async, batch, ran, entered>>
timerVars == <<timer, firing, misused>>
vars == <<loopVars, ops, stopping, timerVars, broken>>

TypeOK ==
    /\ run \in BOOLEAN
    /\ pc \in {"created", "testing", "running", "ended"}
    /\ stopFlag \in BOOLEAN
    /\ async \in Seq(Callbacks)
    /\ batch \in Seq(Callbacks)
    /\ ops \in [Callers -> 0..MaxOps]
    /\ stopping \subseteq Threads
    /\ timer \in [Timers -> {"none", "starting", "active", "freed"}]
    /\ firing \subseteq Timers
    /\ broken \subseteq Timers
    /\ misused \subseteq Timers
    /\ ran \in Seq(Callbacks)
    /\ entered \in BOOLEAN

Init ==
    /\ run = TRUE
    /\ pc = "created"
    /\ stopFlag = FALSE
    /\ async = <<>>
    /\ batch = <<>>
    /\ ops = [c \in Callers |-> 0]
    /\ stopping = {}
    /\ timer = [k \in Timers |-> "none"]
    /\ firing = {}
    /\ broken = {}
    /\ misused = {}
    /\ ran = <<>>
    /\ entered = FALSE

-----------------------------------------------------------------------------
(* Callbacks *)

\* uv_timer_init and uv_timer_start in the loop's thread.
StartTimer(k) ==
    /\ timer' = [timer EXCEPT ![k] = "active"]
    /\ misused' = IF timer[k] = "starting" THEN misused ELSE misused \cup {k}
    /\ UNCHANGED firing

\* uv_timer_stop and free in the loop's thread.
CancelTimer(k) ==
    /\ timer' = [timer EXCEPT ![k] = "freed"]
    /\ misused' = IF timer[k] = "active" THEN misused ELSE misused \cup {k}
    /\ UNCHANGED firing

\* What a callback does when it runs.
Perform(cb) ==
    \/ cb.kind = "call" /\ UNCHANGED <<stopFlag, timerVars>>
    \/ cb.kind = "stop" /\ stopFlag' = TRUE /\ UNCHANGED timerVars
    \/ cb.kind = "start" /\ StartTimer(cb.timer) /\ UNCHANGED stopFlag
    \/ cb.kind = "cancel" /\ CancelTimer(cb.timer) /\ UNCHANGED stopFlag

\* The thread of c can call the loop now.  The loop's own thread does so before run() and
\* in callbacks.
CanCall(c) ==
    IF c = Loop THEN pc \in {"created", "running"} ELSE c \notin stopping

\* Fault: a new async goes to the front of the queue.
FaultyRunInLoopThread(c, cb) ==
    \/ c = Loop /\ Perform(cb) /\ UNCHANGED async
    \/ c # Loop /\ async' = <<cb>> \o async /\ UNCHANGED <<stopFlag, timerVars>>

\* runInLoopThread: called directly in the loop's thread, sent to it from any other.
RunInLoopThread(c, cb) ==
    \/ c = Loop /\ Perform(cb) /\ UNCHANGED async
    \/ c # Loop /\ async' = Append(async, cb) /\ UNCHANGED <<stopFlag, timerVars>>

NextOp(c) ==
    /\ CanCall(c) /\ ops[c] < MaxOps
    /\ ops' = [ops EXCEPT ![c] = @ + 1]

\* runInLoopThread(cb) with a user's callback.
Call(c) ==
    /\ NextOp(c)
    /\ RunInLoopThread(c, [kind |-> "call", by |-> c, n |-> ops'[c]])
    /\ UNCHANGED <<run, pc, batch, ran, entered, stopping, broken>>

\* runAfter, runAt and runEvery: the timer is allocated here and started in the loop.
TimerRun(c, k) ==
    /\ NextOp(c) /\ timer[k] = "none"
    /\ \/ c = Loop /\ timer' = [timer EXCEPT ![k] = "active"] /\ UNCHANGED async
       \/ /\ c # Loop
          /\ timer' = [timer EXCEPT ![k] = "starting"]
          /\ async' = Append(async, [kind |-> "start", by |-> c, n |-> ops'[c], timer |-> k])
    /\ UNCHANGED <<run, pc, stopFlag, batch, ran, entered, stopping, firing, broken, misused>>

\* cancel(timer) has no way to find out whether the timer is still there.  It may be called once,
\* before the timer has ended; in the loop's thread behind the start and not in the timer's own
\* callback; in another thread for a repeating timer only, since the other kind may end any time.
MayCancel(c, k) ==
    /\ timer[k] \in {"starting", "active"}
    /\ \A i \in 1..Len(batch \o async) : (batch \o async)[i].kind = "cancel" =>
           (batch \o async)[i].timer # k
    /\ IF c = Loop THEN timer[k] = "active" /\ k \notin firing ELSE k \notin OneShots

\* cancel(timer), by whoever has it, whether or not it may.
Cancel(c, k) ==
    /\ NextOp(c) /\ timer[k] # "none"
    /\ broken' = IF MayCancel(c, k) THEN broken ELSE broken \cup {k}
    /\ RunInLoopThread(c, [kind |-> "cancel", by |-> c, n |-> ops'[c], timer |-> k])
    /\ UNCHANGED <<run, pc, batch, ran, entered, stopping>>

-----------------------------------------------------------------------------
(* stop *)

\* stop() in the loop's thread.
StopDirect ==
    /\ LoopStops /\ NextOp(Loop)
    /\ run' = FALSE
    /\ RunInLoopThread(Loop, [kind |-> "stop", by |-> Loop, n |-> ops'[Loop]])
    /\ UNCHANGED <<pc, batch, ran, entered, stopping, broken>>

\* Fault: the two lines of stop() in the other order.
FaultyStopFlag(t) ==
    /\ NextOp(t)
    /\ RunInLoopThread(t, [kind |-> "stop", by |-> t, n |-> ops'[t]])
    /\ stopping' = stopping \cup {t}
    /\ UNCHANGED <<run, pc, batch, ran, entered, broken>>

FaultyStopPost(t) ==
    /\ t \in stopping
    /\ run' = FALSE
    /\ stopping' = stopping \ {t}
    /\ UNCHANGED <<pc, stopFlag, async, batch, ran, entered, ops, timerVars, broken>>

\* stop() in another thread: run_ = false ...
StopFlag(t) ==
    /\ NextOp(t)
    /\ run' = FALSE
    /\ stopping' = stopping \cup {t}
    /\ UNCHANGED <<pc, stopFlag, async, batch, ran, entered, timerVars, broken>>

\* ... and then uv_stop, sent to the loop.
StopPost(t) ==
    /\ t \in stopping
    /\ RunInLoopThread(t, [kind |-> "stop", by |-> t, n |-> ops[t]])
    /\ stopping' = stopping \ {t}
    /\ UNCHANGED <<run, pc, batch, ran, entered, ops, broken>>

\* Fault: both of the above.
FaultyStop(t) == FaultyStopFlag(t) \/ FaultyStopPost(t)

\* stop() in another thread.
Stop(t) == StopFlag(t) \/ StopPost(t)

-----------------------------------------------------------------------------
(* run *)

\* The loop's thread calls run().
RunBegin ==
    /\ pc = "created" /\ pc' = "testing"
    /\ UNCHANGED <<run, stopFlag, async, batch, ran, entered, ops, stopping, timerVars, broken>>

\* while (run_) uv_run(loop_, mode)
RunTest ==
    /\ pc = "testing"
    /\ pc' = IF run THEN "running" ELSE "ended"
    /\ entered' = (entered \/ run)
    /\ UNCHANGED <<run, stopFlag, async, batch, ran, ops, stopping, timerVars, broken>>

\* Fault: what arrived since the last look is dropped.
FaultyGather ==
    /\ pc = "running" /\ firing = {} /\ batch = <<>> /\ async # <<>>
    /\ batch' = <<Last(async)>> /\ async' = <<>>
    /\ UNCHANGED <<run, pc, stopFlag, ran, entered, ops, stopping, timerVars, broken>>

\* libuv is woken and moves the asyncs that were sent out of the queue.
Gather ==
    /\ pc = "running" /\ firing = {} /\ batch = <<>> /\ async # <<>>
    /\ batch' = async /\ async' = <<>>
    /\ UNCHANGED <<run, pc, stopFlag, ran, entered, ops, stopping, timerVars, broken>>

\* asyncCallback: runs the callback, deletes it and closes the handle.
AsyncCallback ==
    /\ pc = "running" /\ firing = {} /\ batch # <<>>
    /\ Perform(Head(batch))
    /\ batch' = Tail(batch)
    /\ ran' = Append(ran, Head(batch))
    /\ UNCHANGED <<run, pc, async, entered, ops, stopping, broken>>

\* timerCallback calls the user's callback, in which the loop's thread may call the loop ...
TimerBegin(k) ==
    /\ pc = "running" /\ firing = {} /\ batch = <<>>
    /\ timer[k] = "active"
    /\ firing' = {k}
    /\ UNCHANGED <<loopVars, ops, stopping, timer, misused, broken>>

\* ... and then looks at the timer again: one that does not repeat is stopped and freed.
TimerEnd(k) ==
    /\ k \in firing /\ firing' = {}
    /\ misused' = IF timer[k] = "active" THEN misused ELSE misused \cup {k}
    /\ timer' = IF k \in OneShots THEN [timer EXCEPT ![k] = "freed"] ELSE timer
    /\ UNCHANGED <<loopVars, ops, stopping, broken>>

\* uv_run sees its stop flag, resets it and returns.
UvReturn ==
    /\ pc = "running" /\ firing = {} /\ batch = <<>> /\ stopFlag
    /\ stopFlag' = FALSE /\ pc' = "testing"
    /\ UNCHANGED <<run, async, batch, ran, entered, ops, stopping, timerVars, broken>>

TimerCallback == \E k \in Timers : TimerBegin(k) \/ TimerEnd(k)

LoopStep == RunBegin \/ RunTest \/ Gather \/ AsyncCallback \/ UvReturn

Next ==
    \/ LoopStep
    \/ StopDirect
    \/ TimerCallback
    \/ \E t \in Threads : Stop(t)
    \/ \E c \in Callers : Call(c) \/ \E k \in Timers : TimerRun(c, k) \/ Cancel(c, k)

Spec == Init /\ [][Next]_vars

-----------------------------------------------------------------------------
(* Properties *)

\* The asyncs are a mailbox: each is run once, in the order in which they were sent.
Box == INSTANCE Mailbox WITH
    Messages <- Callbacks, sent <- ran \o (batch \o async), handled <- Len(ran)
AsyncsInOrder == Box!Spec

\* uv_run returns only for a stop(), whose run_ = false then also ends run().
EnteredOnce == entered /\ pc \in {"testing", "ended"} => ~run

\* run_ is false before the loop can see anything of a stop().
StopAnnounced ==
    /\ stopFlag \/ stopping # {} => ~run
    /\ \A i \in 1..Len(batch) : batch[i].kind = "stop" => ~run
    /\ \A i \in 1..Len(async) : async[i].kind = "stop" => ~run

\* uv_run is called in run() only.
EnteredByRun == pc = "created" => ~entered

IInv == TypeOK /\ EnteredOnce /\ StopAnnounced /\ EnteredByRun

\* What will start and cancel timer k is in the queue at most once each, in this order.
Queued == batch \o async
Sent(i, kind, k) == Queued[i].kind = kind /\ Queued[i].timer = k

TimersInOrder ==
    \A k \in Timers \ broken :
        /\ timer[k] = "starting" => \E i \in 1..Len(Queued) : Sent(i, "start", k)
        /\ \A i \in 1..Len(Queued) :
               /\ Sent(i, "start", k) => timer[k] = "starting"
               /\ Sent(i, "cancel", k) =>
                      /\ k \notin OneShots /\ timer[k] \in {"starting", "active"}
                      /\ timer[k] = "starting" => \E j \in 1..(i - 1) : Sent(j, "start", k)
        /\ \A kind \in {"start", "cancel"} : \A i, j \in 1..Len(Queued) :
               Sent(i, kind, k) /\ Sent(j, kind, k) => i = j

\* The timer whose callback runs is still there when the callback returns.
FiringInUse == \A k \in firing \ broken : timer[k] = "active"

\* A timer is used uninitialised or after its end only if it was not cancelled as it may be.
TimersUsedRight == misused \subseteq broken /\ FiringInUse /\ TimersInOrder

\* A callback sent to a loop that nobody stops is run.
SentRuns ==
    \A t \in Threads : \A n \in 1..MaxOps :
        LET cb == [kind |-> "call", by |-> t, n |-> n]
        IN  (cb \in Range(async)) ~> (cb \in Range(ran) \/ ~run)

\* After a stop() from any thread, even before run() was called, the loop ends.
StopEnds == (~run) ~> (pc = "ended")
=============================================================================
