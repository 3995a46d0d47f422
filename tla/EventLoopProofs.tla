-------------------------- MODULE EventLoopProofs --------------------------
(***************************************************************************)
(* Proofs about EventLoop and EventLoopThread, for any number of threads,  *)
(* timers and calls, and about EventLoopThreadPool, for any number of      *)
(* loops.                                                                  *)
(***************************************************************************)
EXTENDS EventLoopThread, EventLoopThreadPool, FiniteSetTheorems, SequenceTheorems, TLAPS

-----------------------------------------------------------------------------
(* Sequences *)

\* What Append yields.
LEMMA AppendFacts ==
  ASSUME NEW S, NEW s \in Seq(S), NEW e \in S
  PROVE  Append(s, e) \in Seq(S) /\ Len(Append(s, e)) = Len(s) + 1
  BY AppendProperties

\* What Head and Tail of a sequence that is not empty yield.
LEMMA TailFacts ==
  ASSUME NEW S, NEW s \in Seq(S), s # <<>>
  PROVE  Head(s) \in S /\ Tail(s) \in Seq(S) /\ Len(Tail(s)) = Len(s) - 1 /\ Len(s) \in Nat
  BY HeadTailProperties, LenProperties

\* A sequence is its head followed by its tail.
LEMMA HeadTailConcat ==
  ASSUME NEW S, NEW s \in Seq(S), s # <<>>
  PROVE  s = <<Head(s)>> \o Tail(s)
  <1>1. Len(s) \in Nat \ {0} /\ 1 \in 1..Len(s) /\ Len(s) \in 1..Len(s)
    BY EmptySeq
  <1>2. SubSeq(s, 1, Len(s)) = <<s[1]>> \o SubSeq(s, 1 + 1, Len(s))
    BY <1>1, SubSeqRecursiveFirst
  <1>. QED
    BY <1>2, SubSeqFull, TailIsSubSeq, 1 + 1 = 2, Head(s) = s[1]

\* What is sent behind the queue is sent last.
LEMMA SendConcat ==
  ASSUME NEW S, NEW h \in Seq(S), NEW q \in Seq(S), NEW e \in S
  PROVE  h \o Append(q, e) = Append(h \o q, e)
  <1>1. <<e>> \in Seq(S) /\ h \o q \in Seq(S)
    BY ConcatProperties
  <1>2. Append(q, e) = q \o <<e>> /\ Append(h \o q, e) = (h \o q) \o <<e>>
    BY <1>1, AppendIsConcat
  <1>. QED
    BY <1>1, <1>2, ConcatAssociative

\* To handle the first of the queue changes nothing of what was sent.
LEMMA HandleConcat ==
  ASSUME NEW S, NEW h \in Seq(S), NEW q \in Seq(S), q # <<>>
  PROVE  Append(h, Head(q)) \o Tail(q) = h \o q
  <1>1. Head(q) \in S /\ Tail(q) \in Seq(S) /\ <<Head(q)>> \in Seq(S)
    BY TailFacts
  <1>2. Append(h, Head(q)) = h \o <<Head(q)>> /\ q = <<Head(q)>> \o Tail(q)
    BY <1>1, AppendIsConcat, HeadTailConcat
  <1>. QED
    BY <1>1, <1>2, ConcatAssociative

\* Nor if the queue is followed by another.
LEMMA HandleConcatTwo ==
  ASSUME NEW S, NEW h \in Seq(S), NEW q \in Seq(S), NEW r \in Seq(S), q # <<>>
  PROVE  Append(h, Head(q)) \o (Tail(q) \o r) = h \o (q \o r)
  <1>1. Tail(q) \in Seq(S) /\ Append(h, Head(q)) \in Seq(S)
    BY TailFacts, AppendFacts
  <1>2. ASSUME NEW a \in Seq(S)
        PROVE  a \o (Tail(q) \o r) = (a \o Tail(q)) \o r
    BY <1>1, ConcatAssociative
  <1>3. Append(h, Head(q)) \o (Tail(q) \o r) = (Append(h, Head(q)) \o Tail(q)) \o r
    BY <1>1, <1>2
  <1>4. Append(h, Head(q)) \o Tail(q) = h \o q
    BY HandleConcat
  <1>. QED
    BY <1>3, <1>4, ConcatAssociative

\* There is something to handle as long as the queue is not empty.
LEMMA ConcatLonger ==
  ASSUME NEW S, NEW h \in Seq(S), NEW q \in Seq(S), q # <<>>
  PROVE  Len(h) < Len(h \o q) /\ Len(h) \in Nat
  <1>1. Len(q) \in Nat /\ Len(q) # 0 /\ Len(h) \in Nat
    BY LenProperties, TailFacts
  <1>2. Len(h \o q) = Len(h) + Len(q)
    BY ConcatProperties
  <1>. QED
    BY <1>1, <1>2

\* The first of two sequences that follow each other is handled first.
LEMMA FirstOfTwo ==
  ASSUME NEW S, NEW q \in Seq(S), NEW r \in Seq(S), q # <<>>
  PROVE  q \o r # <<>> /\ Head(q \o r) = Head(q) /\ Tail(q \o r) = Tail(q) \o r
  <1>1. /\ q \o r \in Seq(S) /\ Len(q \o r) = Len(q) + Len(r)
        /\ \A i \in 1..(Len(q) + Len(r)) : (q \o r)[i] = IF i <= Len(q) THEN q[i] ELSE r[i - Len(q)]
    BY ConcatProperties
  <1>2. Len(q) \in Nat /\ Len(r) \in Nat /\ Len(q) >= 1 /\ Head(q) = q[1]
    BY LenProperties, TailFacts, HeadTailProperties
  <1>3. q \o r # <<>>
    BY <1>1, <1>2, EmptySeq
  <1>4. /\ Tail(q) \in Seq(S) /\ Len(Tail(q)) = Len(q) - 1
        /\ \A i \in 1..Len(Tail(q)) : Tail(q)[i] = q[i + 1]
    BY HeadTailProperties
  <1>5. /\ Head(q \o r) = (q \o r)[1] /\ Tail(q \o r) \in Seq(S)
        /\ Len(Tail(q \o r)) = Len(q) + Len(r) - 1
        /\ \A i \in 1..Len(Tail(q \o r)) : Tail(q \o r)[i] = (q \o r)[i + 1]
    BY <1>1, <1>3, HeadTailProperties
  <1>6. /\ Tail(q) \o r \in Seq(S) /\ Len(Tail(q) \o r) = (Len(q) - 1) + Len(r)
        /\ \A i \in 1..((Len(q) - 1) + Len(r)) :
               (Tail(q) \o r)[i] = IF i <= Len(q) - 1 THEN Tail(q)[i] ELSE r[i - (Len(q) - 1)]
    BY <1>4, ConcatProperties
  <1>7. ASSUME NEW i \in 1..Len(Tail(q \o r)) PROVE Tail(q \o r)[i] = (Tail(q) \o r)[i]
    <2>1. /\ i + 1 \in 1..(Len(q) + Len(r)) /\ i \in 1..((Len(q) - 1) + Len(r))
          /\ (i + 1) - Len(q) = i - (Len(q) - 1)
      BY <1>2, <1>5
    <2>2. CASE i <= Len(q) - 1
      <3>1. i \in 1..Len(Tail(q)) /\ i + 1 <= Len(q)
        BY <1>2, <1>4, <2>2
      <3>. QED
        BY <1>1, <1>4, <1>5, <1>6, <2>1, <2>2, <3>1
    <2>3. CASE ~(i <= Len(q) - 1)
      <3>1. ~(i + 1 <= Len(q))
        BY <1>2, <2>3
      <3>. QED
        BY <1>1, <1>5, <1>6, <2>1, <2>3, <3>1
    <2>. QED
      BY <2>2, <2>3
  <1>8. Tail(q \o r) = Tail(q) \o r
    BY <1>2, <1>5, <1>6, <1>7, SeqEqual
  <1>. QED
    BY <1>1, <1>2, <1>3, <1>5, <1>8

-----------------------------------------------------------------------------

Kinds == {"call", "stop"}
TimerKinds == {"start", "cancel"}

\* The step sends cb, which is not a stop unless run_ is false.
Sends(cb) == async' = Append(async, cb) /\ (cb.kind = "stop" => ~run')

\* What a step of a caller may do with the queue and the loop.
CallerStep ==
    /\ UNCHANGED <<pc, batch, ran, entered>>
    /\ UNCHANGED async \/ \E cb \in Callbacks : Sends(cb)
    /\ run' = run \/ run' = FALSE
    /\ stopFlag' = stopFlag \/ (stopFlag' = TRUE /\ run' = FALSE)

-----------------------------------------------------------------------------
(* Callbacks *)

LEMMA CallIsCallback ==
  ASSUME NEW kind \in Kinds, NEW c \in Callers, NEW n \in 0..MaxOps
  PROVE  [kind |-> kind, by |-> c, n |-> n] \in Callbacks
  BY DEF Callbacks, Kinds

LEMMA TimerIsCallback ==
  ASSUME NEW kind \in TimerKinds, NEW c \in Callers, NEW n \in 0..MaxOps, NEW k \in Timers
  PROVE  [kind |-> kind, by |-> c, n |-> n, timer |-> k] \in Callbacks
  BY DEF Callbacks, TimerKinds

LEMMA TimerOfCallback ==
  ASSUME NEW cb \in Callbacks, cb.kind \in TimerKinds
  PROVE  cb.timer \in Timers
  BY DEF Callbacks, TimerKinds

\* A callback changes timers or the stop flag.
LEMMA PerformFacts ==
  ASSUME TypeOK, NEW cb \in Callbacks, Perform(cb)
  PROVE  /\ timer' \in [Timers -> {"none", "starting", "active", "freed"}]
         /\ firing' \subseteq Timers /\ misused' \subseteq Timers
         /\ stopFlag' = stopFlag \/ (stopFlag' = TRUE /\ cb.kind = "stop")
  <1>1. CASE cb.kind = "call" /\ UNCHANGED <<stopFlag, timerVars>>
    BY <1>1 DEF TypeOK, timerVars
  <1>2. CASE cb.kind = "stop" /\ stopFlag' = TRUE /\ UNCHANGED timerVars
    BY <1>2 DEF TypeOK, timerVars
  <1>3. CASE cb.kind = "start" /\ StartTimer(cb.timer) /\ UNCHANGED stopFlag
    BY <1>3, TimerOfCallback DEF TypeOK, StartTimer, TimerKinds
  <1>4. CASE cb.kind = "cancel" /\ CancelTimer(cb.timer) /\ UNCHANGED stopFlag
    BY <1>4, TimerOfCallback DEF TypeOK, CancelTimer, TimerKinds
  <1>. QED
    BY <1>1, <1>2, <1>3, <1>4 DEF Perform

\* runInLoopThread performs or sends.
LEMMA RunInLoopThreadFacts ==
  ASSUME TypeOK, NEW c \in Callers, NEW cb \in Callbacks, RunInLoopThread(c, cb),
         cb.kind = "stop" => run' = FALSE
  PROVE  /\ timer' \in [Timers -> {"none", "starting", "active", "freed"}]
         /\ firing' \subseteq Timers /\ misused' \subseteq Timers
         /\ stopFlag' = stopFlag \/ (stopFlag' = TRUE /\ run' = FALSE)
         /\ UNCHANGED async \/ \E m \in Callbacks : Sends(m)
  <1>1. CASE Perform(cb) /\ UNCHANGED async
    BY <1>1, PerformFacts
  <1>2. CASE async' = Append(async, cb) /\ UNCHANGED <<stopFlag, timerVars>>
    BY <1>2 DEF TypeOK, timerVars, Sends
  <1>. QED
    BY <1>1, <1>2 DEF RunInLoopThread

-----------------------------------------------------------------------------
(* The invariant *)

LEMMA InitInv == Init => IInv
  <1>. SUFFICES ASSUME Init PROVE IInv
    OBVIOUS
  <1>1. <<>> \in Seq(Callbacks) /\ Len(<<>>) = 0 /\ Loop \in Callers /\ 0 \in 0..MaxOps
    BY LoopAssumption, EmptySeq DEF Callers
  <1>2. /\ ops \in [Callers -> 0..MaxOps] /\ firing \subseteq Timers /\ misused \subseteq Timers
        /\ broken \subseteq Timers
        /\ timer \in [Timers -> {"none", "starting", "active", "freed"}]
    BY <1>1 DEF Init
  <1>3. TypeOK
    BY <1>1, <1>2 DEF Init, TypeOK
  <1>4. EnteredOnce /\ StopAnnounced /\ EnteredByRun
    BY <1>1 DEF Init, EnteredOnce, StopAnnounced, EnteredByRun
  <1>. QED
    BY <1>3, <1>4 DEF IInv

\* The types of what a caller's step changes in the queue and the loop.
LEMMA CallerTypes ==
  ASSUME TypeOK, CallerStep
  PROVE  /\ run' \in BOOLEAN /\ stopFlag' \in BOOLEAN /\ async' \in Seq(Callbacks)
         /\ pc' \in {"created", "testing", "running", "ended"} /\ entered' \in BOOLEAN
         /\ batch' \in Seq(Callbacks) /\ ran' \in Seq(Callbacks)
  <1>1. async' \in Seq(Callbacks)
    BY AppendFacts DEF TypeOK, CallerStep, Sends
  <1>. QED
    BY <1>1 DEF TypeOK, CallerStep

\* A caller that stops the loop says so first: nothing else of the invariant is at stake.
LEMMA CallerStops ==
  ASSUME IInv, CallerStep, stopping' # {} => stopping # {} \/ run' = FALSE
  PROVE  EnteredOnce' /\ StopAnnounced' /\ EnteredByRun'
  <1>1. EnteredOnce' /\ EnteredByRun'
    BY DEF IInv, TypeOK, CallerStep, EnteredOnce, EnteredByRun
  <1>2. stopFlag' \/ stopping' # {} => ~run'
    BY DEF IInv, TypeOK, CallerStep, StopAnnounced
  <1>3. \A i \in 1..Len(batch') : batch'[i].kind = "stop" => ~run'
    BY DEF IInv, TypeOK, CallerStep, StopAnnounced
  <1>4. \A i \in 1..Len(async') : async'[i].kind = "stop" => ~run'
    <2>1. CASE UNCHANGED async
      BY <2>1 DEF IInv, TypeOK, CallerStep, StopAnnounced
    <2>2. ASSUME NEW cb \in Callbacks, Sends(cb), NEW i \in 1..Len(async'), async'[i].kind = "stop"
          PROVE  ~run'
      <3>1. /\ Len(async') = Len(async) + 1 /\ async'[Len(async) + 1] = cb
            /\ \A j \in 1..Len(async) : async'[j] = async[j]
            /\ Len(async) \in Nat
        BY <2>2, AppendProperties, LenProperties DEF IInv, TypeOK, Sends
      <3>2. CASE i \in 1..Len(async)
        BY <2>2, <3>1, <3>2 DEF IInv, TypeOK, CallerStep, StopAnnounced
      <3>3. CASE i = Len(async) + 1
        BY <2>2, <3>1, <3>3 DEF Sends
      <3>. QED
        BY <2>2, <3>1, <3>2, <3>3
    <2>. QED
      BY <2>1, <2>2 DEF CallerStep
  <1>. QED
    BY <1>1, <1>2, <1>3, <1>4 DEF StopAnnounced
-----------------------------------------------------------------------------
(* The steps of the callers *)

\* The bookkeeping of a call.
LEMMA NextOpFacts ==
  ASSUME TypeOK, NEW c \in Callers, NextOp(c)
  PROVE  ops' \in [Callers -> 0..MaxOps] /\ ops'[c] \in 0..MaxOps
  <1>1. ops[c] + 1 \in 0..MaxOps
    BY LoopAssumption DEF TypeOK, NextOp
  <1>. QED
    BY <1>1 DEF TypeOK, NextOp

LEMMA CallStep ==
  ASSUME TypeOK, NEW c \in Callers, Call(c)
  PROVE  TypeOK' /\ CallerStep /\ UNCHANGED stopping
  <1>. DEFINE cb == [kind |-> "call", by |-> c, n |-> ops'[c]]
  <1>1. ops' \in [Callers -> 0..MaxOps] /\ cb \in Callbacks /\ cb.kind # "stop"
    BY NextOpFacts, CallIsCallback DEF Call, Kinds
  <1>2. RunInLoopThread(c, cb) /\ UNCHANGED <<run, pc, batch, ran, entered, stopping, broken>>
    BY DEF Call
  <1>3. /\ timer' \in [Timers -> {"none", "starting", "active", "freed"}]
        /\ firing' \subseteq Timers /\ misused' \subseteq Timers
        /\ stopFlag' = stopFlag \/ (stopFlag' = TRUE /\ run' = FALSE)
        /\ UNCHANGED async \/ \E m \in Callbacks : Sends(m)
    BY <1>1, <1>2, RunInLoopThreadFacts
  <1>4. CallerStep
    BY <1>2, <1>3 DEF CallerStep
  <1>. QED
    BY <1>1, <1>2, <1>3, <1>4, CallerTypes DEF TypeOK

LEMMA CancelStep ==
  ASSUME TypeOK, NEW c \in Callers, NEW k \in Timers, Cancel(c, k)
  PROVE  TypeOK' /\ CallerStep /\ UNCHANGED stopping
  <1>. DEFINE cb == [kind |-> "cancel", by |-> c, n |-> ops'[c], timer |-> k]
  <1>1. ops' \in [Callers -> 0..MaxOps] /\ cb \in Callbacks /\ cb.kind # "stop"
    BY NextOpFacts, TimerIsCallback DEF Cancel, TimerKinds
  <1>2. /\ RunInLoopThread(c, cb) /\ UNCHANGED <<run, pc, batch, ran, entered, stopping>>
        /\ broken' = broken \/ broken' = broken \cup {k}
    BY DEF Cancel
  <1>3. /\ timer' \in [Timers -> {"none", "starting", "active", "freed"}]
        /\ firing' \subseteq Timers /\ misused' \subseteq Timers
        /\ stopFlag' = stopFlag \/ (stopFlag' = TRUE /\ run' = FALSE)
        /\ UNCHANGED async \/ \E m \in Callbacks : Sends(m)
    BY <1>1, <1>2, RunInLoopThreadFacts
  <1>4. CallerStep
    BY <1>2, <1>3 DEF CallerStep
  <1>. QED
    BY <1>1, <1>2, <1>3, <1>4, CallerTypes DEF TypeOK

LEMMA TimerRunStep ==
  ASSUME TypeOK, NEW c \in Callers, NEW k \in Timers, TimerRun(c, k)
  PROVE  TypeOK' /\ CallerStep /\ UNCHANGED stopping
  <1>. DEFINE cb == [kind |-> "start", by |-> c, n |-> ops'[c], timer |-> k]
  <1>1. ops' \in [Callers -> 0..MaxOps] /\ cb \in Callbacks /\ cb.kind # "stop"
    BY NextOpFacts, TimerIsCallback DEF TimerRun, TimerKinds
  <1>2. /\ UNCHANGED <<run, pc, stopFlag, batch, ran, entered, stopping, firing, broken, misused>>
        /\ \/ timer' = [timer EXCEPT ![k] = "active"] /\ UNCHANGED async
           \/ timer' = [timer EXCEPT ![k] = "starting"] /\ async' = Append(async, cb)
    BY DEF TimerRun
  <1>3. /\ timer' \in [Timers -> {"none", "starting", "active", "freed"}]
        /\ firing' \subseteq Timers /\ misused' \subseteq Timers
    BY <1>2 DEF TypeOK
  <1>4. CallerStep
    BY <1>1, <1>2 DEF CallerStep, Sends
  <1>. QED
    BY <1>1, <1>2, <1>3, <1>4, CallerTypes DEF TypeOK

LEMMA StopDirectStep ==
  ASSUME TypeOK, StopDirect
  PROVE  TypeOK' /\ CallerStep /\ UNCHANGED stopping
  <1>. DEFINE cb == [kind |-> "stop", by |-> Loop, n |-> ops'[Loop]]
  <1>1. Loop \in Callers
    BY DEF Callers
  <1>2. ops' \in [Callers -> 0..MaxOps] /\ cb \in Callbacks
    BY <1>1, NextOpFacts, CallIsCallback DEF StopDirect, Kinds
  <1>3. /\ run' = FALSE /\ RunInLoopThread(Loop, cb)
        /\ UNCHANGED <<pc, batch, ran, entered, stopping, broken>>
    BY DEF StopDirect
  <1>4. /\ timer' \in [Timers -> {"none", "starting", "active", "freed"}]
        /\ firing' \subseteq Timers /\ misused' \subseteq Timers
        /\ stopFlag' = stopFlag \/ (stopFlag' = TRUE /\ run' = FALSE)
        /\ UNCHANGED async \/ \E m \in Callbacks : Sends(m)
    BY <1>1, <1>2, <1>3, RunInLoopThreadFacts
  <1>5. CallerStep
    BY <1>3, <1>4 DEF CallerStep
  <1>. QED
    BY <1>2, <1>3, <1>4, <1>5, CallerTypes DEF TypeOK

\* run_ is false from the first of the two lines of stop() on.
LEMMA StopStep ==
  ASSUME IInv, NEW t \in Threads, Stop(t)
  PROVE  TypeOK' /\ CallerStep /\ (stopping' # {} => run' = FALSE)
  <1>1. t \in Callers
    BY DEF Callers
  <1>2. CASE StopFlag(t)
    <2>1. ops' \in [Callers -> 0..MaxOps]
      BY <1>1, <1>2, NextOpFacts DEF StopFlag, IInv
    <2>2. /\ run' = FALSE /\ stopping' = stopping \cup {t}
          /\ UNCHANGED <<pc, stopFlag, async, batch, ran, entered, timerVars, broken>>
      BY <1>2 DEF StopFlag
    <2>3. CallerStep
      BY <2>2 DEF CallerStep
    <2>. QED
      BY <2>1, <2>2, <2>3, CallerTypes DEF IInv, TypeOK, timerVars
  <1>3. CASE StopPost(t)
    <2>. DEFINE cb == [kind |-> "stop", by |-> t, n |-> ops[t]]
    <2>1. /\ t \in stopping /\ stopping' = stopping \ {t} /\ RunInLoopThread(t, cb)
          /\ UNCHANGED <<run, pc, batch, ran, entered, ops, broken>>
      BY <1>3 DEF StopPost
    <2>2. cb \in Callbacks
      BY <1>1, CallIsCallback DEF IInv, TypeOK, Kinds
    <2>3. run' = FALSE
      BY <2>1 DEF IInv, TypeOK, StopAnnounced
    <2>4. /\ timer' \in [Timers -> {"none", "starting", "active", "freed"}]
          /\ firing' \subseteq Timers /\ misused' \subseteq Timers
          /\ stopFlag' = stopFlag \/ (stopFlag' = TRUE /\ run' = FALSE)
          /\ UNCHANGED async \/ \E m \in Callbacks : Sends(m)
      BY <1>1, <2>1, <2>2, <2>3, RunInLoopThreadFacts DEF IInv
    <2>5. CallerStep
      BY <2>1, <2>4 DEF CallerStep
    <2>. QED
      BY <2>1, <2>3, <2>4, <2>5, CallerTypes DEF IInv, TypeOK
  <1>. QED
    BY <1>2, <1>3 DEF Stop

\* All of them.
Calling ==
    \/ StopDirect
    \/ \E t \in Threads : Stop(t)
    \/ \E c \in Callers : Call(c) \/ \E k \in Timers : TimerRun(c, k) \/ Cancel(c, k)

LEMMA CallingInv ==
  ASSUME IInv, Calling
  PROVE  IInv' /\ CallerStep
  <1>1. /\ TypeOK' /\ CallerStep
        /\ stopping' # {} => stopping # {} \/ run' = FALSE
    BY CallStep, CancelStep, TimerRunStep, StopDirectStep, StopStep DEF Calling, IInv
  <1>. QED
    BY <1>1, CallerStops DEF IInv
-----------------------------------------------------------------------------
(* The steps of the loop *)

\* run() begins and tests run_.
LEMMA RunInv ==
  ASSUME IInv, RunBegin \/ RunTest
  PROVE  IInv'
  <1>1. UNCHANGED <<run, stopFlag, async, batch, ran, ops, stopping, timerVars, broken>>
    BY DEF RunBegin, RunTest
  <1>2. pc' \in {"testing", "running", "ended"} /\ entered' \in BOOLEAN
    BY DEF IInv, TypeOK, RunBegin, RunTest
  <1>3. TypeOK' /\ StopAnnounced' /\ EnteredByRun'
    BY <1>1, <1>2 DEF IInv, TypeOK, StopAnnounced, EnteredByRun, timerVars
  <1>4. EnteredOnce'
    BY DEF IInv, TypeOK, EnteredOnce, EnteredByRun, RunBegin, RunTest
  <1>. QED
    BY <1>3, <1>4 DEF IInv

LEMMA GatherInv ==
  ASSUME IInv, Gather
  PROVE  IInv'
  <1>1. /\ batch' = async /\ async' = <<>> /\ <<>> \in Seq(Callbacks) /\ Len(<<>>) = 0
        /\ UNCHANGED <<run, pc, stopFlag, ran, entered, ops, stopping, timerVars, broken>>
    BY EmptySeq DEF Gather
  <1>2. TypeOK'
    BY <1>1 DEF IInv, TypeOK, timerVars
  <1>3. StopAnnounced' /\ EnteredOnce' /\ EnteredByRun'
    BY <1>1 DEF IInv, StopAnnounced, EnteredOnce, EnteredByRun
  <1>. QED
    BY <1>2, <1>3 DEF IInv

\* A stop that runs was announced.
LEMMA AsyncCallbackInv ==
  ASSUME IInv, AsyncCallback
  PROVE  IInv'
  <1>1. /\ pc = "running" /\ batch # <<>> /\ Perform(Head(batch)) /\ batch' = Tail(batch)
        /\ ran' = Append(ran, Head(batch))
        /\ UNCHANGED <<run, pc, async, entered, ops, stopping, broken>>
    BY DEF AsyncCallback
  <1>2. /\ Head(batch) \in Callbacks /\ Tail(batch) \in Seq(Callbacks)
        /\ Head(batch) = batch[1] /\ 1 \in 1..Len(batch)
        /\ \A i \in 1..Len(Tail(batch)) : i + 1 \in 1..Len(batch) /\ Tail(batch)[i] = batch[i + 1]
    BY <1>1, TailFacts, HeadTailProperties DEF IInv, TypeOK
  <1>3. /\ timer' \in [Timers -> {"none", "starting", "active", "freed"}]
        /\ firing' \subseteq Timers /\ misused' \subseteq Timers
        /\ stopFlag' = stopFlag \/ (stopFlag' = TRUE /\ Head(batch).kind = "stop")
    BY <1>1, <1>2, PerformFacts DEF IInv
  <1>4. ran' \in Seq(Callbacks)
    BY <1>1, <1>2, AppendFacts DEF IInv, TypeOK
  <1>5. TypeOK'
    BY <1>1, <1>2, <1>3, <1>4 DEF IInv, TypeOK
  <1>6. stopFlag' \/ stopping' # {} => ~run'
    BY <1>1, <1>2, <1>3 DEF IInv, StopAnnounced
  <1>7. \A i \in 1..Len(batch') : batch'[i].kind = "stop" => ~run'
    BY <1>1, <1>2 DEF IInv, StopAnnounced
  <1>8. \A i \in 1..Len(async') : async'[i].kind = "stop" => ~run'
    BY <1>1 DEF IInv, StopAnnounced
  <1>9. EnteredOnce' /\ EnteredByRun'
    BY <1>1 DEF EnteredOnce, EnteredByRun
  <1>. QED
    BY <1>5, <1>6, <1>7, <1>8, <1>9 DEF IInv, StopAnnounced

LEMMA TimerCallbackInv ==
  ASSUME IInv, TimerCallback
  PROVE  IInv'
  <1>1. /\ timer' = timer \/ \E k \in Timers : timer' = [timer EXCEPT ![k] = "freed"]
        /\ firing' \subseteq Timers /\ misused' \subseteq Timers
        /\ UNCHANGED <<run, pc, stopFlag, async, batch, ran, entered, ops, stopping, broken>>
    BY DEF TimerCallback, TimerBegin, TimerEnd, loopVars, IInv, TypeOK
  <1>2. TypeOK'
    BY <1>1 DEF IInv, TypeOK
  <1>3. EnteredOnce' /\ StopAnnounced' /\ EnteredByRun'
    BY <1>1 DEF IInv, EnteredOnce, StopAnnounced, EnteredByRun
  <1>. QED
    BY <1>2, <1>3 DEF IInv

\* uv_run returns for the stop flag, when run_ is false.
LEMMA UvReturnInv ==
  ASSUME IInv, UvReturn
  PROVE  IInv'
  <1>1. /\ stopFlag /\ stopFlag' = FALSE /\ pc' = "testing"
        /\ UNCHANGED <<run, async, batch, ran, entered, ops, stopping, timerVars, broken>>
    BY DEF UvReturn
  <1>2. ~run'
    BY <1>1 DEF IInv, StopAnnounced
  <1>3. TypeOK'
    BY <1>1 DEF IInv, TypeOK, timerVars
  <1>4. EnteredOnce' /\ StopAnnounced' /\ EnteredByRun'
    BY <1>1, <1>2 DEF IInv, EnteredOnce, StopAnnounced, EnteredByRun
  <1>. QED
    BY <1>3, <1>4 DEF IInv

LEMMA NextInv == IInv /\ [Next]_vars => IInv'
  <1>. SUFFICES ASSUME IInv, [Next]_vars PROVE IInv'
    OBVIOUS
  <1>1. CASE LoopStep
    BY <1>1, RunInv, GatherInv, AsyncCallbackInv, UvReturnInv DEF LoopStep
  <1>2. CASE TimerCallback
    BY <1>2, TimerCallbackInv
  <1>3. CASE Calling
    BY <1>3, CallingInv
  <1>4. CASE UNCHANGED vars
    <2>1. UNCHANGED <<run, pc, stopFlag, async, batch, ran, entered, ops, stopping>>
          /\ UNCHANGED <<timer, firing, broken, misused>>
      BY <1>4 DEF vars, loopVars, timerVars
    <2>2. TypeOK'
      BY <2>1 DEF IInv, TypeOK
    <2>3. EnteredOnce' /\ StopAnnounced' /\ EnteredByRun'
      BY <2>1 DEF IInv, EnteredOnce, StopAnnounced, EnteredByRun
    <2>. QED
      BY <2>2, <2>3 DEF IInv
  <1>. QED
    BY <1>1, <1>2, <1>3, <1>4 DEF Next, Calling

-----------------------------------------------------------------------------

\* The order of the two lines of stop() as an invariant: run_ is false before the loop can see
\* anything of a stop.
THEOREM InvariantHolds == Spec => []IInv
  BY InitInv, NextInv, PTL DEF Spec

\* run() enters uv_run once: it returns for a stop(), and then run() ends.
THEOREM RunEntersOnce == Spec => []EnteredOnce
  BY InvariantHolds, PTL DEF IInv

-----------------------------------------------------------------------------
(* The asyncs are a mailbox. *)

LEMMA InitBox == Init => Box!Init
  <1>. SUFFICES ASSUME Init PROVE Box!Init
    OBVIOUS
  <1>1. ran = <<>> /\ batch = <<>> /\ async = <<>> /\ <<>> \in Seq(Callbacks) /\ Len(<<>>) = 0
    BY EmptySeq DEF Init
  <1>2. ran \o (batch \o async) = <<>>
    BY <1>1, ConcatEmptySeq
  <1>. QED
    BY <1>1, <1>2 DEF Box!Init

\* A caller sends one message or none.
LEMMA CallerBox ==
  ASSUME IInv, CallerStep
  PROVE  Box!Next \/ UNCHANGED Box!mailboxVars
  <1>1. CASE UNCHANGED async
    BY <1>1 DEF CallerStep, Box!mailboxVars
  <1>2. ASSUME NEW cb \in Callbacks, Sends(cb)
        PROVE  Box!Next
    <2>1. batch \o async \in Seq(Callbacks)
      BY ConcatProperties DEF IInv, TypeOK
    <2>2. batch \o Append(async, cb) = Append(batch \o async, cb)
      BY SendConcat DEF IInv, TypeOK
    <2>3. ran \o Append(batch \o async, cb) = Append(ran \o (batch \o async), cb)
      BY <2>1, SendConcat DEF IInv, TypeOK
    <2>4. ran' = ran /\ batch' = batch /\ async' = Append(async, cb)
      BY <1>2 DEF CallerStep, Sends
    <2>5. ran' \o (batch' \o async') = Append(ran \o (batch \o async), cb)
      BY <2>2, <2>3, <2>4
    <2>. QED
      BY <2>4, <2>5 DEF Box!Next, Box!Send
  <1>. QED
    BY <1>1, <1>2 DEF CallerStep

\* libuv moves the asyncs; nothing is sent or handled.
LEMMA GatherBox ==
  ASSUME IInv, Gather
  PROVE  UNCHANGED Box!mailboxVars
  <1>1. batch = <<>> /\ batch' = async /\ async' = <<>> /\ ran' = ran
    BY DEF Gather
  <1>2. batch \o async = async /\ async \o <<>> = async
    BY <1>1, ConcatEmptySeq DEF IInv, TypeOK
  <1>. QED
    BY <1>1, <1>2 DEF Box!mailboxVars

\* What runs was sent, and stays so.
LEMMA HandledStaysSent ==
  ASSUME IInv, AsyncCallback
  PROVE  ran' \o (batch' \o async') = ran \o (batch \o async)
  <1>1. batch # <<>> /\ batch' = Tail(batch) /\ ran' = Append(ran, Head(batch)) /\ async' = async
    BY DEF AsyncCallback
  <1>2. ran \in Seq(Callbacks) /\ batch \in Seq(Callbacks) /\ async \in Seq(Callbacks)
    BY DEF IInv, TypeOK
  <1>3. ASSUME NEW h \in Seq(Callbacks), NEW q \in Seq(Callbacks), NEW r \in Seq(Callbacks), q # <<>>
        PROVE  Append(h, Head(q)) \o (Tail(q) \o r) = h \o (q \o r)
    BY <1>3, HandleConcatTwo
  <1>4. Append(ran, Head(batch)) \o (Tail(batch) \o async) = ran \o (batch \o async)
    BY <1>3, <1>1, <1>2
  <1>. QED
    BY <1>1, <1>4

LEMMA AsyncCallbackBox ==
  ASSUME IInv, AsyncCallback
  PROVE  Box!Next
  <1>1. batch # <<>> /\ ran' = Append(ran, Head(batch))
    BY DEF AsyncCallback
  <1>2. /\ Head(batch) \in Callbacks
        /\ ran \in Seq(Callbacks) /\ batch \in Seq(Callbacks) /\ async \in Seq(Callbacks)
        /\ Len(ran') = Len(ran) + 1
    BY <1>1, TailFacts, AppendFacts DEF IInv, TypeOK
  <1>3. batch \o async \in Seq(Callbacks) /\ batch \o async # <<>>
    BY <1>1, <1>2, ConcatProperties, ConcatEqualIffEmpty
  <1>4. Len(ran) < Len(ran \o (batch \o async))
    BY <1>2, <1>3, ConcatLonger
  <1>. QED
    BY <1>2, <1>4, HandledStaysSent DEF Box!Next, Box!Handle

\* Every step of the loop or of a caller is a step of the mailbox or none.
LEMMA NextBox == IInv /\ [Next]_vars => [Box!Next]_(Box!mailboxVars)
  <1>. SUFFICES ASSUME IInv, [Next]_vars PROVE [Box!Next]_(Box!mailboxVars)
    OBVIOUS
  <1>1. CASE Calling
    BY <1>1, CallingInv, CallerBox
  <1>2. CASE Gather
    BY <1>2, GatherBox
  <1>3. CASE AsyncCallback
    BY <1>3, AsyncCallbackBox
  <1>4. CASE UNCHANGED <<async, batch, ran>>
    BY <1>4 DEF Box!mailboxVars
  <1>5. Calling \/ Gather \/ AsyncCallback \/ UNCHANGED <<async, batch, ran>>
    BY DEF Next, Calling, LoopStep, RunBegin, RunTest, UvReturn, TimerCallback, TimerBegin, TimerEnd,
           vars, loopVars
  <1>. QED
    BY <1>1, <1>2, <1>3, <1>4, <1>5

\* What any thread sends by runInLoopThread runs once, in the order in which it was sent, also
\* around a stop().
THEOREM AsyncsAreMailbox == Spec => AsyncsInOrder
  <1>1. Init => Box!Init
    BY InitBox
  <1>2. IInv /\ [Next]_vars => [Box!Next]_(Box!mailboxVars)
    BY NextBox
  <1>. QED
    BY <1>1, <1>2, InvariantHolds, PTL DEF Spec, AsyncsInOrder, Box!Spec

-----------------------------------------------------------------------------
(* Timers: what starts and cancels them stays in order. *)

TInv == IInv /\ TimersUsedRight

\* The queue without its last element, and without its first.
LEMMA LongerQueue ==
  ASSUME NEW q \in Seq(Callbacks), NEW e \in Callbacks
  PROVE  /\ Len(Append(q, e)) = Len(q) + 1 /\ Append(q, e)[Len(q) + 1] = e
         /\ \A i \in 1..Len(q) : Append(q, e)[i] = q[i]
         /\ Len(q) \in Nat
  BY AppendProperties, LenProperties

LEMMA ShorterQueue ==
  ASSUME NEW q \in Seq(Callbacks), q # <<>>
  PROVE  /\ Len(q) \in Nat /\ 1 \in 1..Len(q) /\ Len(Tail(q)) = Len(q) - 1 /\ Head(q) = q[1]
         /\ \A i \in 1..Len(Tail(q)) : i + 1 \in 1..Len(q) /\ Tail(q)[i] = q[i + 1]
  <1>1. Tail(q) \in Seq(Callbacks) /\ Len(Tail(q)) = Len(q) - 1 /\ Len(q) \in Nat /\ Len(q) # 0
    BY TailFacts, LenProperties
  <1>. QED
    BY <1>1, HeadTailProperties

LEMMA QueuedType ==
  ASSUME TypeOK
  PROVE  Queued \in Seq(Callbacks)
  BY ConcatProperties DEF TypeOK, Queued

\* Something is sent: the queue grows.
LEMMA QueuedGrows ==
  ASSUME TypeOK, NEW cb \in Callbacks, async' = Append(async, cb), batch' = batch
  PROVE  Queued' = Append(Queued, cb)
  BY SendConcat DEF TypeOK, Queued

\* What broken and the queue say of a timer.
LEMMA KeptFacts ==
  ASSUME TInv, broken \subseteq broken', NEW m \in Timers, m \notin broken'
  PROVE  /\ m \notin broken
         /\ timer[m] = "starting" => \E i \in 1..Len(Queued) : Sent(i, "start", m)
         /\ \A i \in 1..Len(Queued) :
                /\ Sent(i, "start", m) => timer[m] = "starting"
                /\ Sent(i, "cancel", m) =>
                     /\ m \notin OneShots /\ timer[m] \in {"starting", "active"}
                     /\ timer[m] = "starting" => \E j \in 1..(i - 1) : Sent(j, "start", m)
         /\ \A kind \in TimerKinds : \A i, j \in 1..Len(Queued) :
                Sent(i, kind, m) /\ Sent(j, kind, m) => i = j
  BY DEF TInv, TimersUsedRight, TimersInOrder, TimerKinds

\* It is no timer's, or a timer that nothing in the queue concerns changes.
LEMMA OtherIsSent ==
  ASSUME TInv, NEW cb \in Callbacks, Queued' = Append(Queued, cb), cb.kind \in Kinds,
         timer' = timer, broken \subseteq broken'
  PROVE  TimersInOrder'
  <1>1. Queued \in Seq(Callbacks)
    BY QueuedType DEF TInv, IInv
  <1>2. /\ Len(Queued') = Len(Queued) + 1 /\ Queued'[Len(Queued) + 1] = cb
        /\ \A i \in 1..Len(Queued) : Queued'[i] = Queued[i]
        /\ Len(Queued) \in Nat
    BY <1>1, LongerQueue
  <1>3. cb.kind # "start" /\ cb.kind # "cancel"
    BY DEF Kinds
  <1>4. \A i \in 1..Len(Queued') : \A kind \in TimerKinds : \A k \in Timers :
            Sent(i, kind, k)' <=> i \in 1..Len(Queued) /\ Sent(i, kind, k)
    BY <1>2, <1>3 DEF Sent, TimerKinds
  <1>. QED
    BY <1>2, <1>4 DEF TInv, TimersUsedRight, TimersInOrder, TimerKinds

\* The start of a new timer is sent.
LEMMA StartIsSent ==
  ASSUME TInv, NEW k \in Timers, NEW cb \in Callbacks, cb.kind = "start" /\ cb.timer = k,
         Queued' = Append(Queued, cb), timer[k] = "none",
         timer' = [timer EXCEPT ![k] = "starting"], broken \subseteq broken'
  PROVE  TimersInOrder'
  <1>1. Queued \in Seq(Callbacks)
    BY QueuedType DEF TInv, IInv
  <1>2. /\ Len(Queued') = Len(Queued) + 1 /\ Queued'[Len(Queued) + 1] = cb
        /\ \A i \in 1..Len(Queued) : Queued'[i] = Queued[i]
        /\ Len(Queued) \in Nat
    BY <1>1, LongerQueue
  <1>3. \A i \in 1..Len(Queued') : \A kind \in TimerKinds : \A m \in Timers :
            Sent(i, kind, m)' <=> \/ i \in 1..Len(Queued) /\ Sent(i, kind, m)
                                  \/ i = Len(Queued) + 1 /\ kind = "start" /\ m = k
    BY <1>2 DEF Sent
  <1>4. timer'[k] = "starting" /\ \A m \in Timers : m # k => timer'[m] = timer[m]
    BY DEF TInv, IInv, TypeOK
  <1>5. ASSUME NEW m \in Timers, m \notin broken'
        PROVE  /\ timer'[m] = "starting" => \E i \in 1..Len(Queued') : Sent(i, "start", m)'
               /\ \A i \in 1..Len(Queued') :
                      /\ Sent(i, "start", m)' => timer'[m] = "starting"
                      /\ Sent(i, "cancel", m)' =>
                           /\ m \notin OneShots /\ timer'[m] \in {"starting", "active"}
                           /\ timer'[m] = "starting" => \E j \in 1..(i - 1) : Sent(j, "start", m)'
               /\ \A kind \in TimerKinds : \A i, j \in 1..Len(Queued') :
                      Sent(i, kind, m)' /\ Sent(j, kind, m)' => i = j
    <2>1. CASE m # k
      BY <1>2, <1>3, <1>4, <1>5, <2>1, KeptFacts DEF TimerKinds
    <2>2. CASE m = k
      <3>1. \A i \in 1..Len(Queued) : \A kind \in TimerKinds : ~Sent(i, kind, k)
        BY <1>5, <2>2, KeptFacts DEF TimerKinds
      <3>2. \A i \in 1..Len(Queued') : \A kind \in TimerKinds :
                Sent(i, kind, m)' <=> i = Len(Queued) + 1 /\ kind = "start"
        BY <1>3, <2>2, <3>1
      <3>3. Len(Queued) + 1 \in 1..Len(Queued')
        BY <1>2
      <3>. QED
        BY <1>4, <2>2, <3>2, <3>3 DEF TimerKinds
    <2>. QED
      BY <2>1, <2>2
  <1>. QED
    BY <1>5 DEF TimersInOrder, TimerKinds

\* A cancel is sent, which nothing in the queue repeats if its timer is still one to rely on.
LEMMA CancelIsSent ==
  ASSUME TInv, NEW k \in Timers, NEW cb \in Callbacks, cb.kind = "cancel" /\ cb.timer = k,
         Queued' = Append(Queued, cb), timer' = timer, broken \subseteq broken',
         k \notin broken' => /\ k \notin OneShots /\ timer[k] \in {"starting", "active"}
                             /\ \A i \in 1..Len(Queued) : ~Sent(i, "cancel", k)
  PROVE  TimersInOrder'
  <1>1. Queued \in Seq(Callbacks)
    BY QueuedType DEF TInv, IInv
  <1>2. /\ Len(Queued') = Len(Queued) + 1 /\ Queued'[Len(Queued) + 1] = cb
        /\ \A i \in 1..Len(Queued) : Queued'[i] = Queued[i]
        /\ Len(Queued) \in Nat
    BY <1>1, LongerQueue
  <1>3. \A i \in 1..Len(Queued') : \A kind \in TimerKinds : \A m \in Timers :
            Sent(i, kind, m)' <=> \/ i \in 1..Len(Queued) /\ Sent(i, kind, m)
                                  \/ i = Len(Queued) + 1 /\ kind = "cancel" /\ m = k
    BY <1>2 DEF Sent
  <1>4. ASSUME NEW m \in Timers, m \notin broken'
        PROVE  /\ timer'[m] = "starting" => \E i \in 1..Len(Queued') : Sent(i, "start", m)'
               /\ \A i \in 1..Len(Queued') :
                      /\ Sent(i, "start", m)' => timer'[m] = "starting"
                      /\ Sent(i, "cancel", m)' =>
                           /\ m \notin OneShots /\ timer'[m] \in {"starting", "active"}
                           /\ timer'[m] = "starting" => \E j \in 1..(i - 1) : Sent(j, "start", m)'
               /\ \A kind \in TimerKinds : \A i, j \in 1..Len(Queued') :
                      Sent(i, kind, m)' /\ Sent(j, kind, m)' => i = j
    BY <1>2, <1>3, <1>4, KeptFacts DEF TimerKinds
  <1>. QED
    BY <1>4 DEF TimersInOrder, TimerKinds

\* A timer changes that nothing in the queue concerns.
LEMMA NothingQueued ==
  ASSUME TInv, NEW k \in Timers, NEW s \in {"active", "freed"}, Queued' = Queued,
         timer' = [timer EXCEPT ![k] = s], broken \subseteq broken',
         k \notin broken' => \A i \in 1..Len(Queued) : \A kind \in TimerKinds : ~Sent(i, kind, k)
  PROVE  TimersInOrder'
  <1>1. \A i \in 1..Len(Queued) : \A kind \in TimerKinds : \A m \in Timers :
            Sent(i, kind, m)' <=> Sent(i, kind, m)
    BY DEF Sent
  <1>2. timer'[k] = s /\ \A m \in Timers : m # k => timer'[m] = timer[m]
    BY DEF TInv, IInv, TypeOK
  <1>. QED
    BY <1>1, <1>2 DEF TInv, TimersUsedRight, TimersInOrder, TimerKinds

\* The first callback of the queue is performed.
LEMMA FirstIsPerformed ==
  ASSUME TInv, Queued # <<>>, Queued' = Tail(Queued), Perform(Head(Queued)), broken' = broken
  PROVE  TimersInOrder' /\ misused' \subseteq broken'
  <1>. DEFINE cb == Head(Queued)
  <1>1. Queued \in Seq(Callbacks)
    BY QueuedType DEF TInv, IInv
  <1>2. /\ Len(Queued) \in Nat /\ 1 \in 1..Len(Queued) /\ Len(Queued') = Len(Queued) - 1
        /\ cb = Queued[1] /\ cb \in Callbacks
        /\ \A i \in 1..Len(Queued') : i + 1 \in 1..Len(Queued) /\ Queued'[i] = Queued[i + 1]
    BY <1>1, ShorterQueue, TailFacts
  <1>3. /\ \A i \in 1..Len(Queued') : \A kind \in TimerKinds : \A m \in Timers :
               Sent(i, kind, m)' <=> Sent(i + 1, kind, m)
        /\ \A kind \in TimerKinds : \A m \in Timers :
               Sent(1, kind, m) <=> cb.kind = kind /\ cb.timer = m
    BY <1>2 DEF Sent
  <1>4. \A i \in 1..Len(Queued) : i = 1 \/ (i - 1 \in 1..Len(Queued') /\ (i - 1) + 1 = i)
    BY <1>2
  <1>5. \A m \in Timers \ broken : \A kind \in TimerKinds : \A i, j \in 1..Len(Queued') :
            Sent(i, kind, m)' /\ Sent(j, kind, m)' => i = j
    BY <1>2, <1>3 DEF TInv, TimersUsedRight, TimersInOrder, TimerKinds
  <1>6. Head(Queued).kind = "start" =>
            cb.timer \in Timers /\ (cb.timer \in broken \/ timer[cb.timer] = "starting")
    BY <1>2, <1>3, TimerOfCallback DEF TInv, TimersUsedRight, TimersInOrder, TimerKinds
  <1>7. Head(Queued).kind = "cancel" =>
            cb.timer \in Timers /\ (cb.timer \in broken \/ timer[cb.timer] = "active")
    <2>1. SUFFICES ASSUME cb.kind = "cancel"
                   PROVE  cb.timer \in Timers /\ (cb.timer \in broken \/ timer[cb.timer] = "active")
      OBVIOUS
    <2>2. cb.timer \in Timers /\ Sent(1, "cancel", cb.timer)
      BY <1>2, <1>3, <2>1, TimerOfCallback DEF TimerKinds
    <2>3. \A j : j \notin 1..(1 - 1)
      OBVIOUS
    <2>. QED
      BY <1>2, <2>2, <2>3 DEF TInv, TimersUsedRight, TimersInOrder
  <1>8. /\ misused' \subseteq broken
        /\ \A m \in Timers \ broken :
               timer'[m] = "starting" <=> timer[m] = "starting" /\ ~Sent(1, "start", m)
        /\ \A m \in Timers : timer[m] \in {"starting", "active"} /\ ~Sent(1, "cancel", m)
               => timer'[m] \in {"starting", "active"}
    <2>0. misused \subseteq broken
      BY DEF TInv, TimersUsedRight
    <2>1. CASE cb.kind \in Kinds /\ UNCHANGED timerVars
      <3>1. \A kind \in TimerKinds : \A m \in Timers : ~Sent(1, kind, m)
        BY <1>3, <2>1 DEF Kinds, TimerKinds
      <3>2. timer' = timer /\ misused' = misused
        BY <2>1 DEF timerVars
      <3>. QED
        BY <2>0, <3>1, <3>2 DEF TimerKinds
    <2>2. CASE cb.kind = "start" /\ StartTimer(cb.timer)
      <3>1. /\ timer' = [timer EXCEPT ![cb.timer] = "active"]
            /\ misused' = IF timer[cb.timer] = "starting" THEN misused ELSE misused \cup {cb.timer}
        BY <2>2 DEF StartTimer
      <3>2. cb.timer \in Timers /\ (cb.timer \in broken \/ timer[cb.timer] = "starting")
        BY <1>6, <2>2
      <3>3. misused' \subseteq broken
        BY <2>0, <3>1, <3>2
      <3>4. /\ timer'[cb.timer] = "active"
            /\ \A m \in Timers : m # cb.timer => timer'[m] = timer[m]
        BY <3>1, <3>2 DEF TInv, IInv, TypeOK
      <3>5. /\ \A m \in Timers : Sent(1, "start", m) <=> m = cb.timer
            /\ \A m \in Timers : ~Sent(1, "cancel", m)
        BY <1>3, <2>2 DEF TimerKinds
      <3>. QED
        BY <3>3, <3>4, <3>5
    <2>3. CASE cb.kind = "cancel" /\ CancelTimer(cb.timer)
      <3>1. /\ timer' = [timer EXCEPT ![cb.timer] = "freed"]
            /\ misused' = IF timer[cb.timer] = "active" THEN misused ELSE misused \cup {cb.timer}
        BY <2>3 DEF CancelTimer
      <3>2. cb.timer \in Timers /\ (cb.timer \in broken \/ timer[cb.timer] = "active")
        BY <1>7, <2>3
      <3>3. misused' \subseteq broken
        BY <2>0, <3>1, <3>2
      <3>4. /\ timer'[cb.timer] = "freed"
            /\ \A m \in Timers : m # cb.timer => timer'[m] = timer[m]
        BY <3>1, <3>2 DEF TInv, IInv, TypeOK
      <3>5. /\ \A m \in Timers : Sent(1, "cancel", m) <=> m = cb.timer
            /\ \A m \in Timers : ~Sent(1, "start", m)
        BY <1>3, <2>3 DEF TimerKinds
      <3>. QED
        BY <3>2, <3>3, <3>4, <3>5
    <2>. QED
      BY <2>1, <2>2, <2>3 DEF Perform, Kinds
  <1>9. \A m \in Timers \ broken :
            timer'[m] = "starting" => \E i \in 1..Len(Queued') : Sent(i, "start", m)'
    <2>1. SUFFICES ASSUME NEW m \in Timers \ broken, timer[m] = "starting", ~Sent(1, "start", m)
                   PROVE  \E i \in 1..Len(Queued') : Sent(i, "start", m)'
      BY <1>8
    <2>2. PICK i \in 1..Len(Queued) : Sent(i, "start", m)
      BY <2>1 DEF TInv, TimersUsedRight, TimersInOrder
    <2>3. i # 1
      BY <2>1, <2>2
    <2>4. i - 1 \in 1..Len(Queued') /\ Sent(i - 1, "start", m)'
      BY <1>3, <1>4, <2>2, <2>3 DEF TimerKinds
    <2>. QED
      BY <2>4
  <1>10. ASSUME NEW m \in Timers \ broken, NEW i \in 1..Len(Queued')
         PROVE  /\ Sent(i, "start", m)' => timer'[m] = "starting"
                /\ Sent(i, "cancel", m)' =>
                     /\ m \notin OneShots /\ timer'[m] \in {"starting", "active"}
                     /\ timer'[m] = "starting" => \E j \in 1..(i - 1) : Sent(j, "start", m)'
    <2>1. /\ i + 1 \in 1..Len(Queued) /\ i + 1 # 1
          /\ Sent(i, "start", m)' <=> Sent(i + 1, "start", m)
          /\ Sent(i, "cancel", m)' <=> Sent(i + 1, "cancel", m)
      BY <1>2, <1>3 DEF TimerKinds
    <2>2. Sent(i, "start", m)' => timer'[m] = "starting"
      BY <1>2, <1>8, <2>1 DEF TInv, TimersUsedRight, TimersInOrder
    <2>3. ASSUME Sent(i, "cancel", m)'
          PROVE  /\ m \notin OneShots /\ timer'[m] \in {"starting", "active"}
                 /\ timer'[m] = "starting" => \E j \in 1..(i - 1) : Sent(j, "start", m)'
      <3>1. /\ Sent(i + 1, "cancel", m) /\ ~Sent(1, "cancel", m)
            /\ m \notin OneShots /\ timer[m] \in {"starting", "active"}
            /\ timer[m] = "starting" => \E j \in 1..((i + 1) - 1) : Sent(j, "start", m)
        BY <1>2, <2>1, <2>3 DEF TInv, TimersUsedRight, TimersInOrder
      <3>2. ASSUME timer'[m] = "starting"
            PROVE  \E j \in 1..(i - 1) : Sent(j, "start", m)'
        <4>1. ~Sent(1, "start", m) /\ timer[m] = "starting"
          BY <1>8, <3>2
        <4>2. PICK j \in 1..((i + 1) - 1) : Sent(j, "start", m)
          BY <3>1, <4>1
        <4>3. j # 1 /\ j \in 1..Len(Queued)
          BY <1>2, <4>1, <4>2
        <4>4. j - 1 \in 1..(i - 1) /\ j - 1 \in 1..Len(Queued') /\ (j - 1) + 1 = j
          BY <1>4, <4>2, <4>3
        <4>5. Sent(j - 1, "start", m)'
          BY <1>3, <4>2, <4>4 DEF TimerKinds
        <4>. QED
          BY <4>4, <4>5
      <3>. QED
        BY <1>8, <3>1, <3>2
    <2>. QED
      BY <2>2, <2>3
  <1>. QED
    BY <1>5, <1>8, <1>9, <1>10 DEF TimersInOrder, TimerKinds

\* What a thread of its own or the loop's does with a callback that is no timer's.
LEMMA OtherIsRun ==
  ASSUME TInv, NEW c \in Callers, NEW cb \in Callbacks, cb.kind \in Kinds, RunInLoopThread(c, cb),
         batch' = batch, broken' = broken
  PROVE  TimersUsedRight'
  <1>1. UNCHANGED <<timer, firing, misused>> /\ (async' = async \/ async' = Append(async, cb))
    BY DEF RunInLoopThread, Perform, Kinds, timerVars
  <1>2. CASE async' = async
    <2>1. Queued' = Queued
      BY <1>2 DEF Queued
    <2>. QED
      BY <1>1, <2>1 DEF TInv, TimersUsedRight, FiringInUse, TimersInOrder, Sent
  <1>3. CASE async' = Append(async, cb)
    <2>1. Queued' = Append(Queued, cb)
      BY <1>3, QueuedGrows DEF TInv, IInv
    <2>2. TimersInOrder'
      BY <1>1, <2>1, OtherIsSent
    <2>. QED
      BY <1>1, <2>2 DEF TInv, TimersUsedRight, FiringInUse
  <1>. QED
    BY <1>1, <1>2, <1>3

\* Nothing happens to the queue as a whole, nor to timers.
LEMMA TimersLeftAlone ==
  ASSUME TInv, Queued' = Queued, UNCHANGED <<timer, firing, broken, misused>>
  PROVE  TimersUsedRight'
  BY DEF TInv, TimersUsedRight, FiringInUse, TimersInOrder, Sent

LEMMA TimerRunTimers ==
  ASSUME TInv, NEW c \in Callers, NEW k \in Timers, TimerRun(c, k)
  PROVE  TimersUsedRight'
  <1>. DEFINE cb == [kind |-> "start", by |-> c, n |-> ops'[c], timer |-> k]
  <1>1. /\ timer[k] = "none" /\ UNCHANGED <<firing, broken, misused, batch>>
        /\ \/ timer' = [timer EXCEPT ![k] = "active"] /\ UNCHANGED async
           \/ timer' = [timer EXCEPT ![k] = "starting"] /\ async' = Append(async, cb)
    BY DEF TimerRun
  <1>2. cb \in Callbacks /\ cb.kind = "start" /\ cb.timer = k
    BY NextOpFacts, TimerIsCallback DEF TimerRun, TimerKinds, TInv, IInv
  <1>3. FiringInUse'
    BY <1>1 DEF TInv, TimersUsedRight, FiringInUse, IInv, TypeOK
  <1>4. CASE timer' = [timer EXCEPT ![k] = "active"] /\ UNCHANGED async
    <2>1. Queued' = Queued
      BY <1>1, <1>4 DEF Queued
    <2>2. k \notin broken' => \A i \in 1..Len(Queued) : \A kind \in TimerKinds : ~Sent(i, kind, k)
      BY <1>1 DEF TInv, TimersUsedRight, TimersInOrder, TimerKinds
    <2>3. TimersInOrder'
      BY <1>1, <1>4, <2>1, <2>2, NothingQueued
    <2>. QED
      BY <1>1, <1>3, <2>3 DEF TInv, TimersUsedRight
  <1>5. CASE timer' = [timer EXCEPT ![k] = "starting"] /\ async' = Append(async, cb)
    <2>1. Queued' = Append(Queued, cb)
      BY <1>1, <1>2, <1>5, QueuedGrows DEF TInv, IInv
    <2>2. TimersInOrder'
      BY <1>1, <1>2, <1>5, <2>1, StartIsSent
    <2>. QED
      BY <1>1, <1>3, <2>2 DEF TInv, TimersUsedRight
  <1>. QED
    BY <1>1, <1>4, <1>5

LEMMA CancelTimers ==
  ASSUME TInv, NEW c \in Callers, NEW k \in Timers, Cancel(c, k)
  PROVE  TimersUsedRight'
  <1>. DEFINE cb == [kind |-> "cancel", by |-> c, n |-> ops'[c], timer |-> k]
  <1>1. /\ RunInLoopThread(c, cb) /\ batch' = batch
        /\ broken' = IF MayCancel(c, k) THEN broken ELSE broken \cup {k}
    BY DEF Cancel
  <1>2. cb \in Callbacks /\ cb.kind = "cancel" /\ cb.timer = k
    BY NextOpFacts, TimerIsCallback DEF Cancel, TimerKinds, TInv, IInv
  <1>3. k \notin broken' => /\ timer[k] \in {"starting", "active"}
                            /\ \A i \in 1..Len(Queued) : ~Sent(i, "cancel", k)
                            /\ c = Loop => timer[k] = "active" /\ k \notin firing
                            /\ c # Loop => k \notin OneShots
    BY <1>1 DEF MayCancel, Queued, Sent
  <1>4. broken \subseteq broken' /\ misused \subseteq broken'
    BY <1>1 DEF TInv, TimersUsedRight
  <1>5. CASE c = Loop /\ CancelTimer(k) /\ UNCHANGED async
    <2>1. Queued' = Queued
      BY <1>1, <1>5 DEF Queued
    <2>2. /\ timer' = [timer EXCEPT ![k] = "freed"] /\ firing' = firing
          /\ misused' = IF timer[k] = "active" THEN misused ELSE misused \cup {k}
      BY <1>5 DEF CancelTimer
    <2>3. misused' \subseteq broken'
      BY <1>3, <1>4, <1>5, <2>2
    <2>4. k \notin broken' => \A i \in 1..Len(Queued) : \A kind \in TimerKinds : ~Sent(i, kind, k)
      BY <1>3, <1>4, <1>5 DEF TInv, TimersUsedRight, TimersInOrder, TimerKinds
    <2>5. TimersInOrder'
      BY <1>4, <2>1, <2>2, <2>4, NothingQueued
    <2>6. \A m \in Timers : m # k => timer'[m] = timer[m]
      BY <2>2 DEF TInv, IInv, TypeOK
    <2>7. FiringInUse'
      BY <1>3, <1>4, <1>5, <2>2, <2>6 DEF TInv, IInv, TypeOK, TimersUsedRight, FiringInUse
    <2>. QED
      BY <2>3, <2>5, <2>7 DEF TimersUsedRight
  <1>6. CASE c # Loop /\ async' = Append(async, cb) /\ UNCHANGED timerVars
    <2>1. Queued' = Append(Queued, cb)
      BY <1>1, <1>2, <1>6, QueuedGrows DEF TInv, IInv
    <2>2. UNCHANGED <<timer, firing, misused>>
      BY <1>6 DEF timerVars
    <2>3. TimersInOrder'
      BY <1>2, <1>3, <1>4, <1>6, <2>1, <2>2, CancelIsSent
    <2>. QED
      BY <1>4, <2>2, <2>3 DEF TInv, TimersUsedRight, FiringInUse
  <1>. QED
    BY <1>1, <1>2, <1>5, <1>6 DEF RunInLoopThread, Perform

LEMMA CallingTimers ==
  ASSUME TInv, Calling
  PROVE  TimersUsedRight'
  <1>1. CASE StopDirect
    <2>1. /\ Loop \in Callers /\ [kind |-> "stop", by |-> Loop, n |-> ops'[Loop]] \in Callbacks
      BY <1>1, NextOpFacts, CallIsCallback DEF Callers, StopDirect, Kinds, TInv, IInv
    <2>. QED
      BY <1>1, <2>1, OtherIsRun DEF StopDirect, Kinds
  <1>2. ASSUME NEW t \in Threads, Stop(t) PROVE TimersUsedRight'
    <2>1. CASE StopFlag(t)
      <3>1. Queued' = Queued /\ UNCHANGED <<timer, firing, broken, misused>>
        BY <2>1 DEF StopFlag, Queued, timerVars
      <3>. QED
        BY <3>1, TimersLeftAlone
    <2>2. CASE StopPost(t)
      <3>1. t \in Callers /\ [kind |-> "stop", by |-> t, n |-> ops[t]] \in Callbacks
        BY CallIsCallback DEF Callers, Kinds, TInv, IInv, TypeOK
      <3>. QED
        BY <2>2, <3>1, OtherIsRun DEF StopPost, Kinds
    <2>. QED
      BY <1>2, <2>1, <2>2 DEF Stop
  <1>3. ASSUME NEW c \in Callers, Call(c) PROVE TimersUsedRight'
    <2>1. [kind |-> "call", by |-> c, n |-> ops'[c]] \in Callbacks
      BY <1>3, NextOpFacts, CallIsCallback DEF Call, Kinds, TInv, IInv
    <2>. QED
      BY <1>3, <2>1, OtherIsRun DEF Call, Kinds
  <1>. QED
    BY <1>1, <1>2, <1>3, TimerRunTimers, CancelTimers DEF Calling

LEMMA LoopTimers ==
  ASSUME TInv, LoopStep
  PROVE  TimersUsedRight'
  <1>1. CASE RunBegin \/ RunTest \/ UvReturn
    <2>1. Queued' = Queued /\ UNCHANGED <<timer, firing, broken, misused>>
      BY <1>1 DEF RunBegin, RunTest, UvReturn, Queued, timerVars
    <2>. QED
      BY <2>1, TimersLeftAlone
  <1>2. CASE Gather
    <2>1. /\ batch = <<>> /\ batch' = async /\ async' = <<>>
          /\ UNCHANGED <<timer, firing, broken, misused>>
      BY <1>2 DEF Gather, timerVars
    <2>2. batch \o async = async /\ async \o <<>> = async
      BY <2>1, ConcatEmptySeq DEF TInv, IInv, TypeOK
    <2>. QED
      BY <2>1, <2>2, TimersLeftAlone DEF Queued
  <1>3. CASE AsyncCallback
    <2>1. /\ batch # <<>> /\ Perform(Head(batch)) /\ batch' = Tail(batch) /\ async' = async
          /\ firing = {} /\ broken' = broken
      BY <1>3 DEF AsyncCallback
    <2>2. Queued # <<>> /\ Head(Queued) = Head(batch) /\ Tail(Queued) = Tail(batch) \o async
      BY <2>1, FirstOfTwo DEF TInv, IInv, TypeOK, Queued
    <2>3. TimersInOrder' /\ misused' \subseteq broken'
      BY <2>1, <2>2, FirstIsPerformed DEF Queued
    <2>4. firing' = {}
      BY <2>1 DEF Perform, StartTimer, CancelTimer, timerVars
    <2>. QED
      BY <2>3, <2>4 DEF TimersUsedRight, FiringInUse
  <1>. QED
    BY <1>1, <1>2, <1>3 DEF LoopStep

\* A timer's callback may go on with its timer, and the timer that is freed behind it is in use.
LEMMA TimerCallbackTimers ==
  ASSUME TInv, TimerCallback
  PROVE  TimersUsedRight'
  <1>1. Queued' = Queued /\ broken' = broken
    BY DEF TimerCallback, TimerBegin, TimerEnd, loopVars, Queued
  <1>2. ASSUME NEW k \in Timers, TimerBegin(k)
        PROVE  TimersUsedRight'
    <2>1. timer[k] = "active" /\ firing' = {k} /\ UNCHANGED <<timer, misused>>
      BY <1>2 DEF TimerBegin
    <2>. QED
      BY <1>1, <2>1 DEF TInv, TimersUsedRight, FiringInUse, TimersInOrder, Sent
  <1>3. ASSUME NEW k \in Timers, TimerEnd(k)
        PROVE  TimersUsedRight'
    <2>1. /\ k \in firing /\ firing' = {}
          /\ misused' = IF timer[k] = "active" THEN misused ELSE misused \cup {k}
          /\ timer' = IF k \in OneShots THEN [timer EXCEPT ![k] = "freed"] ELSE timer
      BY <1>3 DEF TimerEnd
    <2>2. k \in broken \/ timer[k] = "active"
      BY <2>1 DEF TInv, TimersUsedRight, FiringInUse
    <2>3. misused' \subseteq broken' /\ FiringInUse'
      BY <1>1, <2>1, <2>2 DEF TInv, TimersUsedRight, FiringInUse
    <2>4. TimersInOrder'
      <3>1. CASE k \in OneShots
        <4>1. k \notin broken' => \A i \in 1..Len(Queued) : \A kind \in TimerKinds : ~Sent(i, kind, k)
          BY <1>1, <2>2, <3>1 DEF TInv, TimersUsedRight, TimersInOrder, TimerKinds
        <4>. QED
          BY <1>1, <2>1, <3>1, <4>1, NothingQueued
      <3>2. CASE k \notin OneShots
        BY <1>1, <2>1, <3>2 DEF TInv, TimersUsedRight, TimersInOrder, Sent
      <3>. QED
        BY <3>1, <3>2
    <2>. QED
      BY <2>3, <2>4 DEF TimersUsedRight
  <1>. QED
    BY <1>2, <1>3 DEF TimerCallback

LEMMA InitTimers == Init => TimersUsedRight
  <1>. SUFFICES ASSUME Init PROVE TimersUsedRight
    OBVIOUS
  <1>1. Queued = <<>> /\ Len(Queued) = 0 /\ misused = {} /\ firing = {} /\ \A k \in Timers : timer[k] = "none"
    BY EmptySeq, ConcatEmptySeq DEF Init, Queued
  <1>. QED
    BY <1>1 DEF TimersUsedRight, FiringInUse, TimersInOrder

LEMMA NextTimers == TInv /\ [Next]_vars => TimersUsedRight'
  <1>. SUFFICES ASSUME TInv, [Next]_vars PROVE TimersUsedRight'
    OBVIOUS
  <1>1. CASE UNCHANGED vars
    <2>1. Queued' = Queued /\ UNCHANGED <<timer, firing, broken, misused>>
      BY <1>1 DEF vars, loopVars, timerVars, Queued
    <2>. QED
      BY <2>1, TimersLeftAlone
  <1>. QED
    BY <1>1, CallingTimers, LoopTimers, TimerCallbackTimers DEF Next, Calling

\* Whatever threads call runEvery, runAfter and cancel, and from whatever callback: a timer is used
\* uninitialised or after it was freed only if it was cancelled against the rules, as it is by a
\* cancel() in its own callback, behind which timerCallback reads it.
THEOREM TimersAreUsedRight == Spec => []TimersUsedRight
  <1>1. Init => TInv
    BY InitInv, InitTimers DEF TInv
  <1>2. TInv /\ [Next]_vars => TInv'
    BY NextInv, NextTimers DEF TInv
  <1>3. TInv => TimersUsedRight
    BY DEF TInv
  <1>. QED
    BY <1>1, <1>2, <1>3, PTL DEF Spec

-----------------------------------------------------------------------------
(* EventLoopThread *)

\* The destructor's run_ = false.
DestroyBegins ==
    /\ owns = "started" /\ stopping = {} /\ run' = FALSE /\ stopping' = {Owner} /\ owns' = "stops"
    /\ UNCHANGED <<pc, stopFlag, async, batch, ran, entered, ops, timerVars, broken, thread, loop>>

LEMMA DestroyCases ==
  ASSUME Destroy
  PROVE  \/ DestroyBegins
         \/ owns = "stops" /\ owns' = "joins" /\ StopPost(Owner) /\ UNCHANGED <<thread, loop>>
  BY DEF Destroy, DestroyBegins

\* Everything else is a step of the loop or of a thread that uses it.
LEMMA ThreadStepIsNext ==
  ASSUME [ThreadNext]_allVars
  PROVE  [Next]_vars \/ DestroyBegins
  <1>1. Owner \in Threads /\ Loop \in Callers /\ Threads \subseteq Callers
    BY OwnerAssumption DEF Callers
  <1>2. CASE InitCallback
    BY <1>1, <1>2 DEF InitCallback, Next
  <1>3. CASE ThreadRuns
    BY <1>1, <1>3 DEF ThreadRuns, Next
  <1>4. CASE \E t \in Threads : Use(t)
    BY <1>1, <1>4 DEF Use, Next
  <1>5. CASE Destroy
    BY <1>1, <1>5, DestroyCases DEF Next, Stop
  <1>6. CASE InitReturns \/ SetLoop \/ Notify \/ StartLoop \/ TestLoop \/ Wait \/ Join \/ UNCHANGED allVars
    BY <1>6 DEF InitReturns, SetLoop, Notify, StartLoop, TestLoop, Wait, Join, allVars
  <1>. QED
    BY <1>2, <1>3, <1>4, <1>5, <1>6 DEF ThreadNext

LEMMA ThreadKeepsIInv ==
  ASSUME IInv, [ThreadNext]_allVars
  PROVE  IInv'
  <1>1. CASE [Next]_vars
    BY <1>1, NextInv
  <1>2. CASE DestroyBegins
    <2>1. /\ run' = FALSE /\ stopping' = {Owner} /\ Owner \in Threads
          /\ UNCHANGED <<pc, stopFlag, async, batch, ran, entered, ops, timer, firing, broken, misused>>
      BY <1>2, OwnerAssumption DEF DestroyBegins, timerVars
    <2>2. TypeOK'
      BY <2>1 DEF IInv, TypeOK
    <2>3. EnteredOnce' /\ StopAnnounced' /\ EnteredByRun'
      BY <2>1 DEF IInv, EnteredOnce, StopAnnounced, EnteredByRun
    <2>. QED
      BY <2>2, <2>3 DEF IInv
  <1>. QED
    BY <1>1, <1>2, ThreadStepIsNext

\* The new thread's own steps; once run() has returned there are none.
LEMMA ThreadRunsFacts ==
  ASSUME InitCallback \/ ThreadRuns
  PROVE  /\ UNCHANGED <<stopping, owns, thread, loop>>
         /\ thread # "runs" => pc' = pc
         /\ pc = "ended" => pc' = "ended"
  <1>1. CASE InitCallback
    BY <1>1 DEF InitCallback, Call, StopDirect, TimerRun, Cancel, threadVars
  <1>2. CASE ThreadRuns
    BY <1>2 DEF ThreadRuns, LoopStep, RunBegin, RunTest, Gather, AsyncCallback, UvReturn, Call, StopDirect,
                TimerRun, Cancel, RunInLoopThread, TimerCallback, TimerBegin, TimerEnd, loopVars, threadVars
  <1>. QED
    BY <1>1, <1>2

LEMMA ThreadNextInv == ThreadIInv /\ [ThreadNext]_allVars => ThreadIInv'
  <1>. SUFFICES ASSUME ThreadIInv, [ThreadNext]_allVars PROVE ThreadIInv'
    OBVIOUS
  <1>1. IInv'
    BY ThreadKeepsIInv DEF ThreadIInv
  <1>2. CASE InitCallback \/ ThreadRuns
    BY <1>1, <1>2, ThreadRunsFacts DEF ThreadIInv, ThreadTypeOK
  <1>3. CASE \E t \in Threads : Use(t)
    <2>1. owns = "started" /\ UNCHANGED <<pc, owns, thread, loop>>
      BY <1>3 DEF Use, Call, Stop, StopFlag, StopPost, TimerRun, Cancel, threadVars
    <2>. QED
      BY <1>1, <2>1 DEF ThreadIInv, ThreadTypeOK
  <1>4. CASE Destroy
    <2>1. CASE DestroyBegins
      BY <1>1, <2>1 DEF DestroyBegins, ThreadIInv, ThreadTypeOK
    <2>2. CASE owns = "stops" /\ owns' = "joins" /\ StopPost(Owner) /\ UNCHANGED <<thread, loop>>
      BY <1>1, <2>2 DEF StopPost, ThreadIInv, ThreadTypeOK
    <2>. QED
      BY <1>4, <2>1, <2>2, DestroyCases
  <1>5. CASE InitReturns \/ SetLoop \/ Notify
    <2>1. UNCHANGED <<pc, stopping>>
      BY <1>5 DEF InitReturns, SetLoop, Notify, vars, loopVars
    <2>2. CASE InitReturns
      BY <1>1, <2>1, <2>2 DEF InitReturns, ThreadIInv, ThreadTypeOK
    <2>3. CASE SetLoop
      BY <1>1, <2>1, <2>3 DEF SetLoop, ThreadIInv, ThreadTypeOK
    <2>4. CASE Notify
      BY <1>1, <2>1, <2>4 DEF Notify, ThreadIInv, ThreadTypeOK
    <2>. QED
      BY <1>5, <2>2, <2>3, <2>4
  <1>6. CASE StartLoop \/ TestLoop \/ Wait \/ Join
    <2>1. UNCHANGED <<pc, stopping, loop>>
      BY <1>6 DEF StartLoop, TestLoop, Wait, Join, vars, loopVars
    <2>. QED
      BY <1>1, <1>6, <2>1 DEF StartLoop, TestLoop, Wait, Join, ThreadIInv, ThreadTypeOK
  <1>7. CASE UNCHANGED allVars
    BY <1>1, <1>7 DEF allVars, vars, loopVars, threadVars, ThreadIInv, ThreadTypeOK
  <1>. QED
    BY <1>2, <1>3, <1>4, <1>5, <1>6, <1>7 DEF ThreadNext

LEMMA ThreadInitInv == ThreadInit => ThreadIInv
  <1>1. ThreadInit => IInv
    BY InitInv DEF ThreadInit
  <1>. QED
    BY <1>1 DEF ThreadInit, Init, ThreadIInv, ThreadTypeOK

\* In whatever order the two threads go and whoever uses the loop: nobody sees loop_ before
\* initCallback_ has returned, and the destructor deletes a loop that has ended and is not used.
THEOREM ThreadInvariantHolds == ThreadSpec => []ThreadIInv
  BY ThreadInitInv, ThreadNextInv, PTL DEF ThreadSpec

-----------------------------------------------------------------------------
(* What was sent before the destructor has run. *)

\* Every call of a thread was sent, but for a stop that is under way; once the destructor has
\* sent its stop nobody sends anything more; and the loop ends for a stop only.
SentInv ==
    /\ \A c \in Threads : \A n \in 1..ops[c] :
           \/ \E i \in 1..Len(AllSent) : AllSent[i].by = c /\ AllSent[i].n = n
           \/ c \in stopping /\ n = ops[c]
    /\ owns \in {"joins", "gone"} => Len(AllSent) # 0 /\ AllSent[Len(AllSent)].kind = "stop"
    /\ stopFlag \/ (entered /\ pc \in {"testing", "ended"}) =>
           ops[Loop] # 0 \/ \E i \in 1..Len(ran) : ran[i].kind = "stop"

LEMMA AllSentType ==
  ASSUME TypeOK
  PROVE  /\ AllSent \in Seq(Callbacks) /\ Len(AllSent) \in Nat /\ Len(ran) \in Nat
         /\ \A i \in 1..Len(ran) : i \in 1..Len(AllSent) /\ AllSent[i] = ran[i]
  <1>1. Queued \in Seq(Callbacks) /\ ran \in Seq(Callbacks)
    BY ConcatProperties DEF TypeOK, Queued
  <1>2. /\ AllSent \in Seq(Callbacks) /\ Len(AllSent) = Len(ran) + Len(Queued)
        /\ \A i \in 1..(Len(ran) + Len(Queued)) :
               AllSent[i] = IF i <= Len(ran) THEN ran[i] ELSE Queued[i - Len(ran)]
    BY <1>1, ConcatProperties DEF AllSent
  <1>3. Len(ran) \in Nat /\ Len(Queued) \in Nat
    BY <1>1, LenProperties
  <1>. QED
    BY <1>2, <1>3

LEMMA AllSentGrows ==
  ASSUME TypeOK, NEW cb \in Callbacks, async' = Append(async, cb), UNCHANGED <<batch, ran>>
  PROVE  /\ Len(AllSent') = Len(AllSent) + 1 /\ AllSent'[Len(AllSent) + 1] = cb
         /\ \A i \in 1..Len(AllSent) : i \in 1..Len(AllSent') /\ AllSent'[i] = AllSent[i]
  <1>1. batch \in Seq(Callbacks) /\ async \in Seq(Callbacks) /\ ran \in Seq(Callbacks)
    BY DEF TypeOK
  <1>2. batch \o async \in Seq(Callbacks) /\ batch \o Append(async, cb) = Append(batch \o async, cb)
    BY <1>1, ConcatProperties, SendConcat
  <1>3. ran \o Append(batch \o async, cb) = Append(ran \o (batch \o async), cb)
    BY <1>1, <1>2, SendConcat
  <1>4. AllSent' = Append(AllSent, cb)
    BY <1>2, <1>3 DEF AllSent, Queued
  <1>. QED
    BY <1>4, AllSentType, AppendProperties

\* A thread calls the loop and its callback is sent.
LEMMA CallKeepsSent ==
  ASSUME TypeOK, SentInv, NEW t \in Threads, NextOp(t), NEW cb \in Callbacks,
         cb.by = t, cb.n = ops'[t], async' = Append(async, cb), owns = "started",
         UNCHANGED <<pc, stopFlag, batch, ran, entered, stopping, owns>>
  PROVE  SentInv'
  <1>1. /\ Len(AllSent') = Len(AllSent) + 1 /\ AllSent'[Len(AllSent) + 1] = cb
        /\ \A i \in 1..Len(AllSent) : i \in 1..Len(AllSent') /\ AllSent'[i] = AllSent[i]
        /\ Len(AllSent) \in Nat
    BY AllSentGrows, AllSentType
  <1>2. /\ t # Loop /\ t \notin stopping /\ t \in Callers /\ Loop \in Callers
        /\ ops[t] \in Nat /\ ops'[t] = ops[t] + 1
        /\ \A c \in Callers : c # t => ops'[c] = ops[c]
    BY LoopAssumption DEF NextOp, CanCall, TypeOK, Callers
  <1>3. ASSUME NEW c \in Threads, NEW n \in 1..ops'[c]
        PROVE  \/ \E i \in 1..Len(AllSent') : AllSent'[i].by = c /\ AllSent'[i].n = n
               \/ c \in stopping' /\ n = ops'[c]
    <2>1. CASE c # t
      <3>1. n \in 1..ops[c] /\ ops'[c] = ops[c]
        BY <1>2, <2>1 DEF Callers
      <3>2. \/ \E i \in 1..Len(AllSent) : AllSent[i].by = c /\ AllSent[i].n = n
            \/ c \in stopping /\ n = ops[c]
        BY <3>1 DEF SentInv
      <3>. QED
        BY <1>1, <3>1, <3>2
    <2>2. CASE c = t /\ n \in 1..ops[t]
      <3>1. \E i \in 1..Len(AllSent) : AllSent[i].by = c /\ AllSent[i].n = n
        BY <1>2, <2>2 DEF SentInv
      <3>. QED
        BY <1>1, <3>1
    <2>3. CASE c = t /\ n = ops'[t]
      <3>1. Len(AllSent) + 1 \in 1..Len(AllSent')
        BY <1>1
      <3>. QED
        BY <1>1, <2>3, <3>1
    <2>. QED
      BY <1>2, <2>1, <2>2, <2>3
  <1>4. ops'[Loop] = ops[Loop]
    BY <1>2
  <1>. QED
    BY <1>3, <1>4 DEF SentInv

\* The second line of stop() in a thread, and what it sends.
LEMMA StopPostKeepsSent ==
  ASSUME TypeOK, SentInv, NEW t \in Threads, StopPost(t),
         (owns = "started" /\ owns' = "started") \/ owns' = "joins"
  PROVE  SentInv'
  <1>. DEFINE cb == [kind |-> "stop", by |-> t, n |-> ops[t]]
  <1>1. t # Loop /\ t \in Callers
    BY LoopAssumption DEF Callers
  <1>2. cb \in Callbacks /\ cb.by = t /\ cb.n = ops[t] /\ cb.kind = "stop"
    BY <1>1, CallIsCallback DEF TypeOK, Kinds
  <1>3. /\ async' = Append(async, cb) /\ stopping' = stopping \ {t}
        /\ UNCHANGED <<pc, stopFlag, batch, ran, entered, ops>>
    BY <1>1 DEF StopPost, RunInLoopThread
  <1>. HIDE DEF cb
  <1>4. /\ Len(AllSent') = Len(AllSent) + 1 /\ AllSent'[Len(AllSent) + 1] = cb
        /\ \A i \in 1..Len(AllSent) : i \in 1..Len(AllSent') /\ AllSent'[i] = AllSent[i]
        /\ Len(AllSent) \in Nat
    BY <1>2, <1>3, AllSentGrows, AllSentType
  <1>5. Len(AllSent') \in 1..Len(AllSent') /\ AllSent'[Len(AllSent')] = cb /\ Len(AllSent') # 0
    BY <1>4
  <1>6. ASSUME NEW c \in Threads, NEW n \in 1..ops'[c]
        PROVE  \/ \E i \in 1..Len(AllSent') : AllSent'[i].by = c /\ AllSent'[i].n = n
               \/ c \in stopping' /\ n = ops'[c]
    <2>1. \/ \E i \in 1..Len(AllSent) : AllSent[i].by = c /\ AllSent[i].n = n
          \/ c \in stopping /\ n = ops[c]
      BY <1>3 DEF SentInv
    <2>2. CASE \E i \in 1..Len(AllSent) : AllSent[i].by = c /\ AllSent[i].n = n
      BY <1>4, <2>2
    <2>3. CASE c \in stopping /\ n = ops[c] /\ c # t
      BY <1>3, <2>3
    <2>4. CASE n = ops[c] /\ c = t
      BY <1>2, <1>5, <2>4
    <2>. QED
      BY <2>1, <2>2, <2>3, <2>4
  <1>. QED
    BY <1>2, <1>3, <1>5, <1>6 DEF SentInv

\* The first line of stop() in a thread.
LEMMA StopFlagKeepsSent ==
  ASSUME TypeOK, SentInv, NEW t \in Threads, StopFlag(t), UNCHANGED owns
  PROVE  SentInv'
  <1>1. /\ t # Loop /\ t \notin stopping /\ ops[t] \in Nat /\ ops'[t] = ops[t] + 1
        /\ \A c \in Callers : c # t => ops'[c] = ops[c]
        /\ stopping' = stopping \cup {t} /\ Threads \subseteq Callers /\ Loop \in Callers
        /\ UNCHANGED <<pc, stopFlag, batch, async, ran, entered>>
    BY LoopAssumption DEF StopFlag, NextOp, CanCall, TypeOK, Callers
  <1>2. AllSent' = AllSent
    BY <1>1 DEF AllSent, Queued
  <1>3. \A c \in Threads : \A n \in 1..ops'[c] : n \in 1..ops[c] \/ (c = t /\ n = ops'[c])
    <2>1. \A n \in 1..ops'[t] : n \in 1..ops[t] \/ n = ops'[t]
      BY <1>1
    <2>2. \A c \in Threads : c # t => ops'[c] = ops[c]
      BY <1>1
    <2>. QED
      BY <2>1, <2>2
  <1>4. ASSUME NEW c \in Threads, NEW n \in 1..ops'[c]
        PROVE  \/ \E i \in 1..Len(AllSent) : AllSent[i].by = c /\ AllSent[i].n = n
               \/ c \in stopping' /\ n = ops'[c]
    BY <1>1, <1>3 DEF SentInv
  <1>. QED
    BY <1>1, <1>2, <1>4 DEF SentInv

\* The loop's own calls are sent to nobody; they count.
LEMMA DirectKeepsSent ==
  ASSUME TypeOK, SentInv, NextOp(Loop), UNCHANGED <<async, batch, ran, stopping, owns>>
  PROVE  SentInv'
  <1>1. AllSent' = AllSent
    BY DEF AllSent, Queued
  <1>2. /\ ops'[Loop] # 0 /\ \A c \in Threads : ops'[c] = ops[c]
    BY LoopAssumption DEF NextOp, TypeOK, Callers
  <1>. QED
    BY <1>1, <1>2 DEF SentInv

\* The loop goes on and sends nothing.
LEMMA LoopKeepsSent ==
  ASSUME IInv, SentInv, LoopStep \/ TimerCallback, UNCHANGED owns
  PROVE  SentInv'
  <1>1. UNCHANGED <<ops, stopping>>
    BY DEF LoopStep, RunBegin, RunTest, Gather, AsyncCallback, UvReturn, TimerCallback,
           TimerBegin, TimerEnd
  <1>2. AllSent' = AllSent
    <2>1. CASE Gather
      BY <2>1, GatherBox DEF Box!mailboxVars, AllSent, Queued
    <2>2. CASE AsyncCallback
      BY <2>2, HandledStaysSent DEF AllSent, Queued
    <2>3. CASE UNCHANGED <<async, batch, ran>>
      BY <2>3 DEF AllSent, Queued
    <2>. QED
      BY <2>1, <2>2, <2>3 DEF LoopStep, RunBegin, RunTest, UvReturn, TimerCallback, TimerBegin, TimerEnd,
                               loopVars
  <1>3. stopFlag' \/ (entered' /\ pc' \in {"testing", "ended"}) =>
            ops[Loop] # 0 \/ \E i \in 1..Len(ran') : ran'[i].kind = "stop"
    <2>1. CASE AsyncCallback
      <3>1. /\ pc = "running" /\ batch # <<>> /\ Perform(Head(batch)) /\ pc' = pc
            /\ ran' = Append(ran, Head(batch))
        BY <2>1 DEF AsyncCallback
      <3>2. Head(batch) \in Callbacks /\ ran \in Seq(Callbacks)
        BY <3>1, TailFacts DEF IInv, TypeOK
      <3>3. /\ Len(ran) \in Nat /\ Len(ran') = Len(ran) + 1 /\ ran'[Len(ran) + 1] = Head(batch)
            /\ \A i \in 1..Len(ran) : i \in 1..Len(ran') /\ ran'[i] = ran[i]
        BY <3>1, <3>2, AppendProperties, LenProperties
      <3>4. Len(ran) + 1 \in 1..Len(ran')
        BY <3>3
      <3>5. stopFlag' = stopFlag \/ Head(batch).kind = "stop"
        BY <3>1, <3>2, PerformFacts DEF IInv
      <3>6. CASE Head(batch).kind = "stop"
        BY <3>3, <3>4, <3>6
      <3>7. CASE stopFlag' = stopFlag
        BY <3>1, <3>3, <3>7 DEF SentInv
      <3>. QED
        BY <3>5, <3>6, <3>7
    <2>2. CASE RunBegin \/ RunTest \/ UvReturn
      BY <2>2 DEF RunBegin, RunTest, UvReturn, SentInv, IInv, EnteredByRun
    <2>3. CASE Gather \/ TimerCallback
      BY <2>3 DEF Gather, TimerCallback, TimerBegin, TimerEnd, loopVars, SentInv
    <2>. QED
      BY <2>1, <2>2, <2>3 DEF LoopStep
  <1>. QED
    BY <1>1, <1>2, <1>3 DEF SentInv

LEMMA UseKeepsSent ==
  ASSUME TypeOK, SentInv, NEW t \in Threads, Use(t)
  PROVE  SentInv'
  <1>1. owns = "started" /\ UNCHANGED owns /\ t # Loop /\ t \in Callers
    BY LoopAssumption DEF Use, threadVars, Callers
  <1>2. CASE Call(t)
    <2>1. /\ NextOp(t) /\ async' = Append(async, [kind |-> "call", by |-> t, n |-> ops'[t]])
          /\ UNCHANGED <<pc, stopFlag, batch, ran, entered, stopping>>
      BY <1>1, <1>2 DEF Call, RunInLoopThread
    <2>2. [kind |-> "call", by |-> t, n |-> ops'[t]] \in Callbacks
      BY <1>1, <2>1, NextOpFacts, CallIsCallback DEF Kinds
    <2>. QED
      BY <1>1, <2>1, <2>2, CallKeepsSent
  <1>3. ASSUME NEW k \in Timers, TimerRun(t, k)
        PROVE  SentInv'
    <2>1. /\ NextOp(t) /\ async' = Append(async, [kind |-> "start", by |-> t, n |-> ops'[t], timer |-> k])
          /\ UNCHANGED <<pc, stopFlag, batch, ran, entered, stopping>>
      BY <1>1, <1>3 DEF TimerRun
    <2>2. [kind |-> "start", by |-> t, n |-> ops'[t], timer |-> k] \in Callbacks
      BY <1>1, <2>1, NextOpFacts, TimerIsCallback DEF TimerKinds
    <2>. QED
      BY <1>1, <2>1, <2>2, CallKeepsSent
  <1>4. ASSUME NEW k \in Timers, Cancel(t, k)
        PROVE  SentInv'
    <2>1. /\ NextOp(t) /\ async' = Append(async, [kind |-> "cancel", by |-> t, n |-> ops'[t], timer |-> k])
          /\ UNCHANGED <<pc, stopFlag, batch, ran, entered, stopping>>
      BY <1>1, <1>4 DEF Cancel, RunInLoopThread
    <2>2. [kind |-> "cancel", by |-> t, n |-> ops'[t], timer |-> k] \in Callbacks
      BY <1>1, <2>1, NextOpFacts, TimerIsCallback DEF TimerKinds
    <2>. QED
      BY <1>1, <2>1, <2>2, CallKeepsSent
  <1>5. CASE StopFlag(t)
    BY <1>1, <1>5, StopFlagKeepsSent
  <1>6. CASE StopPost(t)
    BY <1>1, <1>6, StopPostKeepsSent
  <1>. QED
    BY <1>2, <1>3, <1>4, <1>5, <1>6 DEF Use, Stop

LEMMA SentNextInv == ThreadIInv /\ SentInv /\ [ThreadNext]_allVars => SentInv'
  <1>. SUFFICES ASSUME ThreadIInv, SentInv, [ThreadNext]_allVars PROVE SentInv'
    OBVIOUS
  <1>1. IInv /\ TypeOK /\ Owner \in Threads
    BY OwnerAssumption DEF ThreadIInv, IInv
  <1>2. CASE InitCallback \/ ThreadRuns
    <2>1. UNCHANGED owns
      BY <1>2, ThreadRunsFacts
    <2>2. CASE (Call(Loop) \/ StopDirect) \/ \E k \in Timers : TimerRun(Loop, k) \/ Cancel(Loop, k)
      <3>1. NextOp(Loop) /\ UNCHANGED <<async, batch, ran, stopping>>
        BY <2>2, LoopAssumption DEF Call, StopDirect, TimerRun, Cancel, RunInLoopThread
      <3>. QED
        BY <1>1, <2>1, <3>1, DirectKeepsSent
    <2>3. CASE LoopStep \/ TimerCallback
      BY <1>1, <2>1, <2>3, LoopKeepsSent
    <2>. QED
      BY <1>2, <2>2, <2>3 DEF InitCallback, ThreadRuns
  <1>3. CASE \E t \in Threads : Use(t)
    BY <1>1, <1>3, UseKeepsSent
  <1>4. CASE Destroy
    <2>1. CASE DestroyBegins
      <3>1. /\ stopping = {} /\ owns' = "stops"
            /\ UNCHANGED <<pc, stopFlag, async, batch, ran, entered, ops>>
        BY <2>1 DEF DestroyBegins
      <3>2. AllSent' = AllSent
        BY <3>1 DEF AllSent, Queued
      <3>. QED
        BY <3>1, <3>2 DEF SentInv
    <2>2. CASE owns = "stops" /\ owns' = "joins" /\ StopPost(Owner) /\ UNCHANGED <<thread, loop>>
      BY <1>1, <2>2, StopPostKeepsSent
    <2>. QED
      BY <1>4, <2>1, <2>2, DestroyCases
  <1>5. CASE InitReturns \/ SetLoop \/ Notify \/ StartLoop \/ TestLoop \/ Wait \/ Join \/ UNCHANGED allVars
    <2>1. /\ UNCHANGED <<pc, stopFlag, async, batch, ran, entered, ops, stopping>>
          /\ owns' \in {"joins", "gone"} => owns \in {"joins", "gone"}
      BY <1>5 DEF InitReturns, SetLoop, Notify, StartLoop, TestLoop, Wait, Join, allVars, vars, loopVars, threadVars
    <2>2. AllSent' = AllSent
      BY <2>1 DEF AllSent, Queued
    <2>. QED
      BY <2>1, <2>2 DEF SentInv
  <1>. QED
    BY <1>2, <1>3, <1>4, <1>5 DEF ThreadNext

LEMMA SentInitInv == ThreadInit => SentInv
  BY LoopAssumption DEF ThreadInit, Init, SentInv, Callers

\* If the destructor's stop is the only one, all that was sent before it has run when the loop is
\* deleted: that stop is the last thing sent, and the loop ends for no other.
LEMMA AllRanInTheEnd == ThreadIInv /\ SentInv => NothingIsLost
  <1>. SUFFICES ASSUME ThreadIInv, SentInv, owns = "gone", entered, OnlyTheDestructorStops,
                       NEW c \in Threads, NEW n \in 1..ops[c]
                PROVE  \E i \in 1..Len(ran) : ran[i].by = c /\ ran[i].n = n
    BY DEF NothingIsLost
  <1>1. /\ Len(AllSent) \in Nat /\ Len(ran) \in Nat
        /\ \A i \in 1..Len(ran) : i \in 1..Len(AllSent) /\ AllSent[i] = ran[i]
    BY AllSentType DEF ThreadIInv, IInv
  <1>2. pc = "ended" /\ stopping = {} /\ ops[Loop] = 0
    BY DEF ThreadIInv, OnlyTheDestructorStops
  <1>3. PICK s \in 1..Len(ran) : ran[s].kind = "stop"
    BY <1>2 DEF SentInv
  <1>4. /\ AllSent[Len(AllSent)].kind = "stop" /\ Len(AllSent) \in 1..Len(AllSent)
        /\ s \in 1..Len(AllSent) /\ AllSent[s].kind = "stop"
    BY <1>1, <1>3 DEF SentInv
  <1>5. s = Len(AllSent)
    BY <1>4 DEF OnlyTheDestructorStops
  <1>6. PICK i \in 1..Len(AllSent) : AllSent[i].by = c /\ AllSent[i].n = n
    BY <1>2 DEF SentInv
  <1>7. i \in 1..Len(ran)
    BY <1>1, <1>3, <1>5
  <1>. QED
    BY <1>1, <1>6, <1>7

\* A function handed over by runInLoop is not lost between the queue and the loop (EventLoop.cpp).
THEOREM NothingSentIsLost == ThreadSpec => []NothingIsLost
  <1>1. ThreadInit => ThreadIInv /\ SentInv
    BY ThreadInitInv, SentInitInv
  <1>2. (ThreadIInv /\ SentInv) /\ [ThreadNext]_allVars => (ThreadIInv /\ SentInv)'
    BY ThreadNextInv, SentNextInv
  <1>3. ThreadIInv /\ SentInv => NothingIsLost
    BY AllRanInTheEnd
  <1>. QED
    BY <1>1, <1>2, <1>3, PTL DEF ThreadSpec

-----------------------------------------------------------------------------
(* EventLoopThreadPool *)

\* Sets of threads are finite, and one of N threads has them all.
LEMMA FiniteThreads ==
  /\ IsFiniteSet(Thread) /\ Cardinality(Thread) = N
  /\ \A A \in SUBSET Thread : /\ IsFiniteSet(A) /\ Cardinality(A) \in 0..N
                              /\ Cardinality(A) = N => A = Thread
  <1>1. IsFiniteSet(Thread) /\ Cardinality(Thread) = N
    BY PoolAssumption, FS_Interval DEF Thread
  <1>2. ASSUME NEW A \in SUBSET Thread
        PROVE  /\ IsFiniteSet(A) /\ Cardinality(A) <= N
               /\ Cardinality(A) = N => A = Thread
    BY <1>1, FS_Subset
  <1>. QED
    BY <1>1, <1>2, FS_CardinalityType, PoolAssumption

LEMMA PoolInitInv == PoolInit => PoolIInv
  <1>. SUFFICES ASSUME PoolInit PROVE PoolIInv
    OBVIOUS
  <1>1. PoolTypeOK
    BY PoolAssumption DEF PoolInit, PoolTypeOK
  <1>2. Added = {} /\ Counted = {} /\ loops = <<>> /\ Range(loops) = {}
    BY DEF PoolInit, Added, Counted, Range
  <1>3. LoopsAreThreads /\ StartWaitsForAll
    BY <1>2, FS_EmptySet, PoolAssumption DEF PoolInit, LoopsAreThreads, StartWaitsForAll, Started, Thread
  <1>4. DeletedAreJoined
    BY PoolAssumption DEF PoolInit, DeletedAreJoined
  <1>. QED
    BY <1>1, <1>3, <1>4 DEF PoolIInv

\* A thread adds its loop: it is a new one, and the last.
LEMMA AddLoopInv ==
  ASSUME PoolIInv, NEW t \in Thread, AddLoop(t)
  PROVE  PoolIInv'
  <1>1. /\ threads \in [Thread -> {"none", "init", "locked", "notify", "loop", "ended", "joined"}]
        /\ threads[t] = "init" /\ threads' = [threads EXCEPT ![t] = "locked"]
        /\ loops \in Seq(Thread) /\ loops' = Append(loops, t)
        /\ UNCHANGED <<initSuc, stopped, user, index>>
    BY DEF PoolIInv, PoolTypeOK, AddLoop
  <1>2. PoolTypeOK'
    BY <1>1, AppendFacts DEF PoolIInv, PoolTypeOK
  <1>3. Added' = Added \cup {t} /\ t \notin Added /\ Counted' = Counted
    BY <1>1 DEF Added, Counted
  <1>4. /\ Len(loops') = Len(loops) + 1 /\ Len(loops) \in Nat
        /\ \A k \in 1..Len(loops) : loops'[k] = loops[k]
        /\ loops'[Len(loops) + 1] = t
        /\ \A k \in 1..Len(loops) : loops[k] \in Added
        /\ Range(loops) = Added
    BY <1>1, AppendProperties DEF PoolIInv, LoopsAreThreads, Range
  <1>5. LoopsAreThreads'
    <2>1. Range(loops') = Added'
      BY <1>3, <1>4, <1>1 DEF Range
    <2>2. Len(loops') = Cardinality(Added')
      <3>1. IsFiniteSet(Added) /\ Cardinality(Added) \in Nat
        BY FiniteThreads DEF Added
      <3>. QED
        BY <1>3, <1>4, <3>1, FS_AddElement DEF PoolIInv, LoopsAreThreads
    <2>3. \A a, b \in 1..Len(loops') : loops'[a] = loops'[b] => a = b
      BY <1>3, <1>4 DEF PoolIInv, LoopsAreThreads
    <2>. QED
      BY <2>1, <2>2, <2>3 DEF LoopsAreThreads
  <1>6. StartWaitsForAll' /\ user \notin {"stops", "joins", "gone"}
    BY <1>1, <1>3 DEF PoolIInv, StartWaitsForAll, Started, Counted, Added
  <1>7. DeletedAreJoined'
    BY <1>1, <1>6 DEF PoolIInv, DeletedAreJoined
  <1>. QED
    BY <1>2, <1>5, <1>6, <1>7 DEF PoolIInv

\* It counts itself.
LEMMA CountInv ==
  ASSUME PoolIInv, NEW t \in Thread, Count(t)
  PROVE  PoolIInv'
  <1>1. /\ threads \in [Thread -> {"none", "init", "locked", "notify", "loop", "ended", "joined"}]
        /\ threads[t] = "locked" /\ threads' = [threads EXCEPT ![t] = "notify"]
        /\ initSuc' = initSuc + 1
        /\ UNCHANGED <<loops, stopped, user, index>>
    BY DEF PoolIInv, PoolTypeOK, Count
  <1>2. /\ Added' = Added /\ t \notin Counted /\ Counted' = Counted \cup {t}
        /\ Counted \in SUBSET Thread /\ Counted' \in SUBSET Thread
    BY <1>1 DEF Added, Counted
  <1>3. Cardinality(Counted') = initSuc' /\ initSuc' \in 0..N
    BY <1>1, <1>2, FiniteThreads, FS_AddElement DEF PoolIInv, StartWaitsForAll
  <1>4. PoolTypeOK' /\ LoopsAreThreads'
    BY <1>1, <1>2, <1>3 DEF PoolIInv, PoolTypeOK, LoopsAreThreads
  <1>5. StartWaitsForAll' /\ user \notin {"stops", "joins", "gone"}
    BY <1>1, <1>2, <1>3 DEF PoolIInv, StartWaitsForAll, Started, Counted, Added
  <1>6. DeletedAreJoined'
    BY <1>1, <1>5 DEF PoolIInv, DeletedAreJoined
  <1>. QED
    BY <1>4, <1>5, <1>6 DEF PoolIInv

\* Steps that change neither Added nor Counted.
LEMMA NotifyAllInv ==
  ASSUME PoolIInv, NEW t \in Thread, NotifyAll(t)
  PROVE  PoolIInv'
  <1>1. /\ threads \in [Thread -> {"none", "init", "locked", "notify", "loop", "ended", "joined"}]
        /\ threads[t] = "notify" /\ threads' = [threads EXCEPT ![t] = "loop"]
        /\ user' = user \/ (user = "waits" /\ user' = "tests")
        /\ UNCHANGED <<loops, initSuc, stopped, index>>
    BY DEF PoolIInv, PoolTypeOK, NotifyAll
  <1>2. Added' = Added /\ Counted' = Counted
    BY <1>1 DEF Added, Counted
  <1>3. PoolTypeOK' /\ LoopsAreThreads'
    BY <1>1, <1>2 DEF PoolIInv, PoolTypeOK, LoopsAreThreads
  <1>4. StartWaitsForAll'
    BY <1>1, <1>2 DEF PoolIInv, StartWaitsForAll, Started
  <1>5. DeletedAreJoined'
    BY <1>1 DEF PoolIInv, DeletedAreJoined, Paired, StopsDone, Thread, PoolTypeOK
  <1>. QED
    BY <1>3, <1>4, <1>5 DEF PoolIInv

LEMMA RunEndsInv ==
  ASSUME PoolIInv, NEW t \in Thread, RunEnds(t)
  PROVE  PoolIInv'
  <1>1. /\ threads \in [Thread -> {"none", "init", "locked", "notify", "loop", "ended", "joined"}]
        /\ threads[t] = "loop" /\ threads' = [threads EXCEPT ![t] = "ended"] /\ t \in stopped
        /\ UNCHANGED <<loops, initSuc, stopped, user, index>>
    BY DEF PoolIInv, PoolTypeOK, RunEnds
  <1>2. Added' = Added /\ Counted' = Counted
    BY <1>1 DEF Added, Counted
  <1>3. PoolTypeOK' /\ LoopsAreThreads'
    BY <1>1, <1>2 DEF PoolIInv, PoolTypeOK, LoopsAreThreads
  <1>4. StartWaitsForAll'
    BY <1>1, <1>2 DEF PoolIInv, StartWaitsForAll, Started
  <1>5. DeletedAreJoined'
    BY <1>1 DEF PoolIInv, DeletedAreJoined, Paired, StopsDone, Thread, PoolTypeOK
  <1>. QED
    BY <1>3, <1>4, <1>5 DEF PoolIInv

LEMMA CreateInv ==
  ASSUME PoolIInv, Create
  PROVE  PoolIInv'
  <1>1. /\ threads \in [Thread -> {"none", "init", "locked", "notify", "loop", "ended", "joined"}]
        /\ user = "creates" /\ index \in Thread
        /\ threads' = [threads EXCEPT ![index] = "init"] /\ index' = index + 1
        /\ user' = (IF index = N THEN "tests" ELSE "creates")
        /\ UNCHANGED <<loops, initSuc, stopped>>
    BY PoolAssumption DEF PoolIInv, PoolTypeOK, DeletedAreJoined, Create, Thread
  <1>2. threads[index] = "none"
    BY <1>1, PoolAssumption DEF PoolIInv, StartWaitsForAll, Thread
  <1>3. Added' = Added /\ Counted' = Counted
    BY <1>1, <1>2 DEF Added, Counted
  <1>4. PoolTypeOK' /\ LoopsAreThreads'
    BY <1>1, <1>3, PoolAssumption DEF PoolIInv, PoolTypeOK, LoopsAreThreads, Thread
  <1>5. StartWaitsForAll'
    BY <1>1, <1>3, PoolAssumption DEF PoolIInv, StartWaitsForAll, Started, Thread
  <1>6. DeletedAreJoined'
    BY <1>1, PoolAssumption DEF PoolIInv, DeletedAreJoined, Thread
  <1>. QED
    BY <1>4, <1>5, <1>6 DEF PoolIInv

\* start() ends when all have been counted.
LEMMA TestInv ==
  ASSUME PoolIInv, Test \/ SpuriousWakeup
  PROVE  PoolIInv'
  <1>1. /\ user \in {"tests", "waits"} /\ user' \in {"started", "tests", "waits"}
        /\ user' = "started" => initSuc = N
        /\ UNCHANGED <<threads, loops, initSuc, stopped, index>>
    BY DEF Test, SpuriousWakeup
  <1>2. Added' = Added /\ Counted' = Counted
    BY <1>1 DEF Added, Counted
  <1>3. user' = "started" => Counted = Thread
    BY <1>1, FiniteThreads DEF PoolIInv, StartWaitsForAll, Counted, Added
  <1>4. PoolTypeOK' /\ LoopsAreThreads' /\ StartWaitsForAll' /\ DeletedAreJoined'
    BY <1>1, <1>2, <1>3
    DEF PoolIInv, PoolTypeOK, LoopsAreThreads, StartWaitsForAll, Started, DeletedAreJoined
  <1>. QED
    BY <1>4 DEF PoolIInv

LEMMA DestroyBeginInv ==
  ASSUME PoolIInv, DestroyBegin
  PROVE  PoolIInv'
  <1>1. /\ user = "started" /\ user' = "stops" /\ index' = 1
        /\ UNCHANGED <<threads, loops, initSuc, stopped>>
    BY DEF DestroyBegin
  <1>2. Added' = Added /\ Counted' = Counted
    BY <1>1 DEF Added, Counted
  <1>3. PoolTypeOK' /\ LoopsAreThreads' /\ StartWaitsForAll'
    BY <1>1, <1>2, PoolAssumption
    DEF PoolIInv, PoolTypeOK, LoopsAreThreads, StartWaitsForAll, Started
  <1>4. DeletedAreJoined'
    BY <1>1 DEF PoolIInv, DeletedAreJoined, StopsDone
  <1>. QED
    BY <1>3, <1>4 DEF PoolIInv

\* All loops are there when the destructor runs.
LEMMA AllLoops ==
  ASSUME PoolIInv, Started
  PROVE  Len(loops) = N /\ loops \in [1..N -> Thread]
  <1>1. Added = Thread
    BY DEF PoolIInv, StartWaitsForAll, Counted, Added
  <1>. QED
    BY <1>1, FiniteThreads DEF PoolIInv, PoolTypeOK, LoopsAreThreads

LEMMA StopLoopInv ==
  ASSUME PoolIInv, StopLoop
  PROVE  PoolIInv'
  <1>1. /\ user = "stops" /\ UNCHANGED <<threads, loops, initSuc, index>>
        /\ \/ /\ index <= Len(loops)
              /\ stopped' = stopped \cup {loops[index]} /\ user' = "joins"
           \/ index > Len(loops) /\ user' = "gone" /\ UNCHANGED stopped
    BY DEF StopLoop
  <1>2. /\ Len(loops) = N /\ loops \in [1..N -> Thread]
        /\ index \in 1..(N + 1) /\ N \in Nat /\ stopped \subseteq Thread
    BY <1>1, AllLoops, PoolAssumption DEF Started, PoolIInv, PoolTypeOK
  <1>3. Added' = Added /\ Counted' = Counted
    BY <1>1 DEF Added, Counted
  <1>4. PoolTypeOK' /\ LoopsAreThreads' /\ StartWaitsForAll'
    <2>1. stopped' \subseteq Thread /\ user' \in {"joins", "gone"}
      BY <1>1, <1>2
    <2>2. PoolTypeOK'
      BY <1>1, <2>1 DEF PoolIInv, PoolTypeOK
    <2>3. LoopsAreThreads'
      BY <1>1, <1>3 DEF PoolIInv, LoopsAreThreads
    <2>4. StartWaitsForAll'
      BY <1>1, <1>3, <2>1 DEF PoolIInv, StartWaitsForAll, Started
    <2>. QED
      BY <2>2, <2>3, <2>4
  <1>5. /\ \A k \in 1..(index - 1) : threads[k] = "joined" /\ loops[k] = k
        /\ stopped = {loops[k] : k \in 1..(index - 1)}
        /\ \A t \in Thread : /\ threads[t] = "joined" => t < index
                             /\ threads[t] = "ended" => t \in stopped
    BY <1>1 DEF PoolIInv, DeletedAreJoined, StopsDone
  <1>6. stopped' = {loops[k] : k \in 1..StopsDone'}
    <2>1. CASE user' = "joins"
      BY <1>1, <1>2, <1>5, <2>1 DEF StopsDone
    <2>2. CASE user' = "gone"
      BY <1>1, <1>5, <2>2 DEF StopsDone
    <2>. QED
      BY <1>1, <2>1, <2>2
  <1>7. DeletedAreJoined'
    BY <1>1, <1>2, <1>5, <1>6 DEF DeletedAreJoined, Paired
  <1>. QED
    BY <1>4, <1>7 DEF PoolIInv

\* The thread that is joined has ended, so that it is the one that was stopped last: the others
\* that were stopped have been joined.
LEMMA JoinThreadInv ==
  ASSUME PoolIInv, JoinThread
  PROVE  PoolIInv'
  <1>1. /\ threads \in [Thread -> {"none", "init", "locked", "notify", "loop", "ended", "joined"}]
        /\ user = "joins" /\ threads[index] = "ended"
        /\ threads' = [threads EXCEPT ![index] = "joined"]
        /\ index' = index + 1 /\ user' = "stops"
        /\ UNCHANGED <<loops, initSuc, stopped>>
    BY DEF JoinThread, PoolIInv, PoolTypeOK
  <1>2. /\ Len(loops) = N /\ loops \in [1..N -> Thread]
        /\ index \in Thread /\ N \in Nat /\ stopped \subseteq Thread
    BY <1>1, AllLoops, PoolAssumption DEF Started, PoolIInv, PoolTypeOK, DeletedAreJoined, Thread
  <1>3. Added' = Added /\ Counted' = Counted
    BY <1>1, <1>2 DEF Added, Counted
  <1>4. PoolTypeOK' /\ LoopsAreThreads' /\ StartWaitsForAll'
    <2>1. PoolTypeOK'
      BY <1>1, <1>2 DEF PoolIInv, PoolTypeOK, Thread
    <2>2. LoopsAreThreads'
      BY <1>1, <1>3 DEF PoolIInv, LoopsAreThreads
    <2>3. \A t \in Thread : threads'[t] = "none" <=> threads[t] = "none"
      BY <1>1, <1>2
    <2>4. StartWaitsForAll'
      BY <1>1, <1>3, <2>3 DEF PoolIInv, StartWaitsForAll, Started
    <2>. QED
      BY <2>1, <2>2, <2>4
  <1>5. /\ \A k \in 1..(index - 1) : threads[k] = "joined" /\ loops[k] = k
        /\ stopped = {loops[k] : k \in 1..index}
        /\ \A t \in Thread : /\ threads[t] = "joined" => t < index
                             /\ threads[t] = "ended" => t \in stopped
    BY <1>1 DEF PoolIInv, DeletedAreJoined, StopsDone
  <1>6. loops[index] = index
    <2>1. PICK k \in 1..index : loops[k] = index
      BY <1>1, <1>2, <1>5
    <2>2. ~(k \in 1..(index - 1))
      BY <1>1, <1>2, <1>5, <2>1 DEF Thread
    <2>. QED
      BY <1>2, <2>1, <2>2 DEF Thread
  <1>7. \A k \in 1..index : threads'[k] = "joined" /\ loops[k] = k
    BY <1>1, <1>2, <1>5, <1>6 DEF Thread
  <1>8. index' - 1 = index /\ index' \in Nat /\ StopsDone' = index
    BY <1>1, <1>2 DEF StopsDone, Thread
  <1>9. \A t \in Thread : /\ threads'[t] = "joined" => t < index'
                          /\ threads'[t] = "ended" => t \in stopped'
    <2>1. ASSUME NEW t \in Thread, t # index PROVE threads'[t] = threads[t]
      BY <1>1, <2>1
    <2>2. threads'[index] = "joined" /\ index < index'
      BY <1>1, <1>2 DEF Thread
    <2>3. \A t \in Thread : t < index => t < index'
      BY <1>1, <1>2 DEF Thread
    <2>. QED
      BY <1>1, <1>5, <2>1, <2>2, <2>3
  <1>10. DeletedAreJoined'
    BY <1>1, <1>5, <1>7, <1>8, <1>9 DEF DeletedAreJoined
  <1>. QED
    BY <1>4, <1>10 DEF PoolIInv

LEMMA PoolNextInv == PoolIInv /\ [PoolNext]_poolVars => PoolIInv'
  <1>. SUFFICES ASSUME PoolIInv, [PoolNext]_poolVars PROVE PoolIInv'
    OBVIOUS
  <1>1. CASE \E t \in Thread : Run(t)
    BY <1>1, AddLoopInv, CountInv, NotifyAllInv, RunEndsInv DEF Run
  <1>2. CASE Start \/ SpuriousWakeup \/ DestroyBegin \/ DestroyPool
    BY <1>2, CreateInv, TestInv, DestroyBeginInv, StopLoopInv, JoinThreadInv DEF Start, DestroyPool
  <1>3. CASE UNCHANGED poolVars
    <2>1. Added' = Added /\ Counted' = Counted /\ StopsDone' = StopsDone /\ Paired' = Paired
      BY <1>3 DEF poolVars, Added, Counted, StopsDone, Paired
    <2>2. PoolTypeOK' /\ LoopsAreThreads'
      BY <1>3, <2>1 DEF poolVars, PoolIInv, PoolTypeOK, LoopsAreThreads
    <2>3. StartWaitsForAll'
      BY <1>3, <2>1 DEF poolVars, PoolIInv, StartWaitsForAll, Started
    <2>4. DeletedAreJoined'
      BY <1>3, <2>1 DEF poolVars, PoolIInv, DeletedAreJoined
    <2>. QED
      BY <2>2, <2>3, <2>4 DEF PoolIInv
  <1>. QED
    BY <1>1, <1>2, <1>3 DEF PoolNext

\* The pool's invariant holds for any number of loops: what the destructor deletes is a loop whose
\* thread was joined, and init() gives up its waiting only for loops that run (EventLoopThreadPool).
THEOREM PoolInvariantHolds == PoolSpec => []PoolIInv
  BY PoolInitInv, PoolNextInv, PTL DEF PoolSpec
=============================================================================
