------------------------ MODULE TcpConnectionProofs ------------------------
(***************************************************************************)
(* Proofs about TcpConnection, for any number of threads and of sends.     *)
(***************************************************************************)
EXTENDS TcpConnection, SequenceTheorems, TLAPS

(***************************************************************************)
(* Queues: what Append and Tail do to the elements.                        *)
(***************************************************************************)
LEMMA AppendFacts ==
  ASSUME NEW S, NEW q \in Seq(S), NEW e \in S, NEW r, r = Append(q, e)
  PROVE  /\ r \in Seq(S)
         /\ Len(q) \in Nat /\ DOMAIN q = 1..Len(q)
         /\ DOMAIN r = 1..(Len(q) + 1)
         /\ \A i \in DOMAIN q : r[i] = q[i] /\ i \in DOMAIN r
         /\ r[Len(q) + 1] = e
  BY AppendProperties, LenProperties

LEMMA TailFacts ==
  ASSUME NEW S, NEW q \in Seq(S), q # <<>>
  PROVE  /\ Tail(q) \in Seq(S)
         /\ Head(q) \in S /\ Head(q) = q[1] /\ 1 \in DOMAIN q
         /\ DOMAIN q \subseteq Nat
         /\ \A i \in DOMAIN Tail(q) : i + 1 \in DOMAIN q /\ Tail(q)[i] = q[i + 1]
  <1>1. /\ Len(q) \in Nat \ {0} /\ DOMAIN q = 1..Len(q)
        /\ Tail(q) \in Seq(S) /\ Head(q) \in S
        /\ Len(Tail(q)) = Len(q) - 1
        /\ \A i \in 1..Len(Tail(q)) : Tail(q)[i] = q[i + 1]
    BY HeadTailProperties, LenProperties, EmptySeq
  <1>2. DOMAIN Tail(q) = 1..(Len(q) - 1)
    BY <1>1, LenProperties
  <1>3. Head(q) = q[1]
    BY <1>1
  <1>. QED
    BY <1>1, <1>2, <1>3

(***************************************************************************)
(* What the parts shared by several actions do.                            *)
(***************************************************************************)
LEMMA CallersFact == LoopThread \in Callers
  BY DEF Callers

\* uv_write appends the write to libuv's queue or leaves the queue alone.
LEMMA UvWriteType ==
  ASSUME TypeOK, NEW w \in Writes, UvWrite(w)
  PROVE  /\ pending' \in Seq(Writes)
         /\ wired' \in [Callers -> 0..MaxSends]
         /\ pending' = pending \/ (pending' = Append(pending, w) /\ handle = "open")
  <1>1. w[1] \in Callers /\ w[2] \in 0..MaxSends
    BY BoundAssumption DEF Writes
  <1>2. wired' \in [Callers -> 0..MaxSends]
    BY <1>1 DEF TypeOK, UvWrite
  <1>3. pending' = pending \/ (pending' = Append(pending, w) /\ handle = "open")
    BY DEF UvWrite
  <1>4. pending' \in Seq(Writes)
    BY <1>3, AppendFacts DEF TypeOK
  <1>. QED
    BY <1>2, <1>3, <1>4

\* An operation that ends the connection changes shutReq or handle only.
LEMMA PerformType ==
  ASSUME TypeOK, NEW op \in Closing, Perform(op)
  PROVE  /\ shutReq' \in {"none", "plain", "close"}
         /\ handle' \in {"open", "closing", "freed"}
  BY DEF TypeOK, Perform, Closing, UvShutdown, UvClose

LEMMA RunInLoopThreadType ==
  ASSUME TypeOK, NEW c \in Callers, NEW op \in Closing, RunInLoopThread(c, op)
  PROVE  /\ tasks' \in Seq(Tasks)
         /\ shutReq' \in {"none", "plain", "close"}
         /\ handle' \in {"open", "closing", "freed"}
  <1>1. CASE c = LoopThread
    BY <1>1, PerformType DEF RunInLoopThread, TypeOK
  <1>2. CASE c # LoopThread
    <2>1. [op |-> op] \in Tasks
      BY DEF Tasks, CloseTasks
    <2>2. tasks' \in Seq(Tasks)
      BY <1>2, <2>1, AppendFacts DEF RunInLoopThread, TypeOK
    <2>. QED
      BY <1>2, <2>2 DEF RunInLoopThread, TypeOK
  <1>. QED
    BY <1>1, <1>2

LEMMA UnreferencedType ==
  ASSUME TypeOK, NEW c \in Callers, Unreferenced(c)
  PROVE  /\ state' \in States
         /\ tasks' \in Seq(Tasks)
         /\ shutReq' \in {"none", "plain", "close"}
         /\ handle' \in {"open", "closing", "freed"}
  <1>1. CASE Alive'
    BY <1>1 DEF Unreferenced, TypeOK
  <1>2. CASE ~Alive'
    <2>1. Destruct(c)
      BY <1>2 DEF Unreferenced
    <2>2. (IF state = "CLOSE_WAIT" THEN "shutdownWrite" ELSE "uv_close") \in Closing
      BY DEF Closing
    <2>. QED
      BY <2>1, <2>2, RunInLoopThreadType DEF Destruct, States
  <1>. QED
    BY <1>1, <1>2

LEMMA DeleteContextType ==
  ASSUME TypeOK, pending # <<>>, DeleteContext
  PROVE  /\ state' \in States
         /\ tasks' \in Seq(Tasks)
         /\ shutReq' \in {"none", "plain", "close"}
         /\ handle' \in {"open", "closing", "freed"}
         /\ ctx' \subseteq Writes
         /\ pending' \in Seq(Writes)
  <1>1. pending' \in Seq(Writes)
    BY TailFacts DEF DeleteContext, TypeOK
  <1>2. ctx' \subseteq Writes
    BY DEF DeleteContext, TypeOK
  <1>3. Unreferenced(LoopThread)
    BY DEF DeleteContext
  <1>. QED
    BY <1>1, <1>2, <1>3, UnreferencedType, CallersFact

(***************************************************************************)
(* Type correctness.                                                       *)
(***************************************************************************)

LEMMA TypeInit == Init => TypeOK /\ WriteAtHead
  <1>1. /\ <<>> \in Seq(Tasks) /\ <<>> \in Seq(Writes)
        /\ 0 \in 0..MaxSends
    BY BoundAssumption
  <1>. QED
    BY <1>1 DEF Init, TypeOK, WriteAtHead, States, Frames, PcValues

LEMMA CallerType ==
  ASSUME TypeOK, WriteAtHead, NEW c \in Callers, Caller(c)
  PROVE  TypeOK' /\ WriteAtHead'
  <1>1. CASE Send(c)
    <2>. DEFINE w == <<c, sent[c] + 1>>
                t == [op |-> "uv_write", w |-> w]
    <2>1. /\ w \in Writes
          /\ sent' \in [Callers -> 0..MaxSends]
      BY <1>1, BoundAssumption DEF Send, SendWrite, TypeOK, Writes
    <2>2. ctx' \subseteq Writes
      BY <1>1, <2>1 DEF Send, SendWrite, TypeOK
    <2>3. t \in Tasks
      BY <2>1 DEF Tasks, WriteTasks
    <2>4. CASE c = LoopThread
      <3>1. UvWrite(w) /\ UNCHANGED tasks
        BY <1>1, <2>4 DEF Send, SendWrite
      <3>2. pending' \in Seq(Writes) /\ wired' \in [Callers -> 0..MaxSends]
            /\ (pending' = pending \/ pending' = Append(pending, w))
        BY <2>1, <3>1, UvWriteType
      <3>3. pending' # <<>> \/ frame # "writeComplete"
        BY <2>1, <3>2, AppendProperties DEF TypeOK, WriteAtHead
      <3>. QED
        BY <1>1, <2>1, <2>2, <3>1, <3>2, <3>3 DEF Send, SendWrite, TypeOK, WriteAtHead
    <2>5. CASE c # LoopThread
      <3>1. tasks' = Append(tasks, t) /\ UNCHANGED <<pending, wired>>
        BY <1>1, <2>5 DEF Send, SendWrite
      <3>2. tasks' \in Seq(Tasks)
        BY <2>3, <3>1, AppendFacts DEF TypeOK
      <3>. QED
        BY <1>1, <2>1, <2>2, <3>1, <3>2 DEF Send, SendWrite, TypeOK, WriteAtHead
    <2>. QED
      BY <2>4, <2>5
  <1>2. CASE ShutdownCheck(c)
    BY <1>2 DEF ShutdownCheck, uvVars, histVars, TypeOK, WriteAtHead, PcValues
  <1>3. CASE ShutdownSet(c)
    <2>1. "uv_shutdown" \in Closing /\ RunInLoopThread(c, "uv_shutdown")
      BY <1>3 DEF ShutdownSet, Closing
    <2>2. /\ tasks' \in Seq(Tasks)
          /\ shutReq' \in {"none", "plain", "close"}
          /\ handle' \in {"open", "closing", "freed"}
      BY <2>1, RunInLoopThreadType
    <2>3. pc' \in [Callers -> PcValues] /\ state' \in States
      BY <1>3 DEF ShutdownSet, TypeOK, PcValues, States
    <2>. QED
      BY <1>3, <2>2, <2>3 DEF ShutdownSet, TypeOK, WriteAtHead
  <1>4. CASE Share(c)
    BY <1>4 DEF Share, uvVars, histVars, TypeOK, WriteAtHead
  <1>5. CASE Release(c)
    <2>1. Unreferenced(c)
      BY <1>5 DEF Release
    <2>. QED
      BY <1>5, <2>1, UnreferencedType DEF Release, histVars, TypeOK, WriteAtHead
  <1>6. CASE ClientDestroy(c)
    BY <1>6 DEF ClientDestroy, uvVars, histVars, TypeOK, WriteAtHead, PcValues
  <1>7. CASE ClientDrop(c)
    <2>1. Unreferenced(c)
      BY <1>7 DEF ClientDrop
    <2>2. pc' \in [Callers -> PcValues]
      BY <1>7 DEF ClientDrop, TypeOK, PcValues
    <2>. QED
      BY <1>7, <2>1, <2>2, UnreferencedType DEF ClientDrop, histVars, TypeOK, WriteAtHead
  <1>. QED
    BY <1>1, <1>2, <1>3, <1>4, <1>5, <1>6, <1>7 DEF Caller

LEMMA LoopType ==
  ASSUME TypeOK, WriteAtHead, Loop
  PROVE  TypeOK' /\ WriteAtHead'
  <1>1. CASE RunTask
    <2>1. /\ tasks # <<>> /\ tasks' = Tail(tasks) /\ frame = "idle"
          /\ frame' = frame
      BY <1>1 DEF RunTask, LoopIdle, connVars
    <2>2. Head(tasks) \in Tasks /\ tasks' \in Seq(Tasks)
      BY <2>1, TailFacts DEF TypeOK
    <2>3. CASE Head(tasks).op = "uv_write"
      <3>1. Head(tasks).w \in Writes
        BY <2>2, <2>3 DEF Tasks, WriteTasks, CloseTasks, Closing
      <3>2. pending' \in Seq(Writes) /\ wired' \in [Callers -> 0..MaxSends]
        BY <1>1, <2>3, <3>1, UvWriteType DEF RunTask
      <3>. QED
        BY <1>1, <2>1, <2>2, <2>3, <3>2 DEF RunTask, connVars, TypeOK, WriteAtHead
    <2>4. CASE Head(tasks).op # "uv_write"
      <3>1. Head(tasks).op \in Closing
        BY <2>2, <2>4 DEF Tasks, WriteTasks, CloseTasks
      <3>2. /\ shutReq' \in {"none", "plain", "close"}
            /\ handle' \in {"open", "closing", "freed"}
        BY <1>1, <2>4, <3>1, PerformType DEF RunTask
      <3>. QED
        BY <1>1, <2>1, <2>2, <2>4, <3>2 DEF RunTask, connVars, TypeOK, WriteAtHead
    <2>. QED
      BY <2>3, <2>4
  <1>2. CASE CallbackBegin
    BY <1>2 DEF CallbackBegin, uvVars, histVars, TypeOK, WriteAtHead, Frames
  <1>3. CASE CallbackEnd
    <2>1. Unreferenced(LoopThread)
      BY <1>3 DEF CallbackEnd
    <2>. QED
      BY <1>3, <2>1, UnreferencedType, CallersFact
      DEF CallbackEnd, histVars, TypeOK, WriteAtHead, Frames
  <1>4. CASE EofRead
    BY <1>4 DEF EofRead, uvVars, histVars, TypeOK, WriteAtHead, Frames
  <1>5. CASE EofWrite
    BY <1>5 DEF EofWrite, uvVars, histVars, TypeOK, WriteAtHead, Frames, States
  <1>6. CASE EofEnd
    <2>1. Unreferenced(LoopThread)
      BY <1>6 DEF EofEnd
    <2>. QED
      BY <1>6, <2>1, UnreferencedType, CallersFact, RoleAssumption
      DEF EofEnd, histVars, TypeOK, WriteAtHead, Frames
  <1>7. CASE ReadError
    BY <1>7 DEF ReadError, connVars, histVars, TypeOK, WriteAtHead
  <1>8. CASE WriteDone
    BY <1>8 DEF WriteDone, uvVars, histVars, TypeOK, WriteAtHead, Frames
  <1>9. CASE WriteEnd
    <2>1. pending # <<>> /\ DeleteContext
      BY <1>9 DEF WriteEnd, WriteAtHead
    <2>. QED
      BY <1>9, <2>1, DeleteContextType
      DEF WriteEnd, DeleteContext, histVars, TypeOK, WriteAtHead, Frames
  <1>10. CASE WriteFailed
    <2>1. pending # <<>> /\ DeleteContext /\ frame = "idle" /\ UNCHANGED frame
      BY <1>10 DEF WriteFailed, LoopIdle
    <2>. QED
      BY <2>1, DeleteContextType
      DEF DeleteContext, histVars, TypeOK, WriteAtHead
  <1>11. CASE ShutdownCompleted
    BY <1>11 DEF ShutdownCompleted, connVars, histVars, TypeOK, WriteAtHead
  <1>12. CASE CloseCompleted
    BY <1>12 DEF CloseCompleted, connVars, histVars, TypeOK, WriteAtHead
  <1>. QED
    BY <1>1, <1>2, <1>3, <1>4, <1>5, <1>6, <1>7, <1>8, <1>9, <1>10, <1>11, <1>12
    DEF Loop

\* Every variable keeps its type, whatever the threads, the loop and the peer do.
THEOREM TypeCorrect == Spec => [](TypeOK /\ WriteAtHead)
  <1>1. Init => TypeOK /\ WriteAtHead
    BY TypeInit
  <1>2. TypeOK /\ WriteAtHead /\ [Next]_vars => TypeOK' /\ WriteAtHead'
    <2>. SUFFICES ASSUME TypeOK, WriteAtHead, [Next]_vars
                  PROVE  TypeOK' /\ WriteAtHead'
      OBVIOUS
    <2>1. CASE \E c \in Callers : Caller(c)
      BY <2>1, CallerType
    <2>2. CASE Loop
      BY <2>2, LoopType
    <2>3. CASE PeerClose
      BY <2>3 DEF PeerClose, connVars, uvVars, histVars, TypeOK, WriteAtHead
    <2>4. CASE PeerReset
      BY <2>4 DEF PeerReset, connVars, uvVars, histVars, TypeOK, WriteAtHead
    <2>5. CASE UNCHANGED vars
      BY <2>5 DEF vars, connVars, uvVars, histVars, TypeOK, WriteAtHead
    <2>. QED
      BY <2>1, <2>2, <2>3, <2>4, <2>5 DEF Next
  <1>. QED
    BY <1>1, <1>2, PTL DEF Spec

(***************************************************************************)
(* Closing.  CloseInv only depends on Alive, tasks, shutReq and handle; one *)
(* lemma for each way in which a step changes them.                         *)
(***************************************************************************)
CloseInv == HandleOutlivesConnection /\ ClosesOnce

\* A step that posts, performs and completes nothing.
LEMMA CloseInvUnchanged ==
  ASSUME CloseInv, UNCHANGED <<tasks, shutReq, handle>>, Alive' => Alive
  PROVE  CloseInv'
  BY DEF CloseInv, HandleOutlivesConnection, ClosesOnce, PostedClosers, IsCloser

\* A step that posts an operation which does not close.
LEMMA CloseInvPosted ==
  ASSUME TypeOK, CloseInv, NEW t \in Tasks, ~IsCloser(t),
         tasks' = Append(tasks, t), UNCHANGED <<shutReq, handle>>, Alive' => Alive
  PROVE  CloseInv'
  <1>1. PostedClosers' = PostedClosers
    <2>1. /\ DOMAIN tasks' = 1..(Len(tasks) + 1) /\ DOMAIN tasks = 1..Len(tasks)
          /\ Len(tasks) \in Nat
          /\ \A i \in DOMAIN tasks : tasks'[i] = tasks[i]
          /\ tasks'[Len(tasks) + 1] = t
      BY AppendFacts DEF TypeOK
    <2>2. \A i \in DOMAIN tasks' : i \in DOMAIN tasks \/ i = Len(tasks) + 1
      BY <2>1
    <2>3. DOMAIN tasks \subseteq DOMAIN tasks'
      BY <2>1
    <2>. QED
      BY <2>1, <2>2, <2>3 DEF PostedClosers, IsCloser
  <1>. QED
    BY <1>1 DEF CloseInv, HandleOutlivesConnection, ClosesOnce

\* A step that takes the oldest task, and changes at most what Perform says.
LEMMA CloseInvTaken ==
  ASSUME TypeOK, CloseInv, tasks # <<>>, tasks' = Tail(tasks), Alive' <=> Alive,
         IF Head(tasks).op = "uv_write" THEN UNCHANGED <<shutReq, handle>>
                                        ELSE Perform(Head(tasks).op)
  PROVE  CloseInv'
  <1>1. /\ Head(tasks) \in Tasks /\ Head(tasks) = tasks[1] /\ 1 \in DOMAIN tasks
        /\ DOMAIN tasks \subseteq Nat
        /\ \A i \in DOMAIN tasks' : i + 1 \in DOMAIN tasks /\ tasks'[i] = tasks[i + 1]
    BY TailFacts DEF TypeOK
  <1>2. DOMAIN tasks' \subseteq Nat \ {0}
    <2>1. DOMAIN tasks' = 1..Len(tasks') /\ Len(tasks') \in Nat
      BY LenProperties, TailFacts DEF TypeOK
    <2>. QED
      BY <2>1
  <1>3. \A i \in PostedClosers' : i \in Nat \ {0} /\ i + 1 \in PostedClosers
    BY <1>1, <1>2 DEF PostedClosers, IsCloser
  <1>4. \A i, j \in PostedClosers' : i = j
    BY <1>3 DEF CloseInv, ClosesOnce
  <1>5. CASE IsCloser(Head(tasks))
    <2>1. 1 \in PostedClosers
      BY <1>1, <1>5 DEF PostedClosers
    <2>2. PostedClosers' = {} /\ ~Alive /\ handle = "open" /\ shutReq # "close"
      BY <1>3, <2>1 DEF CloseInv, ClosesOnce, HandleOutlivesConnection
    <2>3. CASE Head(tasks).op = "uv_close"
      BY <2>2, <2>3
      DEF Perform, UvClose, CloseInv, ClosesOnce, HandleOutlivesConnection
    <2>4. CASE Head(tasks).op = "shutdownWrite"
      BY <2>2, <2>4
      DEF Perform, UvShutdown, CloseInv, ClosesOnce, HandleOutlivesConnection
    <2>. QED
      BY <1>5, <2>3, <2>4 DEF IsCloser
  <1>6. CASE ~IsCloser(Head(tasks))
    <2>1. Head(tasks).op \in {"uv_write", "uv_shutdown"}
      BY <1>1, <1>6 DEF IsCloser, Tasks, WriteTasks, CloseTasks, Closing
    <2>2. UNCHANGED handle /\ (shutReq' = shutReq \/ shutReq' = "plain")
      BY <2>1 DEF Perform, UvShutdown
    <2>3. PostedClosers' # {} => PostedClosers # {}
      BY <1>3
    <2>. QED
      BY <1>4, <2>2, <2>3 DEF CloseInv, ClosesOnce, HandleOutlivesConnection
  <1>. QED
    BY <1>5, <1>6

\* A step in which a holder gives up its reference, perhaps the last.
LEMMA CloseInvUnreferenced ==
  ASSUME TypeOK, CloseInv, Alive, NEW c \in Callers, Unreferenced(c)
  PROVE  CloseInv'
  <1>1. CASE Alive'
    BY <1>1, CloseInvUnchanged DEF Unreferenced
  <1>2. CASE ~Alive'
    <2>. DEFINE op == IF state = "CLOSE_WAIT" THEN "shutdownWrite" ELSE "uv_close"
    <2>1. RunInLoopThread(c, op)
      BY <1>2 DEF Unreferenced, Destruct
    <2>2. PostedClosers = {} /\ shutReq # "close" /\ handle = "open"
      BY DEF CloseInv, HandleOutlivesConnection
    <2>3. CASE c = LoopThread
      <3>1. Perform(op) /\ UNCHANGED tasks
        BY <2>1, <2>3 DEF RunInLoopThread
      <3>2. PostedClosers' = {}
        BY <2>2, <3>1 DEF PostedClosers, IsCloser
      <3>3. CASE state = "CLOSE_WAIT"
        BY <1>2, <2>2, <3>1, <3>2, <3>3
        DEF Perform, UvShutdown, CloseInv, ClosesOnce, HandleOutlivesConnection
      <3>4. CASE state # "CLOSE_WAIT"
        BY <1>2, <2>2, <3>1, <3>2, <3>4
        DEF Perform, UvClose, CloseInv, ClosesOnce, HandleOutlivesConnection
      <3>. QED
        BY <3>3, <3>4
    <2>4. CASE c # LoopThread
      <3>1. tasks' = Append(tasks, [op |-> op]) /\ UNCHANGED <<shutReq, handle>>
        BY <2>1, <2>4 DEF RunInLoopThread
      <3>2. [op |-> op] \in Tasks
        BY DEF Tasks, CloseTasks, Closing
      <3>3. /\ DOMAIN tasks' = 1..(Len(tasks) + 1) /\ DOMAIN tasks = 1..Len(tasks)
            /\ Len(tasks) \in Nat
            /\ \A i \in DOMAIN tasks : tasks'[i] = tasks[i]
        BY <3>1, <3>2, AppendFacts DEF TypeOK
      <3>4. PostedClosers' \subseteq {Len(tasks) + 1}
        BY <2>2, <3>3 DEF PostedClosers, IsCloser
      <3>. QED
        BY <1>2, <2>2, <3>1, <3>4 DEF CloseInv, ClosesOnce, HandleOutlivesConnection
    <2>. QED
      BY <2>3, <2>4
  <1>. QED
    BY <1>1, <1>2

(***************************************************************************)
(* Writes.  WriteInv depends on pending, tasks, ctx, wired and sent.       *)
(***************************************************************************)
WriteInv == QueuedWritesHaveContext /\ WritesNumbered

\* The tasks that are writes, and their places, are the same before and after.
SameWriteTasks ==
    /\ \A i \in DOMAIN tasks : i \in DOMAIN tasks' /\ tasks'[i] = tasks[i]
    /\ \A i \in DOMAIN tasks' : i \in DOMAIN tasks \/ tasks'[i].op # "uv_write"

LEMMA PostedKeepsWrites ==
  ASSUME TypeOK, NEW c \in Callers, NEW op \in Closing, RunInLoopThread(c, op)
  PROVE  SameWriteTasks
  <1>1. CASE c = LoopThread
    BY <1>1 DEF RunInLoopThread, SameWriteTasks
  <1>2. CASE c # LoopThread
    <2>1. tasks' = Append(tasks, [op |-> op]) /\ [op |-> op] \in Tasks
      BY <1>2 DEF RunInLoopThread, Tasks, CloseTasks
    <2>2. /\ DOMAIN tasks' = 1..(Len(tasks) + 1) /\ DOMAIN tasks = 1..Len(tasks)
          /\ Len(tasks) \in Nat
          /\ \A i \in DOMAIN tasks : tasks'[i] = tasks[i] /\ i \in DOMAIN tasks'
          /\ tasks'[Len(tasks) + 1] = [op |-> op]
      BY <2>1, AppendFacts DEF TypeOK
    <2>3. \A i \in DOMAIN tasks' : i \in DOMAIN tasks \/ i = Len(tasks) + 1
      BY <2>2
    <2>4. op # "uv_write"
      BY DEF Closing
    <2>. QED
      BY <2>2, <2>3, <2>4 DEF SameWriteTasks
  <1>. QED
    BY <1>1, <1>2

LEMMA UnreferencedKeepsWrites ==
  ASSUME TypeOK, NEW c \in Callers, Unreferenced(c)
  PROVE  SameWriteTasks
  <1>1. CASE Alive'
    BY <1>1 DEF Unreferenced, SameWriteTasks
  <1>2. CASE ~Alive'
    <2>1. (IF state = "CLOSE_WAIT" THEN "shutdownWrite" ELSE "uv_close") \in Closing
      BY DEF Closing
    <2>. QED
      BY <1>2, <2>1, PostedKeepsWrites DEF Unreferenced, Destruct
  <1>. QED
    BY <1>1, <1>2

\* A step that leaves every write where it is.
LEMMA WriteInvUnchanged ==
  ASSUME WriteInv, SameWriteTasks, UNCHANGED <<pending, ctx, wired, sent>>
  PROVE  WriteInv'
  BY DEF WriteInv, SameWriteTasks, QueuedWritesHaveContext, WritesNumbered, IsWriteOf

\* A write that libuv has answered leaves its queue, and its context goes.
LEMMA WriteInvDeleted ==
  ASSUME TypeOK, WriteInv, SameWriteTasks, UNCHANGED <<wired, sent>>, pending # <<>>,
         pending' = Tail(pending), ctx' = ctx \ {Head(pending)}
  PROVE  WriteInv'
  <1>1. /\ Head(pending) \in Writes /\ Head(pending) = pending[1] /\ 1 \in DOMAIN pending
        /\ DOMAIN pending \subseteq Nat
        /\ \A i \in DOMAIN pending' : i + 1 \in DOMAIN pending
                                     /\ pending'[i] = pending[i + 1]
    BY TailFacts DEF TypeOK
  <1>2. DOMAIN pending' \subseteq Nat \ {0}
    <2>1. DOMAIN pending' = 1..Len(pending') /\ Len(pending') \in Nat
      BY LenProperties, TailFacts DEF TypeOK
    <2>. QED
      BY <2>1
  <1>3. \A i \in DOMAIN pending' : pending'[i] \in ctx'
    <2>. SUFFICES ASSUME NEW i \in DOMAIN pending' PROVE pending'[i] \in ctx'
      OBVIOUS
    <2>1. i + 1 \in DOMAIN pending /\ i + 1 # 1 /\ pending'[i] = pending[i + 1]
      BY <1>1, <1>2
    <2>2. pending[i + 1] # pending[1]
      BY <1>1, <2>1 DEF WriteInv, WritesNumbered
    <2>. QED
      BY <1>1, <2>1, <2>2 DEF WriteInv, QueuedWritesHaveContext
  <1>4. \A i \in DOMAIN tasks' : tasks'[i].op = "uv_write" => tasks'[i].w \in ctx'
    <2>. SUFFICES ASSUME NEW i \in DOMAIN tasks', tasks'[i].op = "uv_write"
                  PROVE  tasks'[i].w \in ctx'
      OBVIOUS
    <2>1. i \in DOMAIN tasks /\ tasks'[i] = tasks[i] /\ tasks[i].w \in ctx
      BY DEF SameWriteTasks, WriteInv, QueuedWritesHaveContext
    <2>. DEFINE c == tasks[i].w[1]
    <2>2. tasks[i].w \in Writes /\ c \in Callers /\ tasks[i].w[2] \in Nat
      BY <2>1, BoundAssumption DEF TypeOK, Writes
    <2>3. wired[c] < tasks[i].w[2]
      BY <2>1, <2>2 DEF WriteInv, WritesNumbered, IsWriteOf
    <2>4. pending[1][2] <= wired[pending[1][1]]
      BY <1>1 DEF WriteInv, WritesNumbered
    <2>5. wired[c] \in Nat
      BY <2>2, BoundAssumption DEF TypeOK
    <2>6. tasks[i].w # pending[1]
      BY <2>2, <2>3, <2>4, <2>5
    <2>. QED
      BY <1>1, <2>1, <2>6
  <1>5. WritesNumbered'
    <2>1. \A i \in DOMAIN pending' : pending'[i][2] <= wired'[pending'[i][1]]
      BY <1>1 DEF WriteInv, WritesNumbered
    <2>2. \A i, j \in DOMAIN pending' : pending'[i] = pending'[j] => i = j
      <3>. SUFFICES ASSUME NEW i \in DOMAIN pending', NEW j \in DOMAIN pending',
                           pending'[i] = pending'[j]
                    PROVE  i = j
        OBVIOUS
      <3>1. i + 1 = j + 1
        BY <1>1 DEF WriteInv, WritesNumbered
      <3>. QED
        BY <1>2, <3>1
    <2>. QED
      BY <2>1, <2>2 DEF WriteInv, WritesNumbered, SameWriteTasks, IsWriteOf
  <1>. QED
    BY <1>3, <1>4, <1>5 DEF WriteInv, QueuedWritesHaveContext

\* What uv_write does to libuv's own queue, given the next write of c.
LEMMA UvWriteKeepsPending ==
  ASSUME TypeOK, WriteInv, NEW c \in Callers, NEW n \in 1..MaxSends,
         n = wired[c] + 1, UvWrite(<<c, n>>), ctx \subseteq ctx', <<c, n>> \in ctx'
  PROVE  /\ wired' = [wired EXCEPT ![c] = n]
         /\ \A i \in DOMAIN pending' : pending'[i] \in ctx'
         /\ \A i \in DOMAIN pending' : pending'[i][2] <= wired'[pending'[i][1]]
         /\ \A i, j \in DOMAIN pending' : pending'[i] = pending'[j] => i = j
  <1>. DEFINE w == <<c, n>>
  <1>1. w \in Writes /\ w[1] = c /\ w[2] = n
    BY DEF Writes
  <1>2. wired' = [wired EXCEPT ![c] = n]
    BY <1>1 DEF UvWrite
  <1>3. /\ wired[c] \in Nat /\ wired'[c] = n
        /\ \A d \in Callers : /\ wired[d] \in Nat /\ wired'[d] \in Nat
                             /\ wired[d] <= wired'[d]
    BY <1>2, BoundAssumption DEF TypeOK
  <1>4. \A i \in DOMAIN pending : /\ pending[i] \in ctx'
                                /\ pending[i] # w
                                /\ pending[i][2] <= wired'[pending[i][1]]
    <2>. SUFFICES ASSUME NEW i \in DOMAIN pending
                  PROVE  /\ pending[i] \in ctx'
                         /\ pending[i] # w
                         /\ pending[i][2] <= wired'[pending[i][1]]
      OBVIOUS
    <2>1. pending[i] \in ctx /\ pending[i][2] <= wired[pending[i][1]]
      BY DEF WriteInv, QueuedWritesHaveContext, WritesNumbered
    <2>2. pending[i][1] \in Callers /\ pending[i][2] \in Nat
      BY <2>1, BoundAssumption DEF TypeOK, Writes
    <2>3. pending[i] # w
      BY <1>1, <1>3, <2>1
    <2>4. pending[i][2] <= wired'[pending[i][1]]
      BY <1>3, <2>1, <2>2
    <2>. QED
      BY <2>1, <2>3, <2>4
  <1>5. CASE pending' = pending
    BY <1>2, <1>4, <1>5 DEF WriteInv, WritesNumbered
  <1>6. CASE pending' = Append(pending, w)
    <2>1. /\ DOMAIN pending' = 1..(Len(pending) + 1) /\ DOMAIN pending = 1..Len(pending)
          /\ Len(pending) \in Nat
          /\ \A i \in DOMAIN pending : pending'[i] = pending[i]
          /\ pending'[Len(pending) + 1] = w
      BY <1>1, <1>6, AppendFacts DEF TypeOK
    <2>2. \A i \in DOMAIN pending' : i \in DOMAIN pending \/ i = Len(pending) + 1
      BY <2>1
    <2>3. n \in Nat /\ n <= wired'[c]
      BY <1>3
    <2>. QED
      BY <1>1, <1>2, <1>4, <2>1, <2>2, <2>3 DEF WriteInv, WritesNumbered
  <1>. QED
    BY <1>1, <1>5, <1>6, UvWriteType

\* send() in the thread of the loop: nothing of its own is waiting in tasks.
LEMMA LoopSendWriteInv ==
  ASSUME TypeOK, WriteInv, Send(LoopThread)
  PROVE  WriteInv' /\ wired' = [wired EXCEPT ![LoopThread] = wired[LoopThread] + 1]
  <1>. DEFINE c == LoopThread
              n == sent[c] + 1
  <1>1. /\ c \in Callers /\ n \in 1..MaxSends
        /\ sent' = [sent EXCEPT ![c] = n] /\ ctx' = ctx \cup {<<c, n>>}
        /\ UvWrite(<<c, n>>) /\ tasks' = tasks
    BY CallersFact, BoundAssumption DEF Send, SendWrite, TypeOK
  <1>2. sent[c] = wired[c]
    <2>1. wired[c] \in Nat /\ sent[c] \in 0..MaxSends /\ wired[c] <= sent[c]
      BY <1>1, BoundAssumption DEF TypeOK, WriteInv, WritesNumbered
    <2>2. wired[c] < sent[c] => sent[c] \in 1..MaxSends
      BY <2>1, BoundAssumption
    <2>3. ~(wired[c] < sent[c])
      BY <1>1, <2>2 DEF WriteInv, WritesNumbered
    <2>. QED
      BY <2>1, <2>3
  <1>3. /\ wired' = [wired EXCEPT ![c] = n]
        /\ \A i \in DOMAIN pending' : pending'[i] \in ctx'
        /\ \A i \in DOMAIN pending' : pending'[i][2] <= wired'[pending'[i][1]]
        /\ \A i, j \in DOMAIN pending' : pending'[i] = pending'[j] => i = j
    BY <1>1, <1>2, UvWriteKeepsPending
  <1>4. \A d \in Callers : d # c => wired'[d] = wired[d] /\ sent'[d] = sent[d]
    BY <1>1, <1>3 DEF TypeOK
  <1>5. wired'[c] = n /\ sent'[c] = n /\ n \in Nat
    BY <1>1, <1>3 DEF TypeOK
  <1>6. QueuedWritesHaveContext'
    BY <1>1, <1>3 DEF WriteInv, QueuedWritesHaveContext
  <1>7. WritesNumbered'
    <2>1. \A d \in Callers, i \in DOMAIN tasks : IsWriteOf(tasks[i], d) => d # c
      BY DEF WriteInv, WritesNumbered
    <2>2. \A d \in Callers : wired'[d] <= sent'[d]
      BY <1>4, <1>5 DEF WriteInv, WritesNumbered
    <2>3. \A m \in 1..MaxSends : ~(wired'[c] < m /\ m <= sent'[c])
      BY <1>5
    <2>. QED
      BY <1>1, <1>3, <1>4, <2>1, <2>2, <2>3 DEF WriteInv, WritesNumbered, IsWriteOf
  <1>. QED
    BY <1>2, <1>3, <1>6, <1>7 DEF WriteInv

\* send() in another thread: the write goes behind those of the same thread.
LEMMA ThreadSendWriteInv ==
  ASSUME TypeOK, WriteInv, NEW c \in Callers, c # LoopThread, Send(c)
  PROVE  WriteInv' /\ wired' = wired
  <1>. DEFINE n == sent[c] + 1
              t == [op |-> "uv_write", w |-> <<c, n>>]
  <1>1. /\ n \in 1..MaxSends /\ sent[c] \in Nat
        /\ sent' = [sent EXCEPT ![c] = n] /\ ctx' = ctx \cup {<<c, n>>}
        /\ tasks' = Append(tasks, t) /\ UNCHANGED <<pending, wired>>
    BY BoundAssumption DEF Send, SendWrite, TypeOK
  <1>2. t \in Tasks /\ t.op = "uv_write" /\ t.w = <<c, n>> /\ t.w[1] = c /\ t.w[2] = n
    BY <1>1 DEF Tasks, WriteTasks, Writes
  <1>3. /\ DOMAIN tasks' = 1..(Len(tasks) + 1) /\ DOMAIN tasks = 1..Len(tasks)
        /\ Len(tasks) \in Nat
        /\ \A i \in DOMAIN tasks : tasks'[i] = tasks[i] /\ i \in DOMAIN tasks'
        /\ tasks'[Len(tasks) + 1] = t
    BY <1>1, <1>2, AppendFacts DEF TypeOK
  <1>4. \A i \in DOMAIN tasks' : i \in DOMAIN tasks \/ i = Len(tasks) + 1
    BY <1>3
  <1>5. QueuedWritesHaveContext'
    BY <1>1, <1>2, <1>3, <1>4 DEF WriteInv, QueuedWritesHaveContext
  <1>6. \A d \in Callers : wired[d] \in Nat /\ sent[d] \in Nat /\ sent[d] <= sent'[d]
                         /\ sent'[d] \in Nat
                         /\ (d # c => sent'[d] = sent[d])
    BY <1>1, BoundAssumption DEF TypeOK
  <1>7. sent'[c] = n
    BY <1>1 DEF TypeOK
  <1>8. \A d \in Callers, i \in DOMAIN tasks : IsWriteOf(tasks[i], d) =>
          /\ d # LoopThread /\ wired[d] < tasks[i].w[2] /\ tasks[i].w[2] <= sent[d]
          /\ tasks[i].w[2] \in Nat
    <2>1. \A i \in DOMAIN tasks : tasks[i].op = "uv_write" => tasks[i].w \in Writes
      BY DEF TypeOK, WriteInv, QueuedWritesHaveContext
    <2>. QED
      BY <2>1, BoundAssumption DEF WriteInv, WritesNumbered, IsWriteOf, Writes
  <1>9. IsWriteOf(tasks'[Len(tasks) + 1], c) /\ wired[c] < n
    BY <1>1, <1>2, <1>3, <1>6 DEF IsWriteOf, WriteInv, WritesNumbered
  <1>10. \A d \in Callers : IsWriteOf(t, d) => d = c
    BY <1>2 DEF IsWriteOf
  <1>11. \A d \in Callers, i \in DOMAIN tasks' : IsWriteOf(tasks'[i], d) =>
           d # LoopThread /\ wired'[d] < tasks'[i].w[2] /\ tasks'[i].w[2] <= sent'[d]
    <2>. SUFFICES ASSUME NEW d \in Callers, NEW i \in DOMAIN tasks',
                         IsWriteOf(tasks'[i], d)
                  PROVE  /\ d # LoopThread /\ wired'[d] < tasks'[i].w[2]
                         /\ tasks'[i].w[2] <= sent'[d]
      OBVIOUS
    <2>1. CASE i \in DOMAIN tasks
      <3>1. /\ d # LoopThread /\ wired[d] < tasks[i].w[2] /\ tasks[i].w[2] <= sent[d]
            /\ tasks[i].w[2] \in Nat /\ tasks'[i] = tasks[i]
        BY <1>3, <1>8, <2>1
      <3>2. tasks[i].w[2] <= sent'[d]
        BY <1>6, <3>1
      <3>. QED
        BY <1>1, <3>1, <3>2
    <2>2. CASE i = Len(tasks) + 1
      <3>1. tasks'[i] = t /\ d = c
        BY <1>3, <1>10, <2>2
      <3>2. n \in Nat /\ wired'[c] < n /\ n <= sent'[c]
        BY <1>1, <1>7, <1>9
      <3>. QED
        BY <1>2, <3>1, <3>2
    <2>. QED
      BY <1>4, <2>1, <2>2
  <1>12. \A d \in Callers, i, j \in DOMAIN tasks' :
           IsWriteOf(tasks'[i], d) /\ IsWriteOf(tasks'[j], d) /\ i < j =>
             tasks'[i].w[2] < tasks'[j].w[2]
    <2>. SUFFICES ASSUME NEW d \in Callers, NEW i \in DOMAIN tasks', NEW j \in DOMAIN tasks',
                         IsWriteOf(tasks'[i], d), IsWriteOf(tasks'[j], d), i < j
                  PROVE  tasks'[i].w[2] < tasks'[j].w[2]
      OBVIOUS
    <2>1. i \in DOMAIN tasks
      BY <1>3, <1>4
    <2>2. CASE j \in DOMAIN tasks
      BY <1>3, <2>1, <2>2 DEF WriteInv, WritesNumbered
    <2>3. CASE j = Len(tasks) + 1
      <3>1. tasks'[j] = t /\ d = c
        BY <1>3, <1>10, <2>3
      <3>2. tasks'[i] = tasks[i] /\ tasks[i].w[2] <= sent[c] /\ tasks[i].w[2] \in Nat
        BY <1>3, <1>8, <2>1, <3>1
      <3>. QED
        BY <1>1, <1>2, <3>1, <3>2
    <2>. QED
      BY <1>4, <2>2, <2>3
  <1>13. \A d \in Callers, m \in 1..MaxSends : wired'[d] < m /\ m <= sent'[d] =>
           \E i \in DOMAIN tasks' : IsWriteOf(tasks'[i], d) /\ tasks'[i].w[2] = m
    <2>. SUFFICES ASSUME NEW d \in Callers, NEW m \in 1..MaxSends,
                         wired'[d] < m, m <= sent'[d]
                  PROVE  \E i \in DOMAIN tasks' : IsWriteOf(tasks'[i], d) /\ tasks'[i].w[2] = m
      OBVIOUS
    <2>1. CASE m <= sent[d]
      <3>1. PICK i \in DOMAIN tasks : IsWriteOf(tasks[i], d) /\ tasks[i].w[2] = m
        BY <1>1, <2>1 DEF WriteInv, WritesNumbered
      <3>. QED
        BY <1>3, <3>1
    <2>2. CASE ~(m <= sent[d])
      <3>1. d = c /\ m = n
        BY <1>6, <1>7, <2>2
      <3>2. Len(tasks) + 1 \in DOMAIN tasks'
        BY <1>3
      <3>. QED
        BY <1>2, <1>3, <1>9, <3>1, <3>2
    <2>. QED
      BY <2>1, <2>2
  <1>14. \A d \in Callers : wired'[d] <= sent'[d]
    BY <1>1, <1>6, <1>7 DEF WriteInv, WritesNumbered
  <1>15. WritesNumbered'
    BY <1>1, <1>11, <1>12, <1>13, <1>14 DEF WriteInv, WritesNumbered, IsWriteOf
  <1>. QED
    BY <1>1, <1>5, <1>15 DEF WriteInv

\* The oldest task is a write: it is the next one of its caller.
LEMMA TakenWriteInv ==
  ASSUME TypeOK, WriteInv, tasks # <<>>, tasks' = Tail(tasks),
         Head(tasks).op = "uv_write", UvWrite(Head(tasks).w), UNCHANGED <<ctx, sent>>
  PROVE  /\ WriteInv'
         /\ \E c \in Callers : wired' = [wired EXCEPT ![c] = wired[c] + 1]
  <1>1. /\ Head(tasks) \in Tasks /\ Head(tasks) = tasks[1] /\ 1 \in DOMAIN tasks
        /\ DOMAIN tasks \subseteq Nat
        /\ \A i \in DOMAIN tasks' : i + 1 \in DOMAIN tasks /\ tasks'[i] = tasks[i + 1]
    BY TailFacts DEF TypeOK
  <1>2. DOMAIN tasks' = 1..(Len(tasks) - 1) /\ DOMAIN tasks = 1..Len(tasks)
        /\ Len(tasks) \in Nat
    BY HeadTailProperties, LenProperties DEF TypeOK
  <1>3. Head(tasks).w \in Writes
    BY <1>1 DEF Tasks, WriteTasks, CloseTasks, Closing
  <1>4. PICK c \in Callers, n \in 1..MaxSends : Head(tasks).w = <<c, n>>
    BY <1>3 DEF Writes
  <1>5. IsWriteOf(tasks[1], c) /\ tasks[1].w[2] = n
    BY <1>1, <1>4 DEF IsWriteOf
  <1>6. \A d \in Callers : wired[d] \in Nat /\ sent[d] \in 0..MaxSends
    BY BoundAssumption DEF TypeOK
  <1>7. c # LoopThread /\ wired[c] < n /\ n <= sent[c] /\ n \in Nat
    BY <1>1, <1>5 DEF WriteInv, WritesNumbered
  <1>8. \A d \in Callers, i \in DOMAIN tasks : IsWriteOf(tasks[i], d) => tasks[i].w[2] \in Nat
    <2>1. \A i \in DOMAIN tasks : tasks[i].op = "uv_write" => tasks[i].w \in Writes
      BY DEF TypeOK, WriteInv, QueuedWritesHaveContext
    <2>. QED
      BY <2>1 DEF IsWriteOf, Writes
  <1>9. \A i \in DOMAIN tasks : IsWriteOf(tasks[i], c) => i = 1 \/ n < tasks[i].w[2]
    <2>. SUFFICES ASSUME NEW i \in DOMAIN tasks, IsWriteOf(tasks[i], c), i # 1
                  PROVE  n < tasks[i].w[2]
      OBVIOUS
    <2>1. 1 < i
      BY <1>2
    <2>. QED
      BY <1>1, <1>5, <2>1 DEF WriteInv, WritesNumbered
  <1>10. n = wired[c] + 1
    <2>. SUFFICES ASSUME n # wired[c] + 1 PROVE FALSE
      OBVIOUS
    <2>. DEFINE m == wired[c] + 1
    <2>1. m \in 1..MaxSends /\ wired[c] < m /\ m <= sent[c] /\ m < n
      BY <1>6, <1>7, BoundAssumption
    <2>2. PICK i \in DOMAIN tasks : IsWriteOf(tasks[i], c) /\ tasks[i].w[2] = m
      BY <2>1 DEF WriteInv, WritesNumbered
    <2>3. i = 1 \/ n < m
      BY <1>9, <2>2
    <2>. QED
      BY <1>5, <1>7, <2>1, <2>2, <2>3
  <1>11. <<c, n>> \in ctx
    BY <1>1, <1>4 DEF WriteInv, QueuedWritesHaveContext
  <1>12. /\ wired' = [wired EXCEPT ![c] = n]
         /\ \A i \in DOMAIN pending' : pending'[i] \in ctx'
         /\ \A i \in DOMAIN pending' : pending'[i][2] <= wired'[pending'[i][1]]
         /\ \A i, j \in DOMAIN pending' : pending'[i] = pending'[j] => i = j
    BY <1>4, <1>10, <1>11, UvWriteKeepsPending
  <1>13. wired'[c] = n /\ \A d \in Callers : d # c => wired'[d] = wired[d]
    BY <1>12 DEF TypeOK
  <1>14. QueuedWritesHaveContext'
    BY <1>1, <1>12 DEF WriteInv, QueuedWritesHaveContext
  <1>15. \A d \in Callers, i \in DOMAIN tasks' : IsWriteOf(tasks'[i], d) =>
           d # LoopThread /\ wired'[d] < tasks'[i].w[2] /\ tasks'[i].w[2] <= sent'[d]
    <2>. SUFFICES ASSUME NEW d \in Callers, NEW i \in DOMAIN tasks',
                         IsWriteOf(tasks'[i], d)
                  PROVE  /\ d # LoopThread /\ wired'[d] < tasks'[i].w[2]
                         /\ tasks'[i].w[2] <= sent'[d]
      OBVIOUS
    <2>1. /\ i + 1 \in DOMAIN tasks /\ i + 1 # 1 /\ tasks'[i] = tasks[i + 1]
      BY <1>1, <1>2
    <2>2. /\ d # LoopThread /\ wired[d] < tasks'[i].w[2] /\ tasks'[i].w[2] <= sent'[d]
      BY <2>1 DEF WriteInv, WritesNumbered
    <2>3. d = c => n < tasks'[i].w[2]
      BY <1>9, <2>1
    <2>. QED
      BY <1>13, <2>2, <2>3
  <1>16. \A d \in Callers, i, j \in DOMAIN tasks' :
           IsWriteOf(tasks'[i], d) /\ IsWriteOf(tasks'[j], d) /\ i < j =>
             tasks'[i].w[2] < tasks'[j].w[2]
    <2>. SUFFICES ASSUME NEW d \in Callers, NEW i \in DOMAIN tasks', NEW j \in DOMAIN tasks',
                         IsWriteOf(tasks'[i], d), IsWriteOf(tasks'[j], d), i < j
                  PROVE  tasks'[i].w[2] < tasks'[j].w[2]
      OBVIOUS
    <2>1. i + 1 < j + 1
      BY <1>2
    <2>. QED
      BY <1>1, <2>1 DEF WriteInv, WritesNumbered
  <1>17. \A d \in Callers : wired'[d] <= sent'[d]
    BY <1>7, <1>13 DEF WriteInv, WritesNumbered
  <1>18. \A d \in Callers, m \in 1..MaxSends : wired'[d] < m /\ m <= sent'[d] =>
           \E i \in DOMAIN tasks' : IsWriteOf(tasks'[i], d) /\ tasks'[i].w[2] = m
    <2>. SUFFICES ASSUME NEW d \in Callers, NEW m \in 1..MaxSends,
                         wired'[d] < m, m <= sent'[d]
                  PROVE  \E i \in DOMAIN tasks' : IsWriteOf(tasks'[i], d) /\ tasks'[i].w[2] = m
      OBVIOUS
    <2>1. wired[d] < m /\ m <= sent[d] /\ (d = c => n < m)
      BY <1>6, <1>7, <1>13
    <2>2. PICK i \in DOMAIN tasks : IsWriteOf(tasks[i], d) /\ tasks[i].w[2] = m
      BY <2>1 DEF WriteInv, WritesNumbered
    <2>3. i # 1
      <3>1. CASE d = c
        BY <1>5, <1>7, <2>1, <2>2, <3>1
      <3>2. CASE d # c
        BY <1>5, <2>2, <3>2 DEF IsWriteOf
      <3>. QED
        BY <3>1, <3>2
    <2>4. i - 1 \in DOMAIN tasks' /\ (i - 1) + 1 = i
      BY <1>2, <2>3
    <2>. QED
      BY <1>1, <2>2, <2>4
  <1>19. WritesNumbered'
    BY <1>12, <1>15, <1>16, <1>17, <1>18 DEF WritesNumbered, IsWriteOf
  <1>. QED
    BY <1>10, <1>12, <1>14, <1>19 DEF WriteInv

\* The oldest task is another operation.
LEMMA TakenOtherWriteInv ==
  ASSUME TypeOK, WriteInv, tasks # <<>>, tasks' = Tail(tasks),
         Head(tasks).op # "uv_write", UNCHANGED <<ctx, sent, pending, wired>>
  PROVE  WriteInv'
  <1>1. /\ Head(tasks) = tasks[1] /\ 1 \in DOMAIN tasks
        /\ \A i \in DOMAIN tasks' : i + 1 \in DOMAIN tasks /\ tasks'[i] = tasks[i + 1]
    BY TailFacts DEF TypeOK
  <1>2. DOMAIN tasks' = 1..(Len(tasks) - 1) /\ DOMAIN tasks = 1..Len(tasks)
        /\ Len(tasks) \in Nat
    BY HeadTailProperties, LenProperties DEF TypeOK
  <1>3. QueuedWritesHaveContext'
    BY <1>1 DEF WriteInv, QueuedWritesHaveContext
  <1>4. \A d \in Callers, i, j \in DOMAIN tasks' :
           IsWriteOf(tasks'[i], d) /\ IsWriteOf(tasks'[j], d) /\ i < j =>
             tasks'[i].w[2] < tasks'[j].w[2]
    <2>. SUFFICES ASSUME NEW d \in Callers, NEW i \in DOMAIN tasks', NEW j \in DOMAIN tasks',
                         IsWriteOf(tasks'[i], d), IsWriteOf(tasks'[j], d), i < j
                  PROVE  tasks'[i].w[2] < tasks'[j].w[2]
      OBVIOUS
    <2>1. i + 1 < j + 1
      BY <1>2
    <2>. QED
      BY <1>1, <2>1 DEF WriteInv, WritesNumbered
  <1>5. \A d \in Callers, m \in 1..MaxSends : wired[d] < m /\ m <= sent[d] =>
           \E i \in DOMAIN tasks' : IsWriteOf(tasks'[i], d) /\ tasks'[i].w[2] = m
    <2>. SUFFICES ASSUME NEW d \in Callers, NEW m \in 1..MaxSends, wired[d] < m, m <= sent[d]
                  PROVE  \E i \in DOMAIN tasks' : IsWriteOf(tasks'[i], d) /\ tasks'[i].w[2] = m
      OBVIOUS
    <2>1. PICK i \in DOMAIN tasks : IsWriteOf(tasks[i], d) /\ tasks[i].w[2] = m
      BY DEF WriteInv, WritesNumbered
    <2>2. i # 1
      BY <1>1, <2>1 DEF IsWriteOf
    <2>3. i - 1 \in DOMAIN tasks' /\ (i - 1) + 1 = i
      BY <1>2, <2>2
    <2>. QED
      BY <1>1, <2>1, <2>3
  <1>6. WritesNumbered'
    BY <1>1, <1>4, <1>5 DEF WriteInv, WritesNumbered, IsWriteOf
  <1>. QED
    BY <1>3, <1>6 DEF WriteInv

(***************************************************************************)
(* The inductive invariant, action by action.                              *)
(***************************************************************************)
\* Whoever runs user code, or is inside a call, keeps the connection alive.
LEMMA UsersKeepAlive ==
  ASSUME IInv
  PROVE  /\ pending # <<>> => Head(pending) \in ctx
         /\ UserCode => Alive
         /\ \A c \in Callers : CanUse(c) \/ pc[c] # "run" => Alive
  <1>1. pending # <<>> => Head(pending) \in ctx
    BY TailFacts DEF IInv, TypeOK, QueuedWritesHaveContext
  <1>2. UserCode => Alive
    BY <1>1 DEF IInv, UserCode, Alive, Locked, WriteAtHead
  <1>3. \A c \in Callers : CanUse(c) => Alive
    BY <1>2 DEF CanUse, Alive
  <1>4. \A c \in Callers : pc[c] # "run" => Alive
    BY <1>2 DEF IInv, TypeOK, PcValues, BusyCallersHold, Alive
  <1>. QED
    BY <1>1, <1>2, <1>3, <1>4

\* The properties of who is where, which no queue affects.
PlaceInv == BusyCallersHold /\ ServerReadsOwned /\ OpenUntilEof

NextWriteWired == \A c \in Callers : wired'[c] \in {wired[c], wired[c] + 1}

LEMMA CallerInv ==
  ASSUME IInv, NEW c \in Callers, Caller(c)
  PROVE  CloseInv' /\ WriteInv' /\ PlaceInv' /\ NextWriteWired
  <1>. USE DEF NextWriteWired
  <1>1. TypeOK /\ CloseInv /\ WriteInv /\ PlaceInv
    BY DEF IInv, CloseInv, WriteInv, PlaceInv
  <1>2. CASE Send(c)
    <2>1. /\ CanUse(c) /\ Alive
          /\ UNCHANGED <<state, owner, held, frame, pc, handle, reading, shutReq>>
      BY <1>2, UsersKeepAlive DEF Send, SendWrite
    <2>2. PlaceInv'
      BY <1>1, <2>1
      DEF PlaceInv, BusyCallersHold, ServerReadsOwned, OpenUntilEof, UserCode
    <2>3. CASE c = LoopThread
      <3>1. UNCHANGED tasks
        BY <1>2, <2>3 DEF Send, SendWrite
      <3>2. CloseInv'
        BY <1>1, <2>1, <3>1, CloseInvUnchanged
      <3>3. WriteInv' /\ wired' = [wired EXCEPT ![c] = wired[c] + 1]
        BY <1>1, <1>2, <2>3, LoopSendWriteInv
      <3>. QED
        BY <1>1, <2>2, <3>2, <3>3 DEF TypeOK
    <2>4. CASE c # LoopThread
      <3>. DEFINE t == [op |-> "uv_write", w |-> <<c, sent[c] + 1>>]
      <3>1. tasks' = Append(tasks, t) /\ t \in Tasks /\ ~IsCloser(t)
        BY <1>1, <1>2, <2>4, BoundAssumption
        DEF Send, SendWrite, TypeOK, Tasks, WriteTasks, Writes, IsCloser
      <3>2. CloseInv'
        BY <1>1, <2>1, <3>1, CloseInvPosted
      <3>3. WriteInv' /\ wired' = wired
        BY <1>1, <1>2, <2>4, ThreadSendWriteInv
      <3>. QED
        BY <2>2, <3>2, <3>3
    <2>. QED
      BY <2>3, <2>4
  <1>3. CASE ShutdownCheck(c)
    <2>1. /\ Alive /\ CanUse(c)
          /\ UNCHANGED <<state, owner, held, ctx, frame, tasks, uvVars, sent, wired>>
          /\ pc' = pc \/ pc' = [pc EXCEPT ![c] = "shutdown"]
      BY <1>3, UsersKeepAlive DEF ShutdownCheck, histVars
    <2>2. CloseInv' /\ WriteInv'
      BY <1>1, <2>1, CloseInvUnchanged, WriteInvUnchanged DEF uvVars, SameWriteTasks
    <2>3. c \in held \/ (c = LoopThread /\ UserCode)
      BY <2>1 DEF CanUse
    <2>4. PlaceInv'
      BY <1>1, <2>1, <2>3
      DEF PlaceInv, BusyCallersHold, ServerReadsOwned, OpenUntilEof, UserCode, TypeOK,
          uvVars
    <2>. QED
      BY <2>1, <2>2, <2>4
  <1>4. CASE ShutdownSet(c)
    <2>1. /\ Alive /\ "uv_shutdown" \in Closing /\ RunInLoopThread(c, "uv_shutdown")
          /\ state' = "FIN_WAIT"
          /\ pc' = [pc EXCEPT ![c] = IF pc[c] = "shutdown" THEN "run" ELSE "drop"]
          /\ pc[c] \in {"shutdown", "destroy"}
          /\ UNCHANGED <<owner, held, ctx, frame, reading, pending, sent, wired>>
      BY <1>4, UsersKeepAlive DEF ShutdownSet, Closing
    <2>2. WriteInv'
      BY <1>1, <2>1, PostedKeepsWrites, WriteInvUnchanged
    <2>3. PlaceInv'
      BY <1>1, <2>1
      DEF PlaceInv, BusyCallersHold, ServerReadsOwned, OpenUntilEof, UserCode, TypeOK
    <2>4. CASE c = LoopThread
      <3>1. UNCHANGED <<tasks, handle>> /\ (shutReq' = shutReq \/ shutReq' = "plain")
        BY <2>1, <2>4 DEF RunInLoopThread, Perform, UvShutdown
      <3>. QED
        BY <1>1, <2>1, <2>2, <2>3, <3>1
        DEF CloseInv, HandleOutlivesConnection, ClosesOnce, PostedClosers, IsCloser
    <2>5. CASE c # LoopThread
      <3>. DEFINE t == [op |-> "uv_shutdown"]
      <3>1. /\ tasks' = Append(tasks, t) /\ UNCHANGED <<shutReq, handle>>
            /\ t \in Tasks /\ ~IsCloser(t)
        BY <2>1, <2>5 DEF RunInLoopThread, Tasks, CloseTasks, IsCloser
      <3>. QED
        BY <1>1, <2>1, <2>2, <2>3, <3>1, CloseInvPosted
    <2>. QED
      BY <2>4, <2>5
  <1>5. CASE Share(c)
    <2>1. /\ Alive /\ held' = held \cup {c}
          /\ UNCHANGED <<state, owner, ctx, frame, pc, tasks, uvVars, sent, wired>>
      BY <1>5, UsersKeepAlive DEF Share, histVars
    <2>2. CloseInv' /\ WriteInv'
      BY <1>1, <2>1, CloseInvUnchanged, WriteInvUnchanged DEF uvVars, SameWriteTasks
    <2>3. PlaceInv'
      BY <1>1, <2>1
      DEF PlaceInv, BusyCallersHold, ServerReadsOwned, OpenUntilEof, UserCode, uvVars
    <2>. QED
      BY <2>1, <2>2, <2>3
  <1>6. CASE Release(c)
    <2>1. /\ Alive /\ CanUse(c) /\ pc[c] = "run" /\ held' = held \ {c} /\ Unreferenced(c)
          /\ UNCHANGED <<owner, ctx, frame, pc, reading, pending, sent, wired>>
      BY <1>6, UsersKeepAlive DEF Release, histVars, CanUse
    <2>2. CloseInv' /\ WriteInv'
      BY <1>1, <2>1, CloseInvUnreferenced, UnreferencedKeepsWrites, WriteInvUnchanged
    <2>3. Alive' => state' = state
      BY <2>1 DEF Unreferenced
    <2>4. PlaceInv'
      BY <1>1, <2>1, <2>3
      DEF PlaceInv, BusyCallersHold, ServerReadsOwned, OpenUntilEof, UserCode
    <2>. QED
      BY <2>1, <2>2, <2>4
  <1>7. CASE ClientDestroy(c)
    <2>1. /\ Alive /\ owner /\ ~HasCloseCallback
          /\ \A d \in Callers : pc[d] \notin {"destroy", "drop"}
          /\ pc[c] = "run"
          /\ pc' = [pc EXCEPT ![c] = IF state = "CONNECTED" THEN "destroy" ELSE "drop"]
          /\ UNCHANGED <<state, owner, held, ctx, frame, tasks, uvVars, sent, wired>>
      BY <1>7 DEF ClientDestroy, histVars, Alive
    <2>2. CloseInv' /\ WriteInv'
      BY <1>1, <2>1, CloseInvUnchanged, WriteInvUnchanged DEF uvVars, SameWriteTasks
    <2>3. PlaceInv'
      BY <1>1, <2>1
      DEF PlaceInv, BusyCallersHold, ServerReadsOwned, OpenUntilEof, UserCode, TypeOK,
          uvVars
    <2>. QED
      BY <2>1, <2>2, <2>3
  <1>8. CASE ClientDrop(c)
    <2>1. /\ pc[c] = "drop" /\ pc' = [pc EXCEPT ![c] = "run"] /\ Unreferenced(c)
          /\ owner' = FALSE
          /\ UNCHANGED <<held, ctx, frame, reading, pending, sent, wired>>
      BY <1>8 DEF ClientDrop, histVars
    <2>2. owner /\ ~HasCloseCallback /\ Alive
      BY <1>1, <2>1 DEF PlaceInv, BusyCallersHold, Alive
    <2>3. CloseInv' /\ WriteInv'
      BY <1>1, <2>1, <2>2, CloseInvUnreferenced, UnreferencedKeepsWrites, WriteInvUnchanged
    <2>4. Alive' => state' = state
      BY <2>1 DEF Unreferenced
    <2>5. PlaceInv'
      BY <1>1, <2>1, <2>2, <2>4
      DEF PlaceInv, BusyCallersHold, ServerReadsOwned, OpenUntilEof, UserCode, TypeOK
    <2>. QED
      BY <2>1, <2>3, <2>5
  <1>. QED
    BY <1>2, <1>3, <1>4, <1>5, <1>6, <1>7, <1>8 DEF Caller

\* The context of an answered write goes, and perhaps the connection with it.
LEMMA DeleteContextInv ==
  ASSUME IInv, pending # <<>>, DeleteContext, frame' = "idle",
         frame \in {"idle", "writeComplete"}, pc[LoopThread] = "run"
  PROVE  CloseInv' /\ WriteInv' /\ PlaceInv' /\ UNCHANGED wired
  <1>1. TypeOK /\ CloseInv /\ WriteInv /\ PlaceInv
    BY DEF IInv, CloseInv, WriteInv, PlaceInv
  <1>2. /\ Alive /\ Unreferenced(LoopThread)
        /\ ctx' = ctx \ {Head(pending)} /\ pending' = Tail(pending)
        /\ UNCHANGED <<owner, held, pc, reading, sent, wired>>
    BY UsersKeepAlive DEF DeleteContext, histVars, Alive
  <1>3. CloseInv'
    BY <1>1, <1>2, CallersFact, CloseInvUnreferenced
  <1>4. SameWriteTasks
    BY <1>1, <1>2, CallersFact, UnreferencedKeepsWrites
  <1>5. WriteInv'
    BY <1>1, <1>2, <1>4, WriteInvDeleted
  <1>6. Alive' => state' = state
    BY <1>2 DEF Unreferenced
  <1>7. PlaceInv'
    BY <1>1, <1>2, <1>6
    DEF PlaceInv, BusyCallersHold, ServerReadsOwned, OpenUntilEof, UserCode
  <1>. QED
    BY <1>2, <1>3, <1>5, <1>7

LEMMA LoopInv ==
  ASSUME IInv, Loop
  PROVE  CloseInv' /\ WriteInv' /\ PlaceInv' /\ NextWriteWired
  <1>. USE DEF NextWriteWired
  <1>1. TypeOK /\ CloseInv /\ WriteInv /\ PlaceInv
    BY DEF IInv, CloseInv, WriteInv, PlaceInv
  <1>2. CASE RunTask
    <2>1. /\ tasks # <<>> /\ tasks' = Tail(tasks)
          /\ UNCHANGED <<state, owner, held, ctx, frame, pc, reading, sent>>
          /\ Alive' <=> Alive
      BY <1>2 DEF RunTask, connVars, Alive, Locked
    <2>2. PlaceInv'
      BY <1>1, <2>1
      DEF PlaceInv, BusyCallersHold, ServerReadsOwned, OpenUntilEof, UserCode
    <2>3. CASE Head(tasks).op = "uv_write"
      <3>1. UvWrite(Head(tasks).w) /\ UNCHANGED <<shutReq, handle>>
        BY <1>2, <2>3 DEF RunTask
      <3>2. CloseInv'
        BY <1>1, <2>1, <2>3, <3>1, CloseInvTaken
      <3>3. WriteInv' /\ \E c \in Callers : wired' = [wired EXCEPT ![c] = wired[c] + 1]
        BY <1>1, <2>1, <2>3, <3>1, TakenWriteInv
      <3>. QED
        BY <1>1, <2>2, <3>2, <3>3 DEF TypeOK
    <2>4. CASE Head(tasks).op # "uv_write"
      <3>1. Perform(Head(tasks).op) /\ UNCHANGED <<pending, wired>>
        BY <1>2, <2>4 DEF RunTask
      <3>2. CloseInv'
        BY <1>1, <2>1, <2>4, <3>1, CloseInvTaken
      <3>3. WriteInv'
        BY <1>1, <2>1, <2>4, <3>1, TakenOtherWriteInv
      <3>. QED
        BY <2>2, <3>1, <3>2, <3>3
    <2>. QED
      BY <2>3, <2>4
  <1>3. CASE CallbackBegin
    <2>1. /\ Alive /\ frame = "idle" /\ frame' = "callback"
          /\ UNCHANGED <<state, owner, held, ctx, pc, tasks, uvVars, sent, wired>>
      BY <1>3 DEF CallbackBegin, LoopIdle, histVars
    <2>2. CloseInv' /\ WriteInv'
      BY <1>1, <2>1, CloseInvUnchanged, WriteInvUnchanged DEF uvVars, SameWriteTasks
    <2>3. PlaceInv'
      BY <1>1, <2>1
      DEF PlaceInv, BusyCallersHold, ServerReadsOwned, OpenUntilEof, UserCode, uvVars
    <2>. QED
      BY <2>1, <2>2, <2>3
  <1>4. CASE CallbackEnd
    <2>1. /\ Alive /\ frame = "callback" /\ frame' = "idle" /\ pc[LoopThread] = "run"
          /\ Unreferenced(LoopThread)
          /\ UNCHANGED <<owner, held, ctx, pc, reading, pending, sent, wired>>
      BY <1>4 DEF CallbackEnd, histVars, Alive, Locked
    <2>2. CloseInv' /\ WriteInv'
      BY <1>1, <2>1, CallersFact, CloseInvUnreferenced, UnreferencedKeepsWrites,
         WriteInvUnchanged
    <2>3. Alive' => state' = state
      BY <2>1 DEF Unreferenced
    <2>4. PlaceInv'
      BY <1>1, <2>1, <2>3
      DEF PlaceInv, BusyCallersHold, ServerReadsOwned, OpenUntilEof, UserCode
    <2>. QED
      BY <2>1, <2>2, <2>4
  <1>5. CASE EofRead
    <2>1. /\ Alive /\ frame = "idle" /\ frame' \in {"eofCloseWait", "eofClosed"}
          /\ pc[LoopThread] = "run"
          /\ UNCHANGED <<state, owner, held, ctx, pc, tasks, uvVars, sent, wired>>
      BY <1>5 DEF EofRead, CanRead, LoopIdle, histVars
    <2>2. CloseInv' /\ WriteInv'
      BY <1>1, <2>1, CloseInvUnchanged, WriteInvUnchanged DEF uvVars, SameWriteTasks
    <2>3. PlaceInv'
      BY <1>1, <2>1
      DEF PlaceInv, BusyCallersHold, ServerReadsOwned, OpenUntilEof, UserCode, uvVars
    <2>. QED
      BY <2>1, <2>2, <2>3
  <1>6. CASE EofWrite
    <2>1. /\ Alive /\ frame' = "eofCallback"
          /\ UNCHANGED <<owner, held, ctx, pc, tasks, uvVars, sent, wired>>
      BY <1>6 DEF EofWrite, histVars, Alive, Locked
    <2>2. CloseInv' /\ WriteInv'
      BY <1>1, <2>1, CloseInvUnchanged, WriteInvUnchanged DEF uvVars, SameWriteTasks
    <2>3. PlaceInv'
      BY <1>1, <2>1
      DEF PlaceInv, BusyCallersHold, ServerReadsOwned, OpenUntilEof, UserCode, uvVars
    <2>. QED
      BY <2>1, <2>2, <2>3
  <1>7. CASE EofEnd
    <2>1. /\ Alive /\ frame' = "idle" /\ pc[LoopThread] = "run" /\ reading' = FALSE
          /\ owner' = (owner /\ ~HasCloseCallback)
          /\ Unreferenced(LoopThread)
          /\ UNCHANGED <<held, ctx, pc, pending, sent, wired>>
      BY <1>7 DEF EofEnd, histVars, Alive, Locked
    <2>2. CloseInv' /\ WriteInv'
      BY <1>1, <2>1, CallersFact, CloseInvUnreferenced, UnreferencedKeepsWrites,
         WriteInvUnchanged
    <2>3. PlaceInv'
      BY <1>1, <2>1
      DEF PlaceInv, BusyCallersHold, ServerReadsOwned, OpenUntilEof, UserCode
    <2>. QED
      BY <2>1, <2>2, <2>3
  <1>8. CASE ReadError
    <2>1. /\ reading' = FALSE /\ (Alive' <=> Alive)
          /\ UNCHANGED <<state, owner, held, ctx, frame, pc, tasks, handle, shutReq,
                         pending, sent, wired>>
      BY <1>8 DEF ReadError, connVars, histVars, Alive, Locked
    <2>2. CloseInv' /\ WriteInv'
      BY <1>1, <2>1, CloseInvUnchanged, WriteInvUnchanged DEF SameWriteTasks
    <2>3. PlaceInv'
      BY <1>1, <2>1
      DEF PlaceInv, BusyCallersHold, ServerReadsOwned, OpenUntilEof, UserCode
    <2>. QED
      BY <2>1, <2>2, <2>3
  <1>9. CASE WriteDone
    <2>1. /\ pending # <<>> /\ frame = "idle" /\ frame' = "writeComplete"
          /\ UNCHANGED <<state, owner, held, ctx, pc, tasks, uvVars, sent, wired>>
      BY <1>9 DEF WriteDone, LoopIdle, histVars
    <2>2. Alive
      BY <2>1, UsersKeepAlive DEF Alive
    <2>3. CloseInv' /\ WriteInv'
      BY <1>1, <2>1, <2>2, CloseInvUnchanged, WriteInvUnchanged DEF uvVars, SameWriteTasks
    <2>4. PlaceInv'
      BY <1>1, <2>1, <2>2
      DEF PlaceInv, BusyCallersHold, ServerReadsOwned, OpenUntilEof, UserCode, uvVars
    <2>. QED
      BY <2>1, <2>3, <2>4
  <1>10. CASE WriteEnd
    <2>1. pending # <<>>
      BY <1>10 DEF WriteEnd, IInv, WriteAtHead
    <2>2. CloseInv' /\ WriteInv' /\ PlaceInv' /\ UNCHANGED wired
      BY <1>10, <2>1, DeleteContextInv DEF WriteEnd
    <2>. QED
      BY <2>2
  <1>11. CASE WriteFailed
    <2>1. CloseInv' /\ WriteInv' /\ PlaceInv' /\ UNCHANGED wired
      BY <1>11, DeleteContextInv DEF WriteFailed, LoopIdle
    <2>. QED
      BY <2>1
  <1>12. CASE ShutdownCompleted
    <2>1. /\ shutReq' = "none" /\ (Alive' <=> Alive) /\ shutReq # "none"
          /\ handle' = IF shutReq = "close" /\ handle = "open" THEN "closing" ELSE handle
          /\ UNCHANGED <<state, owner, held, ctx, frame, pc, tasks, reading, pending,
                         sent, wired>>
      BY <1>12 DEF ShutdownCompleted, connVars, histVars, Alive, Locked
    <2>2. WriteInv'
      BY <1>1, <2>1, WriteInvUnchanged DEF SameWriteTasks
    <2>3. CloseInv'
      BY <1>1, <2>1
      DEF CloseInv, HandleOutlivesConnection, ClosesOnce, PostedClosers, IsCloser
    <2>4. PlaceInv'
      BY <1>1, <2>1
      DEF PlaceInv, BusyCallersHold, ServerReadsOwned, OpenUntilEof, UserCode
    <2>. QED
      BY <2>1, <2>2, <2>3, <2>4
  <1>13. CASE CloseCompleted
    <2>1. /\ handle = "closing" /\ handle' = "freed" /\ (Alive' <=> Alive)
          /\ UNCHANGED <<state, owner, held, ctx, frame, pc, tasks, reading, pending,
                         shutReq, sent, wired>>
      BY <1>13 DEF CloseCompleted, connVars, histVars, Alive, Locked
    <2>2. WriteInv'
      BY <1>1, <2>1, WriteInvUnchanged DEF SameWriteTasks
    <2>3. CloseInv'
      BY <1>1, <2>1
      DEF CloseInv, HandleOutlivesConnection, ClosesOnce, PostedClosers, IsCloser
    <2>4. PlaceInv'
      BY <1>1, <2>1
      DEF PlaceInv, BusyCallersHold, ServerReadsOwned, OpenUntilEof, UserCode
    <2>. QED
      BY <2>1, <2>2, <2>3, <2>4
  <1>. QED
    BY <1>2, <1>3, <1>4, <1>5, <1>6, <1>7, <1>8, <1>9, <1>10, <1>11, <1>12, <1>13
    DEF Loop

(***************************************************************************)
(* The theorems.                                                           *)
(***************************************************************************)
LEMMA InitInv == Init => IInv
  <1>. SUFFICES ASSUME Init PROVE IInv
    OBVIOUS
  <1>1. tasks = <<>> /\ pending = <<>> /\ DOMAIN tasks = {} /\ DOMAIN pending = {}
    BY DEF Init
  <1>2. QueuedWritesHaveContext /\ HandleOutlivesConnection /\ ClosesOnce
    BY <1>1
    DEF Init, QueuedWritesHaveContext, HandleOutlivesConnection, ClosesOnce, PostedClosers
  <1>3. WritesNumbered
    BY <1>1 DEF Init, WritesNumbered
  <1>4. BusyCallersHold /\ ServerReadsOwned /\ OpenUntilEof
    BY DEF Init, BusyCallersHold, ServerReadsOwned, OpenUntilEof
  <1>. QED
    BY <1>2, <1>3, <1>4, TypeInit DEF IInv

LEMMA NextInv ==
  ASSUME IInv, [Next]_vars
  PROVE  IInv' /\ (NextWriteWired \/ UNCHANGED vars)
  <1>1. TypeOK /\ WriteAtHead /\ CloseInv /\ WriteInv /\ PlaceInv
    BY DEF IInv, CloseInv, WriteInv, PlaceInv
  <1>2. CASE \E c \in Callers : Caller(c)
    BY <1>1, <1>2, CallerType, CallerInv DEF IInv, CloseInv, WriteInv, PlaceInv
  <1>3. CASE Loop
    BY <1>1, <1>3, LoopType, LoopInv DEF IInv, CloseInv, WriteInv, PlaceInv
  <1>4. CASE (PeerClose \/ PeerReset) \/ UNCHANGED vars
    <2>1. /\ UNCHANGED <<connVars, tasks, uvVars, histVars>>
          /\ peer' \in {"open", "fin", "rst"}
      BY <1>1, <1>4 DEF PeerClose, PeerReset, vars, TypeOK
    <2>2. UNCHANGED <<state, owner, held, ctx, frame, pc, tasks, handle, reading, shutReq,
                      pending, finSent, sent, wired>>
      BY <2>1 DEF connVars, uvVars, histVars
    <2>3. TypeOK' /\ WriteAtHead'
      BY <1>1, <2>1, <2>2 DEF TypeOK, WriteAtHead
    <2>4. Alive' <=> Alive
      BY <2>2 DEF Alive, Locked
    <2>5. CloseInv'
      BY <1>1, <2>2, <2>4, CloseInvUnchanged
    <2>6. WriteInv'
      BY <1>1, <2>2, WriteInvUnchanged DEF SameWriteTasks
    <2>7. PlaceInv'
      BY <1>1, <2>2, <2>4
      DEF PlaceInv, BusyCallersHold, ServerReadsOwned, OpenUntilEof, UserCode
    <2>8. NextWriteWired
      BY <2>2 DEF NextWriteWired
    <2>. QED
      BY <2>3, <2>5, <2>6, <2>7, <2>8 DEF IInv, CloseInv, WriteInv, PlaceInv
  <1>. QED
    BY <1>2, <1>3, <1>4 DEF Next

\* The inductive invariant holds throughout, for a server's and a client's
\* connection, any threads and any number of sends.
THEOREM InvariantHolds == Spec => []IInv
  <1>1. IInv /\ [Next]_vars => IInv'
    BY NextInv
  <1>. QED
    BY <1>1, InitInv, PTL DEF Spec

\* While anybody holds the connection its handle is open and nothing that would
\* close it is on its way, so send() and shutdown() never use a dead handle.
THEOREM HandleOutlives == Spec => []HandleOutlivesConnection
  <1>1. IInv => HandleOutlivesConnection
    BY DEF IInv
  <1>. QED
    BY <1>1, InvariantHolds, PTL

\* Destructor, shutdownWrite and shutdownCallback close the handle at most once.
THEOREM HandleClosedOnce == Spec => []ClosesOnce
  <1>1. IInv => ClosesOnce
    BY DEF IInv
  <1>. QED
    BY <1>1, InvariantHolds, PTL

\* After the handle began to close nothing but a uv_shutdown can reach it.
THEOREM NoLateWrite == Spec => []OnlyShutdownMayBeLate
  <1>1. IInv => OnlyShutdownMayBeLate
    <2>. SUFFICES ASSUME IInv, handle # "open"
                  PROVE  /\ pending = <<>>
                         /\ \A i \in DOMAIN tasks : tasks[i].op = "uv_shutdown"
      BY DEF OnlyShutdownMayBeLate
    <2>1. ctx = {}
      BY DEF IInv, HandleOutlivesConnection, Alive
    <2>2. pending = <<>>
      BY <2>1, UsersKeepAlive
    <2>3. PostedClosers = {}
      BY DEF IInv, ClosesOnce
    <2>4. \A i \in DOMAIN tasks : tasks[i].op \in Closing \cup {"uv_write"}
      BY DEF IInv, TypeOK, Tasks, WriteTasks, CloseTasks
    <2>5. \A i \in DOMAIN tasks : tasks[i].op # "uv_write"
      BY <2>1 DEF IInv, QueuedWritesHaveContext
    <2>. QED
      BY <2>2, <2>3, <2>4, <2>5 DEF PostedClosers, IsCloser, Closing
  <1>. QED
    BY <1>1, InvariantHolds, PTL

\* assert(conn != NULL) in readCallback never fails for a server's connection.
THEOREM ServerReadFindsConn == HasCloseCallback => (Spec => []ReadCallbackFindsConn)
  <1>. SUFFICES ASSUME HasCloseCallback PROVE Spec => []ReadCallbackFindsConn
    OBVIOUS
  <1>1. IInv => ReadCallbackFindsConn
    BY DEF IInv, ServerReadsOwned, ReadCallbackFindsConn, CanRead, Alive
  <1>. QED
    BY <1>1, InvariantHolds, PTL

\* assert(state_ != CLOSED && state_ != CLOSE_WAIT) in readCallback never fails.
THEOREM EofFindsOpenState == Spec => []EofMeetsOpenState
  <1>1. IInv => EofMeetsOpenState
    BY DEF IInv, OpenUntilEof, EofMeetsOpenState, CanRead, LoopIdle
  <1>. QED
    BY <1>1, InvariantHolds, PTL

\* What a caller sends reaches uv_write in the order of its calls, none left out.
THEOREM SendsInOrder == Spec => SendOrder
  <1>1. IInv /\ [Next]_vars =>
          [\A c \in Callers : wired'[c] \in {wired[c], wired[c] + 1}]_vars
    BY NextInv DEF NextWriteWired
  <1>. QED
    BY <1>1, InvariantHolds, PTL DEF Spec, SendOrder

(***************************************************************************)
(* shutdown() is kept to the loop's thread.                                *)
(***************************************************************************)
\* Then no uv_shutdown is ever queued, a connection with a closer on its way is CLOSED, and
\* CLOSE_WAIT is reached only if this side has sent no FIN.
LoopCloses ==
    /\ \A c \in Callers : pc[c] \in {"shutdown", "destroy"} => c = LoopThread
    /\ frame \in {"eofCloseWait", "eofClosed"} => pc[LoopThread] = "run"
    /\ \A i \in DOMAIN tasks : tasks[i].op # "uv_shutdown"
    /\ \A i \in DOMAIN tasks : IsCloser(tasks[i]) => state = "CLOSED"
    /\ state \in {"CONNECTED", "CLOSE_WAIT"} \/ frame = "eofCloseWait" =>
           shutReq = "none" /\ ~finSent

\* A reference goes, and perhaps the connection with it.
LEMMA LoopClosesUnreferenced ==
  ASSUME TypeOK, LoopCloses, NEW c \in Callers, Unreferenced(c), UNCHANGED finSent,
         \A d \in Callers : pc'[d] \in {"shutdown", "destroy"} => pc[d] \in {"shutdown", "destroy"},
         frame' \in {"eofCloseWait", "eofClosed"} => pc'[LoopThread] = "run",
         frame' = "eofCloseWait" => frame = "eofCloseWait"
  PROVE  LoopCloses'
  <1>1. CASE Alive'
    <2>1. UNCHANGED <<state, tasks, shutReq>>
      BY <1>1 DEF Unreferenced
    <2>. QED
      BY <2>1 DEF LoopCloses, IsCloser
  <1>2. CASE ~Alive'
    <2>1. /\ state' = "CLOSED" /\ frame' # "eofCloseWait"
          /\ RunInLoopThread(c, IF state = "CLOSE_WAIT" THEN "shutdownWrite" ELSE "uv_close")
      BY <1>2 DEF Unreferenced, Destruct, Alive, Locked
    <2>2. PICK op \in {"shutdownWrite", "uv_close"} : RunInLoopThread(c, op)
      BY <2>1
    <2>3. tasks' = tasks \/ tasks' = Append(tasks, [op |-> op])
      BY <2>2 DEF RunInLoopThread
    <2>4. \A i \in DOMAIN tasks' : tasks'[i].op # "uv_shutdown"
      <3>1. CASE tasks' = tasks
        BY <3>1 DEF LoopCloses
      <3>2. CASE tasks' = Append(tasks, [op |-> op])
        <4>1. [op |-> op] \in Tasks
          BY DEF Tasks, CloseTasks, Closing
        <4>2. /\ DOMAIN tasks' = 1..(Len(tasks) + 1) /\ DOMAIN tasks = 1..Len(tasks)
              /\ tasks'[Len(tasks) + 1] = [op |-> op] /\ Len(tasks) \in Nat
              /\ \A i \in 1..Len(tasks) : tasks'[i] = tasks[i]
          BY <3>2, <4>1, AppendFacts DEF TypeOK
        <4>. QED
          BY <4>2 DEF LoopCloses
      <3>. QED
        BY <2>3, <3>1, <3>2
    <2>. QED
      BY <2>1, <2>4 DEF LoopCloses
  <1>. QED
    BY <1>1, <1>2

LEMMA LoopClosesCaller ==
  ASSUME IInv, LoopCloses, Closers \subseteq {LoopThread}, NEW c \in Callers, Caller(c)
  PROVE  LoopCloses'
  <1>0. TypeOK
    BY DEF IInv
  <1>1. CASE Send(c)
    <2>. DEFINE w == <<c, sent[c] + 1>>
                t == [op |-> "uv_write", w |-> w]
    <2>1. UNCHANGED <<state, frame, pc, shutReq, finSent>>
      BY <1>1 DEF Send, SendWrite
    <2>2. tasks' = tasks \/ tasks' = Append(tasks, t)
      BY <1>1 DEF Send, SendWrite
    <2>3. CASE tasks' = tasks
      BY <2>1, <2>3 DEF LoopCloses, IsCloser
    <2>4. CASE tasks' = Append(tasks, t)
      <3>1. t.op = "uv_write"
        OBVIOUS
      <3>2. t \in Tasks
        <4>1. sent[c] \in 0..MaxSends /\ sent[c] < MaxSends /\ MaxSends \in Nat
          BY <1>0, <1>1, BoundAssumption DEF TypeOK, Send, SendWrite
        <4>2. sent[c] + 1 \in 1..MaxSends
          BY <4>1
        <4>. QED
          BY <4>2 DEF Tasks, WriteTasks, Writes
      <3>. HIDE DEF t
      <3>3. /\ DOMAIN tasks' = 1..(Len(tasks) + 1) /\ DOMAIN tasks = 1..Len(tasks)
            /\ tasks'[Len(tasks) + 1] = t /\ Len(tasks) \in Nat
            /\ \A i \in 1..Len(tasks) : tasks'[i] = tasks[i]
        BY <1>0, <2>4, <3>2, AppendFacts DEF TypeOK
      <3>. QED
        BY <2>1, <3>1, <3>3 DEF LoopCloses, IsCloser
    <2>. QED
      BY <2>2, <2>3, <2>4
  <1>2. CASE ShutdownCheck(c)
    <2>1. /\ c = LoopThread /\ pc' = [pc EXCEPT ![c] = "shutdown"]
          /\ frame \notin {"eofCloseWait", "eofClosed"}
          /\ UNCHANGED <<state, frame, tasks, shutReq, finSent>>
      BY <1>2 DEF ShutdownCheck, CanUse, UserCode, uvVars
    <2>. QED
      BY <1>0, <2>1 DEF LoopCloses, IsCloser, TypeOK
  <1>3. CASE ShutdownSet(c)
    <2>1. c = LoopThread /\ pc[LoopThread] # "run"
      BY <1>3 DEF ShutdownSet, LoopCloses
    <2>2. frame \notin {"eofCloseWait", "eofClosed"}
      BY <2>1 DEF LoopCloses
    <2>3. /\ state' = "FIN_WAIT" /\ tasks' = tasks /\ UNCHANGED <<frame, finSent>>
          /\ \A d \in Callers : pc'[d] \in {"shutdown", "destroy"} => pc[d] \in {"shutdown", "destroy"}
      BY <1>0, <1>3, <2>1 DEF ShutdownSet, RunInLoopThread, TypeOK
    <2>4. Alive
      BY <2>1, UsersKeepAlive
    <2>5. \A i \in DOMAIN tasks : ~IsCloser(tasks[i])
      BY <2>4 DEF IInv, HandleOutlivesConnection, PostedClosers
    <2>. QED
      BY <2>2, <2>3, <2>5 DEF LoopCloses, IsCloser
  <1>4. CASE Share(c)
    <2>1. UNCHANGED <<state, frame, pc, tasks, shutReq, finSent>>
      BY <1>4 DEF Share, uvVars
    <2>. QED
      BY <2>1 DEF LoopCloses, IsCloser
  <1>5. CASE Release(c)
    <2>1. Unreferenced(c) /\ UNCHANGED <<frame, pc, finSent>>
      BY <1>5 DEF Release
    <2>. QED
      BY <1>0, <2>1, LoopClosesUnreferenced DEF LoopCloses
  <1>6. CASE ClientDestroy(c)
    <2>1. /\ c = LoopThread /\ \E p \in PcValues : pc' = [pc EXCEPT ![c] = p]
          /\ frame \notin {"eofCloseWait", "eofClosed"}
          /\ UNCHANGED <<state, frame, tasks, shutReq, finSent>>
      BY <1>6 DEF ClientDestroy, UserCode, uvVars, PcValues
    <2>. QED
      BY <1>0, <2>1 DEF LoopCloses, IsCloser, TypeOK
  <1>7. CASE ClientDrop(c)
    <2>1. Unreferenced(c) /\ pc' = [pc EXCEPT ![c] = "run"] /\ UNCHANGED <<frame, finSent>>
      BY <1>7 DEF ClientDrop
    <2>2. \A d \in Callers : pc'[d] = IF d = c THEN "run" ELSE pc[d]
      BY <1>0, <2>1 DEF TypeOK
    <2>. QED
      BY <1>0, <2>1, <2>2, CallersFact, LoopClosesUnreferenced DEF LoopCloses
  <1>. QED
    BY <1>1, <1>2, <1>3, <1>4, <1>5, <1>6, <1>7 DEF Caller

LEMMA LoopClosesLoop ==
  ASSUME IInv, LoopCloses, Loop
  PROVE  LoopCloses'
  <1>0. TypeOK
    BY DEF IInv
  <1>1. CASE RunTask
    <2>1. /\ frame = "idle" /\ tasks # <<>> /\ tasks' = Tail(tasks)
          /\ UNCHANGED <<state, frame, pc, finSent>>
      BY <1>1 DEF RunTask, LoopIdle, connVars
    <2>2. /\ tasks \in Seq(Tasks) /\ Len(tasks) \in Nat \ {0}
          /\ DOMAIN tasks = 1..Len(tasks) /\ DOMAIN tasks' = 1..(Len(tasks) - 1)
          /\ Head(tasks) = tasks[1]
          /\ \A i \in 1..(Len(tasks) - 1) : tasks'[i] = tasks[i + 1]
      BY <1>0, <2>1, TailFacts DEF TypeOK
    <2>3. \A i \in DOMAIN tasks' : i + 1 \in DOMAIN tasks /\ tasks'[i] = tasks[i + 1]
      BY <2>2
    <2>4. shutReq' = shutReq \/ state = "CLOSED"
      <3>1. 1 \in DOMAIN tasks /\ Head(tasks).op # "uv_shutdown" /\ Head(tasks) \in Tasks
        BY <2>2 DEF LoopCloses
      <3>2. CASE Head(tasks).op = "uv_write"
        BY <1>1, <3>2 DEF RunTask
      <3>3. CASE Head(tasks).op = "uv_close"
        BY <1>1, <3>3 DEF RunTask, Perform, UvClose
      <3>4. CASE Head(tasks).op = "shutdownWrite"
        BY <2>2, <3>1, <3>4 DEF LoopCloses, IsCloser
      <3>. QED
        BY <3>1, <3>2, <3>3, <3>4 DEF Tasks, WriteTasks, CloseTasks, Closing
    <2>. QED
      BY <2>1, <2>3, <2>4 DEF LoopCloses, IsCloser
  <1>2. CASE CallbackBegin \/ WriteDone \/ ReadError \/ CloseCompleted
    <2>1. /\ UNCHANGED <<state, pc, tasks, shutReq, finSent>>
          /\ frame' \in {frame, "callback", "writeComplete"}
      BY <1>2 DEF CallbackBegin, WriteDone, ReadError, CloseCompleted, connVars, uvVars
    <2>. QED
      BY <2>1 DEF LoopCloses, IsCloser
  <1>3. CASE CallbackEnd \/ EofEnd \/ WriteEnd \/ WriteFailed
    <2>1. /\ Unreferenced(LoopThread) /\ UNCHANGED <<pc, finSent>> /\ frame' \in {frame, "idle"}
      BY <1>3 DEF CallbackEnd, EofEnd, WriteEnd, WriteFailed, DeleteContext
    <2>. QED
      BY <1>0, <2>1, CallersFact, LoopClosesUnreferenced DEF LoopCloses
  <1>4. CASE EofRead
    <2>1. /\ pc[LoopThread] = "run" /\ frame' \in {"eofCloseWait", "eofClosed"}
          /\ frame' = "eofCloseWait" => state = "CONNECTED"
          /\ UNCHANGED <<state, pc, tasks, shutReq, finSent>>
      BY <1>4 DEF EofRead, CanRead, LoopIdle, uvVars
    <2>. QED
      BY <2>1 DEF LoopCloses, IsCloser
  <1>5. CASE EofWrite
    <2>1. /\ frame \in {"eofCloseWait", "eofClosed"} /\ frame' = "eofCallback"
          /\ state' \in {"CLOSE_WAIT", "CLOSED"}
          /\ state' = "CLOSE_WAIT" => frame = "eofCloseWait"
          /\ UNCHANGED <<pc, tasks, shutReq, finSent>>
      BY <1>5 DEF EofWrite, uvVars
    <2>2. Alive
      BY <2>1 DEF Alive, Locked
    <2>3. \A i \in DOMAIN tasks : ~IsCloser(tasks[i])
      BY <2>2 DEF IInv, HandleOutlivesConnection, PostedClosers
    <2>. QED
      BY <2>1, <2>3 DEF LoopCloses, IsCloser
  <1>6. CASE ShutdownCompleted
    <2>1. /\ frame = "idle" /\ shutReq # "none" /\ UNCHANGED <<state, frame, pc, tasks>>
      BY <1>6 DEF ShutdownCompleted, LoopIdle, connVars
    <2>. QED
      BY <2>1 DEF LoopCloses, IsCloser
  <1>. QED
    BY <1>1, <1>2, <1>3, <1>4, <1>5, <1>6 DEF Loop

LEMMA LoopClosesNext ==
  ASSUME IInv, LoopCloses, Closers \subseteq {LoopThread}, [Next]_vars
  PROVE  LoopCloses'
  <1>1. CASE (PeerClose \/ PeerReset) \/ UNCHANGED vars
    <2>1. UNCHANGED <<state, frame, pc, tasks, shutReq, finSent>>
      BY <1>1 DEF PeerClose, PeerReset, vars, connVars, uvVars
    <2>. QED
      BY <2>1 DEF LoopCloses, IsCloser
  <1>. QED
    BY <1>1, LoopClosesCaller, LoopClosesLoop DEF Next

LEMMA LoopClosesAlways ==
  Closers \subseteq {LoopThread} => (Spec => [](IInv /\ LoopCloses))
  <1>. SUFFICES ASSUME Closers \subseteq {LoopThread} PROVE Spec => [](IInv /\ LoopCloses)
    OBVIOUS
  <1>1. Init => IInv /\ LoopCloses
    BY InitInv DEF Init, LoopCloses
  <1>2. IInv /\ LoopCloses /\ [Next]_vars => IInv' /\ LoopCloses'
    BY NextInv, LoopClosesNext
  <1>. QED
    BY <1>1, <1>2, PTL DEF Spec

\* If only the thread of the loop calls shutdown(), nothing at all reaches a handle that closes.
THEOREM NothingComesLate == Closers \subseteq {LoopThread} => (Spec => []NothingIsLate)
  <1>. SUFFICES ASSUME Closers \subseteq {LoopThread} PROVE Spec => []NothingIsLate
    OBVIOUS
  <1>1. OnlyShutdownMayBeLate /\ IInv /\ LoopCloses => NothingIsLate
    <2>. SUFFICES ASSUME OnlyShutdownMayBeLate, IInv, LoopCloses, handle # "open"
                  PROVE  tasks = <<>> /\ pending = <<>>
      BY DEF NothingIsLate
    <2>1. pending = <<>> /\ DOMAIN tasks = {}
      BY DEF OnlyShutdownMayBeLate, LoopCloses
    <2>2. tasks \in Seq(Tasks)
      BY DEF IInv, TypeOK
    <2>3. Len(tasks) = 0
      BY <2>1, <2>2
    <2>. QED
      BY <2>1, <2>2, <2>3
  <1>. QED
    BY <1>1, NoLateWrite, LoopClosesAlways, PTL

\* And in CLOSE_WAIT this side can go on sending: it has sent no FIN, nor asked for one.
THEOREM CloseWaitSends == Closers \subseteq {LoopThread} => (Spec => []CloseWaitCanSend)
  <1>. SUFFICES ASSUME Closers \subseteq {LoopThread} PROVE Spec => []CloseWaitCanSend
    OBVIOUS
  <1>1. IInv /\ LoopCloses => CloseWaitCanSend
    BY DEF LoopCloses, CloseWaitCanSend
  <1>. QED
    BY <1>1, LoopClosesAlways, PTL
=============================================================================
