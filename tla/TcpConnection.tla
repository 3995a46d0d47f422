--------------------------- MODULE TcpConnection ---------------------------
(***************************************************************************)
(* The life of one TcpConnection (TcpConnection.cpp): who keeps it alive,  *)
(* how its state_ follows the FINs of the two sides, and in which order    *)
(* the operations it posts reach the libuv handle it was built on.         *)
(*                                                                         *)
(* The connection belongs to one event loop (LoopThread).  User code runs  *)
(* in the callbacks of that loop and, holding a shared_ptr of its own, in  *)
(* other threads.  Every call of libuv goes through runInLoopThread:       *)
(* directly in the thread of the loop, through the loop's queue of tasks   *)
(* from any other thread.                                                  *)
(***************************************************************************)
EXTENDS Naturals, Sequences

CONSTANTS
    Threads,          \* user threads other than the thread of the loop
    LoopThread,       \* the thread that runs the connection's event loop
    MaxSends,         \* bound: send() calls of each caller
    Closers,          \* the callers that may call shutdown()
    HasCloseCallback  \* TRUE: TcpServer set closeCallback_; FALSE: TcpClient

Callers == Threads \cup {LoopThread}

ASSUME CallersAssumption == LoopThread \notin Threads /\ Closers \subseteq Callers
ASSUME BoundAssumption   == MaxSends \in Nat
ASSUME RoleAssumption    == HasCloseCallback \in BOOLEAN

VARIABLES
    state,    \* state_
    owner,    \* the server's connectionMap_, or TcpClient::connectionPtr_, holds it
    held,     \* the callers whose user code keeps a TcpConnectionPtr
    ctx,      \* the WriteContexts allocated by send() and not deleted yet
    frame,    \* what the thread of the loop is running for this connection
    pc,       \* where each caller is: see PcValues
    tasks,    \* what runInLoopThread has queued for the loop, oldest first
    handle,   \* the uv_tcp_t: "open", "closing" after uv_close, "freed"
    reading,  \* uv_read_start is in force
    shutReq,  \* the uv_shutdown_t in progress: its data is NULL or the client
    pending,  \* libuv's queue of writes, oldest first
    finSent,  \* our FIN has left: uv_shutdown has completed
    peer,     \* the other end: "open", it sent "fin", or it reset ("rst")
    sent,     \* how many times each caller has called send()
    wired     \* history: number of each caller's last write given to uv_write

connVars == <<state, owner, held, ctx, frame, pc>>
uvVars   == <<handle, reading, shutReq, pending, finSent>>
histVars == <<sent, wired>>
vars     == <<connVars, tasks, uvVars, peer, histVars>>

States == {"CONNECTED", "FIN_WAIT", "CLOSE_WAIT", "CLOSED"}

\* The n-th send() of c.
Writes == Callers \X (1..MaxSends)

\* What can be posted: one write, or an operation that ends the connection.
\* shutdownWrite is a uv_shutdown whose request carries the handle to close.
Closing    == {"uv_shutdown", "shutdownWrite", "uv_close"}
WriteTasks == [op : {"uv_write"}, w : Writes]
CloseTasks == [op : Closing]
Tasks      == WriteTasks \cup CloseTasks

\* "callback": connectionCallback_, messageCallback_ or idleTimeoutCallback_.
\* The three eof places are the steps of readCallback for UV_EOF.
Frames == {"idle", "callback", "writeComplete",
           "eofCloseWait", "eofClosed", "eofCallback"}

\* "shutdown": inside the branch of shutdown() that found CONNECTED.
\* "destroy" and "drop": the same branch in ~TcpClient, and what follows it.
PcValues == {"run", "shutdown", "destroy", "drop"}

TypeOK ==
    /\ state \in States
    /\ owner \in BOOLEAN
    /\ held \subseteq Callers
    /\ ctx \subseteq Writes
    /\ frame \in Frames
    /\ pc \in [Callers -> PcValues]
    /\ tasks \in Seq(Tasks)
    /\ handle \in {"open", "closing", "freed"}
    /\ reading \in BOOLEAN
    /\ shutReq \in {"none", "plain", "close"}
    /\ pending \in Seq(Writes)
    /\ finSent \in BOOLEAN
    /\ peer \in {"open", "fin", "rst"}
    /\ sent \in [Callers -> 0..MaxSends]
    /\ wired \in [Callers -> 0..MaxSends]

\* newConnectionCallback and TcpClient::connectionCallback: reading has begun
\* and the user's connection callback runs with the new connection.
Init ==
    /\ state = "CONNECTED" /\ owner = TRUE /\ held = {} /\ ctx = {}
    /\ frame = "callback" /\ pc = [c \in Callers |-> "run"]
    /\ tasks = <<>>
    /\ handle = "open" /\ reading = TRUE /\ shutReq = "none"
    /\ pending = <<>> /\ finSent = FALSE
    /\ peer = "open"
    /\ sent = [c \in Callers |-> 0] /\ wired = [c \in Callers |-> 0]

(***************************************************************************)
(* Ownership.  The callbacks of the loop lock() the connection's weak_ptr; *)
(* writeCallback lives on the reference of its WriteContext.               *)
(***************************************************************************)
Locked == frame \notin {"idle", "writeComplete"}
Alive  == owner \/ held # {} \/ ctx # {} \/ Locked

UserCode == frame \in {"callback", "eofCallback", "writeComplete"}

\* c runs user code that has the connection at hand.
CanUse(c) ==
    /\ pc[c] = "run"
    /\ IF c = LoopThread
       THEN UserCode \/ (c \in held /\ frame = "idle")
       ELSE c \in held

LoopIdle == frame = "idle" /\ pc[LoopThread] = "run"

(***************************************************************************)
(* libuv, as this code uses it.                                            *)
(***************************************************************************)
\* uv_write may refuse, and then never calls back, once the stream is being
\* shut down or the peer has reset it; the code ignores the result.
UvWrite(w) ==
    /\ wired' = [wired EXCEPT ![w[1]] = w[2]]
    /\ \/ /\ handle = "open"
          /\ pending' = Append(pending, w)
       \/ /\ handle # "open" \/ shutReq # "none" \/ finSent \/ peer = "rst"
          /\ UNCHANGED pending

\* uv_shutdown refuses a stream that is or was shut down, or is closing.
UvShutdown(req) ==
    /\ shutReq' = IF handle = "open" /\ shutReq = "none" /\ ~finSent
                  THEN req ELSE shutReq
    /\ UNCHANGED handle

UvClose ==
    /\ handle' = IF handle = "open" THEN "closing" ELSE handle
    /\ UNCHANGED shutReq

\* Fault: shutdown() stores the client in its request too.
FaultyPerform(op) ==
    CASE op \in {"uv_shutdown", "shutdownWrite"} -> UvShutdown("close")
      [] op = "uv_close" -> UvClose

\* The body of a task that ends the connection.
Perform(op) ==
    CASE op = "uv_shutdown"   -> UvShutdown("plain")
      [] op = "shutdownWrite" -> UvShutdown("close")
      [] op = "uv_close"      -> UvClose

\* EventLoop::runInLoopThread for such a task.
RunInLoopThread(c, op) ==
    IF c = LoopThread
    THEN Perform(op) /\ UNCHANGED tasks
    ELSE tasks' = Append(tasks, [op |-> op]) /\ UNCHANGED <<shutReq, handle>>

(***************************************************************************)
(* ~TcpConnection, run by the caller whose reference was the last.         *)
(***************************************************************************)
Destruct(c) ==
    /\ state' = "CLOSED"
    /\ RunInLoopThread(c, IF state = "CLOSE_WAIT" THEN "shutdownWrite" ELSE "uv_close")

\* c has just given up a reference.
Unreferenced(c) ==
    IF Alive'
    THEN UNCHANGED <<state, tasks, shutReq, handle>>
    ELSE Destruct(c)

(***************************************************************************)
(* What user code does with a connection.                                  *)
(***************************************************************************)
\* What send() does with the write w and the contexts cs that exist then.
SendWrite(c, w, cs) ==
    /\ CanUse(c) /\ sent[c] < MaxSends
    /\ sent' = [sent EXCEPT ![c] = sent[c] + 1]
    /\ ctx' = cs
    /\ IF c = LoopThread
       THEN UvWrite(w) /\ UNCHANGED tasks
       ELSE /\ tasks' = Append(tasks, [op |-> "uv_write", w |-> w])
            /\ UNCHANGED <<pending, wired>>
    /\ UNCHANGED <<state, owner, held, frame, pc, handle, reading, shutReq,
                   finSent, peer>>

\* Fault: the WriteContext does not hold the connection.
FaultySendContext(c) == SendWrite(c, <<c, sent[c] + 1>>, ctx)

\* Fault: the newest task goes first.
FaultySendOrder(c) ==
    LET w == <<c, sent[c] + 1>> IN
      /\ c # LoopThread /\ CanUse(c) /\ sent[c] < MaxSends
      /\ sent' = [sent EXCEPT ![c] = sent[c] + 1]
      /\ ctx' = ctx \cup {w}
      /\ tasks' = <<[op |-> "uv_write", w |-> w]>> \o tasks
      /\ UNCHANGED <<state, owner, held, frame, pc, uvVars, peer, wired>>

Send(c) == LET w == <<c, sent[c] + 1>> IN SendWrite(c, w, ctx \cup {w})

\* shutdown() reads state_ here and writes it in ShutdownSet: no lock is held.
ShutdownCheck(c) ==
    /\ c \in Closers /\ CanUse(c) /\ state = "CONNECTED"
    /\ pc' = [pc EXCEPT ![c] = "shutdown"]
    /\ UNCHANGED <<state, owner, held, ctx, frame, tasks, uvVars, peer, histVars>>

ShutdownSet(c) ==
    /\ pc[c] \in {"shutdown", "destroy"}
    /\ state' = "FIN_WAIT"
    /\ RunInLoopThread(c, "uv_shutdown")
    /\ pc' = [pc EXCEPT ![c] = IF pc[c] = "shutdown" THEN "run" ELSE "drop"]
    /\ UNCHANGED <<owner, held, ctx, frame, reading, pending, finSent, peer, sent, wired>>

\* A callback's user code stores the connection, or hands it to a thread.
Share(c) ==
    /\ UserCode /\ c \notin held
    /\ held' = held \cup {c}
    /\ UNCHANGED <<state, owner, ctx, frame, pc, tasks, uvVars, peer, histVars>>

Release(c) ==
    /\ c \in held /\ CanUse(c)
    /\ held' = held \ {c}
    /\ UNCHANGED <<owner, ctx, frame, pc>>
    /\ Unreferenced(c)
    /\ UNCHANGED <<reading, pending, finSent, peer, histVars>>

(***************************************************************************)
(* ~TcpClient: connectionPtr_->shutdown(), then the member is destroyed.   *)
(***************************************************************************)
ClientDestroy(c) ==
    /\ ~HasCloseCallback /\ owner /\ c \in Closers
    /\ \A d \in Callers : pc[d] \notin {"destroy", "drop"}
    /\ pc[c] = "run" /\ (c = LoopThread => frame = "idle" \/ UserCode)
    /\ pc' = [pc EXCEPT ![c] = IF state = "CONNECTED" THEN "destroy" ELSE "drop"]
    /\ UNCHANGED <<state, owner, held, ctx, frame, tasks, uvVars, peer, histVars>>

ClientDrop(c) ==
    /\ pc[c] = "drop"
    /\ pc' = [pc EXCEPT ![c] = "run"]
    /\ owner' = FALSE
    /\ UNCHANGED <<held, ctx, frame>>
    /\ Unreferenced(c)
    /\ UNCHANGED <<reading, pending, finSent, peer, histVars>>

(***************************************************************************)
(* The thread of the loop.                                                 *)
(***************************************************************************)
RunTask ==
    /\ LoopIdle /\ tasks # <<>>
    /\ tasks' = Tail(tasks)
    /\ IF Head(tasks).op = "uv_write"
       THEN UvWrite(Head(tasks).w) /\ UNCHANGED <<shutReq, handle>>
       ELSE Perform(Head(tasks).op) /\ UNCHANGED <<pending, wired>>
    /\ UNCHANGED <<connVars, reading, finSent, peer, sent>>

\* libuv reports what it read while the handle is open and being read.
CanRead == LoopIdle /\ handle = "open" /\ reading

\* readCallback with data, or (a server's connection only) Entry::~Entry with
\* the idle timeout: either finds the connection through its weak_ptr and calls
\* the user.
CallbackBegin ==
    /\ LoopIdle /\ Alive /\ (CanRead \/ HasCloseCallback)
    /\ frame' = "callback"
    /\ UNCHANGED <<state, owner, held, ctx, pc, tasks, uvVars, peer, histVars>>

\* The callback returns and its reference goes.
CallbackEnd ==
    /\ frame = "callback" /\ pc[LoopThread] = "run"
    /\ frame' = "idle"
    /\ UNCHANGED <<owner, held, ctx, pc>>
    /\ Unreferenced(LoopThread)
    /\ UNCHANGED <<reading, pending, finSent, peer, histVars>>

\* Fault: an EOF after our own FIN also leads to CLOSE_WAIT.
FaultyEofRead ==
    /\ CanRead /\ peer = "fin" /\ Alive
    /\ frame' = "eofCloseWait"
    /\ UNCHANGED <<state, owner, held, ctx, pc, tasks, uvVars, peer, histVars>>

\* readCallback with UV_EOF: the new value of state_ is computed ...
EofRead ==
    /\ CanRead /\ peer = "fin" /\ Alive
    /\ frame' = IF state = "CONNECTED" THEN "eofCloseWait" ELSE "eofClosed"
    /\ UNCHANGED <<state, owner, held, ctx, pc, tasks, uvVars, peer, histVars>>

\* ... and stored; connectionCallback_ is called.
EofWrite ==
    /\ frame \in {"eofCloseWait", "eofClosed"}
    /\ state' = IF frame = "eofCloseWait" THEN "CLOSE_WAIT" ELSE "CLOSED"
    /\ frame' = "eofCallback"
    /\ UNCHANGED <<owner, held, ctx, pc, tasks, uvVars, peer, histVars>>

\* Fault: reading is not stopped.
FaultyEofEnd ==
    /\ frame = "eofCallback" /\ pc[LoopThread] = "run"
    /\ frame' = "idle"
    /\ owner' = (owner /\ ~HasCloseCallback)
    /\ UNCHANGED <<held, ctx, pc, reading>>
    /\ Unreferenced(LoopThread)
    /\ UNCHANGED <<pending, finSent, peer, histVars>>

\* It returns: uv_read_stop, then closeCallback_ (TcpServer::removeConnection),
\* then readCallback's own reference goes.
EofEnd ==
    /\ frame = "eofCallback" /\ pc[LoopThread] = "run"
    /\ frame' = "idle"
    /\ reading' = FALSE
    /\ owner' = (owner /\ ~HasCloseCallback)
    /\ UNCHANGED <<held, ctx, pc>>
    /\ Unreferenced(LoopThread)
    /\ UNCHANGED <<pending, finSent, peer, histVars>>

\* Any other negative nread is only printed; libuv itself stops reading.
ReadError ==
    /\ CanRead /\ peer = "rst"
    /\ reading' = FALSE
    /\ UNCHANGED <<connVars, tasks, handle, shutReq, pending, finSent, peer, histVars>>

\* writeCallback with status 0 calls writeCompleteCallback_; the context, still
\* the head of the queue here, is deleted in WriteEnd.
WriteDone ==
    /\ LoopIdle /\ pending # <<>>
    /\ handle = "open" /\ ~finSent /\ peer # "rst"
    /\ frame' = "writeComplete"
    /\ UNCHANGED <<state, owner, held, ctx, pc, tasks, uvVars, peer, histVars>>

DeleteContext ==
    /\ ctx' = ctx \ {Head(pending)}
    /\ pending' = Tail(pending)
    /\ UNCHANGED <<owner, held, pc>>
    /\ Unreferenced(LoopThread)
    /\ UNCHANGED <<reading, finSent, peer, histVars>>

WriteEnd ==
    /\ frame = "writeComplete" /\ pc[LoopThread] = "run"
    /\ frame' = "idle"
    /\ DeleteContext

\* Fault: the context is deleted only if the write succeeded.
FaultyWriteFailed ==
    /\ LoopIdle /\ pending # <<>>
    /\ handle # "open" \/ finSent \/ peer = "rst"
    /\ pending' = Tail(pending)
    /\ UNCHANGED <<connVars, tasks, handle, reading, shutReq, finSent, peer, histVars>>

\* writeCallback with an error: reset, FIN already sent, or handle closing.
WriteFailed ==
    /\ LoopIdle /\ pending # <<>>
    /\ handle # "open" \/ finSent \/ peer = "rst"
    /\ UNCHANGED frame
    /\ DeleteContext

\* Fault: shutdownCallback never closes the handle.
FaultyShutdownCompleted ==
    /\ LoopIdle /\ shutReq # "none" /\ (handle = "open" => pending = <<>>)
    /\ finSent' = TRUE /\ shutReq' = "none"
    /\ UNCHANGED <<connVars, tasks, handle, reading, pending, peer, histVars>>

\* shutdownCallback: the queue of writes has drained (or uv_close cancelled
\* the request); a request that carries the client closes it.
ShutdownCompleted ==
    /\ LoopIdle /\ shutReq # "none"
    /\ handle = "open" => pending = <<>>
    /\ finSent' \in IF handle # "open" THEN {finSent}
                    ELSE IF peer = "rst" THEN BOOLEAN ELSE {TRUE}
    /\ shutReq' = "none"
    /\ handle' = IF shutReq = "close" /\ handle = "open" THEN "closing" ELSE handle
    /\ UNCHANGED <<connVars, tasks, reading, pending, peer, histVars>>

\* closeCallback frees the handle, after libuv has called the other callbacks.
CloseCompleted ==
    /\ LoopIdle /\ handle = "closing" /\ pending = <<>> /\ shutReq = "none"
    /\ handle' = "freed"
    /\ UNCHANGED <<connVars, tasks, reading, shutReq, pending, finSent, peer, histVars>>

(***************************************************************************)
(* The other end.                                                          *)
(***************************************************************************)
PeerClose ==
    /\ peer = "open" /\ peer' = "fin"
    /\ UNCHANGED <<connVars, tasks, uvVars, histVars>>

PeerReset ==
    /\ peer # "rst" /\ peer' = "rst"
    /\ UNCHANGED <<connVars, tasks, uvVars, histVars>>

Caller(c) ==
    \/ Send(c) \/ ShutdownCheck(c) \/ ShutdownSet(c) \/ Share(c) \/ Release(c)
    \/ ClientDestroy(c) \/ ClientDrop(c)

Loop ==
    \/ RunTask \/ CallbackBegin \/ CallbackEnd
    \/ EofRead \/ EofWrite \/ EofEnd \/ ReadError
    \/ WriteDone \/ WriteEnd \/ WriteFailed
    \/ ShutdownCompleted \/ CloseCompleted

Next == (\E c \in Callers : Caller(c)) \/ Loop \/ PeerClose \/ PeerReset

Spec == Init /\ [][Next]_vars

\* Callbacks return, started calls finish, and one iteration of the loop serves
\* every handle that is ready, so that none is passed over for ever; a write
\* that the peer neither takes nor resets is assumed not to wait for ever.
Fairness ==
    /\ \A c \in Callers : WF_vars(ShutdownSet(c)) /\ WF_vars(ClientDrop(c))
    /\ WF_vars(CallbackEnd) /\ WF_vars(EofWrite) /\ WF_vars(EofEnd)
    /\ WF_vars(WriteEnd)
    /\ SF_vars(RunTask) /\ SF_vars(WriteDone) /\ SF_vars(WriteFailed)
    /\ SF_vars(ShutdownCompleted) /\ SF_vars(CloseCompleted)

FairSpec == Spec /\ Fairness

(***************************************************************************)
(* Properties.                                                             *)
(***************************************************************************)
\* The operations that close the handle and are still to come.
IsCloser(t)   == t.op \in {"shutdownWrite", "uv_close"}
PostedClosers == {i \in DOMAIN tasks : IsCloser(tasks[i])}

\* assert(conn != NULL) in readCallback: as long as libuv may report a read,
\* the weak_ptr it is reported through can be locked.
ReadCallbackFindsConn == CanRead => Alive

\* assert(state_ != CLOSED && state_ != CLOSE_WAIT) in readCallback: whatever
\* the threads did, an EOF meets a connection that has not seen one.
EofMeetsOpenState == CanRead /\ Alive => state \in {"CONNECTED", "FIN_WAIT"}

\* As long as anybody holds the connection its handle is open and nothing that
\* would close it has been posted: send() and shutdown() never use a dead handle.
HandleOutlivesConnection ==
    Alive => PostedClosers = {} /\ shutReq # "close" /\ handle = "open"

\* The destructor, shutdownWrite and shutdownCallback together close the handle
\* once: there is never a second operation on its way that would close it.
ClosesOnce ==
    /\ \A i, j \in PostedClosers : i = j
    /\ PostedClosers # {} => shutReq # "close" /\ handle = "open"
    /\ shutReq = "close" => handle = "open"

\* Once the handle is closing no write waits for it, and the only operation that
\* can still arrive is the uv_shutdown of a thread that let go right after.
OnlyShutdownMayBeLate ==
    handle # "open" =>
        /\ pending = <<>>
        /\ \A i \in DOMAIN tasks : tasks[i].op = "uv_shutdown"

\* If only the thread of the loop calls shutdown(), nothing arrives late.
NothingIsLate == handle # "open" => tasks = <<>> /\ pending = <<>>

\* A write that is queued, in the loop's tasks or in libuv, has its WriteContext.
QueuedWritesHaveContext ==
    /\ \A i \in DOMAIN pending : pending[i] \in ctx
    /\ \A i \in DOMAIN tasks : tasks[i].op = "uv_write" => tasks[i].w \in ctx

\* writeCompleteCallback_ runs with its write still at the head of the queue.
WriteAtHead == frame = "writeComplete" => pending # <<>>

\* Whoever is inside a call of shutdown() or of ~TcpClient has the connection,
\* and only one caller destroys the client.
BusyCallersHold ==
    /\ \A c \in Callers :
          /\ pc[c] = "shutdown" => c \in held \/ (c = LoopThread /\ UserCode)
          /\ pc[c] \in {"destroy", "drop"} => owner /\ ~HasCloseCallback
    /\ \A c, d \in Callers :
          pc[c] \in {"destroy", "drop"} /\ pc[d] \in {"destroy", "drop"} => c = d

\* The writes of each caller are numbered as they travel: those given to uv_write
\* are wired, the others wait in tasks, all of them, in the order of the calls;
\* only threads other than the loop's have any waiting.
IsWriteOf(t, c) == t.op = "uv_write" /\ t.w[1] = c
WritesNumbered ==
    /\ \A i \in DOMAIN pending : pending[i][2] <= wired[pending[i][1]]
    /\ \A i, j \in DOMAIN pending : pending[i] = pending[j] => i = j
    /\ \A c \in Callers, i \in DOMAIN tasks : IsWriteOf(tasks[i], c) =>
          c # LoopThread /\ wired[c] < tasks[i].w[2] /\ tasks[i].w[2] <= sent[c]
    /\ \A c \in Callers, i, j \in DOMAIN tasks :
          IsWriteOf(tasks[i], c) /\ IsWriteOf(tasks[j], c) /\ i < j =>
            tasks[i].w[2] < tasks[j].w[2]
    /\ \A c \in Callers : wired[c] <= sent[c]
    /\ \A c \in Callers, n \in 1..MaxSends : wired[c] < n /\ n <= sent[c] =>
          \E i \in DOMAIN tasks : IsWriteOf(tasks[i], c) /\ tasks[i].w[2] = n

\* TcpServer forgets a connection only after uv_read_stop.
ServerReadsOwned == HasCloseCallback /\ reading => owner

\* A connection that is still read has seen no EOF, or is just telling the user.
OpenUntilEof ==
    reading /\ Alive /\ frame # "eofCallback" => state \in {"CONNECTED", "FIN_WAIT"}

\* The inductive invariant behind the properties above.
IInv ==
    /\ TypeOK
    /\ WriteAtHead
    /\ BusyCallersHold
    /\ QueuedWritesHaveContext
    /\ WritesNumbered
    /\ HandleOutlivesConnection
    /\ ClosesOnce
    /\ ServerReadsOwned
    /\ OpenUntilEof

\* In CLOSE_WAIT this side can go on sending (comment in readCallback): it has
\* not sent, nor asked for, a FIN of its own.
CloseWaitCanSend ==
    state = "CLOSE_WAIT" =>
        /\ shutReq = "none" /\ ~finSent
        /\ \A i \in DOMAIN tasks : tasks[i].op # "uv_shutdown"

\* What one caller sends is given to uv_write in the order of its calls, each
\* once, whether it was queued for the loop or called directly.
SendOrder ==
    [][\A c \in Callers : wired'[c] \in {wired[c], wired[c] + 1}]_vars

\* A connection that nobody holds any more gets its handle closed and freed.
DestroyedIsClosed == ~Alive ~> handle = "freed"

\* shutdown() on an open connection leads to our FIN, unless the peer resets the connection or nobody
\* holds it any more.  What a thread has sent before may be queued behind it, and is refused then.
FinWaitSendsFin ==
    state = "FIN_WAIT" ~> (finSent \/ ~Alive \/ peer = "rst")

\* Every write libuv took is answered and its WriteContext deleted, so that it
\* does not keep the connection for ever.
AcceptedWritesEnd ==
    \A w \in Writes : (\E i \in DOMAIN pending : pending[i] = w) ~> w \notin ctx

\* Both requests a connection makes of libuv come to their end.
RequestsEnd == FinWaitSendsFin /\ AcceptedWritesEnd
=============================================================================
