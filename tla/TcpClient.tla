----------------------------- MODULE TcpClient -----------------------------
(***************************************************************************)
(* TcpClient: connect, the attempts and their retries.  Attempt h uses the *)
(* h-th handle.  connectImpl may run in any thread, what follows runs in   *)
(* the loop's.  A connection that was made is TcpConnection's subject; all *)
(* that matters here is that it ends.  A retry waits for its timer, whose  *)
(* time passes in microseconds, while libuv counts whole milliseconds from *)
(* the time at which the loop has last read its clock.                     *)
(***************************************************************************)
EXTENDS Timeval, FiniteSets

CONSTANTS
    MaxRetry,      \* bound: the largest retryNum_, with which it begins
    RetryDelay,    \* 10000: the n-th retry waits n times as long
    MaxGap,        \* bound: the microseconds between two readings of the clock in runAfter
    MaxLag,        \* bound: the microseconds by which the loop's clock is behind
    MaxConnects    \* bound: how often the user calls connect()

ASSUME ClientAssumption ==
    /\ MaxRetry \in Nat /\ MaxConnects \in Nat \ {0}
    /\ RetryDelay \in Nat /\ MaxLag \in Nat /\ MaxGap \in 0..(RetryDelay * Milli)

Attempts == 1..(MaxConnects * (MaxRetry + 1))
NoTimer == [left |-> 0, waited |-> 0]

VARIABLES
    retryNum,   \* retryNum_
    client,     \* client_: the attempt whose handle it is, 0 for NULL
    curr,       \* curr_
    conn,       \* connectionPtr_: the attempt that made it, 0 for NULL
    handle,     \* "none", "posted" to the loop, "connecting", "refused" or "closed"; "open" or
                \* "ended" if it is a connection's
    timers,     \* how many timers will call connectImpl
    timer,      \* the last one: the microseconds that are left, and those since the failure
    connects,   \* how often the user called connect()
    gone,       \* the TcpClient is destroyed
    first,      \* history: the first attempt of the last connect()
    wild        \* history: a callback used what is no open handle, or a TcpClient that is gone

vars == <<retryNum, client, curr, conn, handle, timers, timer, connects, gone, first, wild>>

TypeOK ==
    /\ retryNum \in 0..MaxRetry
    /\ client \in {0} \cup Attempts
    /\ curr \in 0..(MaxRetry + 1)
    /\ conn \in {0} \cup Attempts
    /\ handle \in [Attempts -> {"none", "posted", "connecting", "refused", "closed", "open", "ended"}]
    /\ timers \in 0..MaxConnects
    /\ timer \in [left : Nat, waited : Nat]
    /\ connects \in 0..MaxConnects
    /\ gone \in BOOLEAN /\ wild \in BOOLEAN
    /\ first \in {0} \cup Attempts

Init ==
    /\ retryNum = MaxRetry
    /\ client = 0 /\ curr = 0 /\ conn = 0
    /\ handle = [h \in Attempts |-> "none"]
    /\ timers = 0 /\ timer = NoTimer
    /\ connects = 0 /\ first = 0
    /\ gone = FALSE /\ wild = FALSE

\* The attempts under way, and those that will be made.
UnderWay == {h \in Attempts : handle[h] \in {"posted", "connecting"}}
Pending == UnderWay # {} \/ timers > 0

-----------------------------------------------------------------------------
\* connectImpl: a new handle, whose uv_tcp_connect is sent to the loop.
ConnectImpl ==
    \E h \in Attempts :
        /\ handle[h] = "none" /\ \A g \in 1..(h - 1) : handle[g] # "none"
        /\ client' = h
        /\ handle' = [handle EXCEPT ![h] = "posted"]

\* setRetryNum and connect().  The user's duty: no attempt is pending, and no connection is open.
Connect ==
    /\ ~gone /\ connects < MaxConnects
    /\ ~Pending /\ (conn # 0 => handle[conn] = "ended")
    /\ ConnectImpl
    /\ curr' = 0 /\ retryNum' \in 0..MaxRetry
    /\ connects' = connects + 1
    /\ first' = client'
    /\ UNCHANGED <<conn, timers, timer, gone, wild>>

\* uv_tcp_connect.  Its result is not looked at: an error means that no callback comes.
UvTcpConnect(h) ==
    /\ handle[h] = "posted"
    /\ \E s \in {"connecting", "refused"} : handle' = [handle EXCEPT ![h] = s]
    /\ UNCHANGED <<retryNum, client, curr, conn, timers, timer, connects, gone, first, wild>>

\* Fault: the connection is made of the handle of the request, and client_ is forgotten.
FaultyConnected(h) ==
    /\ handle[h] = "connecting"
    /\ handle' = [handle EXCEPT ![h] = "open"]
    /\ UNCHANGED <<retryNum, client, curr, conn, timers, timer, connects, gone, first, wild>>

\* connectionCallback without an error.  It reads from client_, whichever attempt this was; if
\* that cannot be read it closes the TcpClient as if it were the handle.
Connected(h) ==
    /\ handle[h] = "connecting"
    /\ handle' = [handle EXCEPT ![h] = "open"]
    /\ conn' = IF handle'[client] = "open" THEN client ELSE conn
    /\ wild' = (wild \/ gone \/ handle'[client] # "open")
    /\ UNCHANGED <<retryNum, client, curr, timers, timer, connects, gone, first>>

\* Fault: one retry less.
FaultyTriesAgain == curr' < retryNum

\* Fault: it never gives up.
FaultyTriesAlways == TRUE

TriesAgain == curr' <= retryNum

\* runAfter(curr_ * 10000), whose second reading of the clock comes gap later than the first;
\* the timer starts at once, since this is the loop's thread, and counts from the loop's clock.
StartTimer(gap, lag) ==
    LET delay == curr' * RetryDelay
        timeout == Timeout(0, gap, delay) * Milli
    IN  /\ AtLeast(Due(0, delay), gap)
        /\ timers' = timers + 1
        /\ timer' = [left |-> IF timeout > lag THEN timeout - lag ELSE 0, waited |-> gap]

\* connectionCallback with an error: client_ is closed and the next attempt gets its timer.
Failed(h) ==
    /\ handle[h] = "connecting"
    /\ handle' = [handle EXCEPT ![client] = "closed"]
    /\ curr' = curr + 1
    /\ IF TriesAgain THEN \E gap \in 0..MaxGap : \E lag \in gap..MaxLag : StartTimer(gap, lag)
       ELSE UNCHANGED <<timers, timer>>
    /\ wild' = (wild \/ gone \/ handle[client] # "connecting")
    /\ UNCHANGED <<retryNum, client, conn, connects, gone, first>>

\* A microsecond passes while a timer runs.
Tick ==
    /\ timers > 0 /\ timer.left > 0
    /\ timer' = [left |-> timer.left - 1, waited |-> timer.waited + 1]
    /\ UNCHANGED <<retryNum, client, curr, conn, handle, timers, connects, gone, first, wild>>

\* The timer of runAfter fires.
Retry ==
    /\ timers > 0 /\ timer.left = 0
    /\ ConnectImpl
    /\ timers' = timers - 1
    /\ timer' = NoTimer
    /\ wild' = (wild \/ gone)
    /\ UNCHANGED <<retryNum, curr, conn, connects, gone, first>>

\* The peer ends the connection.  connectionPtr_ keeps it, and with it the handle, until another takes
\* its place.
Disconnected ==
    /\ conn # 0 /\ handle[conn] = "open"
    /\ handle' = [handle EXCEPT ![conn] = "ended"]
    /\ UNCHANGED <<retryNum, client, curr, conn, timers, timer, connects, gone, first, wild>>

\* ~TcpClient shuts the connection down and drops it; requests and timers keep their pointer.
\* The user's duty: there is a connection, and it has not ended.
Destroy ==
    /\ ~gone /\ conn # 0 /\ handle[conn] = "open"
    /\ gone' = TRUE
    /\ UNCHANGED <<retryNum, client, curr, conn, handle, timers, timer, connects, first, wild>>

Attempt(h) == UvTcpConnect(h) \/ Connected(h) \/ Failed(h)

Next ==
    \/ Connect \/ Retry \/ Tick \/ Disconnected \/ Destroy
    \/ \E h \in Attempts : Attempt(h)

Spec == Init /\ [][Next]_vars

\* Attempts succeed or fail, time passes, and timers fire.
FairSpec ==
    /\ Spec
    /\ WF_vars(Retry) /\ WF_vars(Tick)
    /\ \A h \in Attempts : WF_vars(Attempt(h))

-----------------------------------------------------------------------------
(* Properties *)

\* There is one attempt at a time, and client_ is its handle: the callback, which does not look
\* at its request, acts on the right one, and on a TcpClient that still exists, if that is destroyed
\* only while its connection is open.
OneAttempt ==
    /\ Cardinality(UnderWay) + timers <= 1
    /\ UnderWay \subseteq {client}
    /\ ~wild

\* The timer will not have waited less than RetryDelay for each failure, but for the part of a
\* millisecond that the conversion loses, and the time by which the loop's clock was behind.
TimerIsLate == timer.waited + timer.left + Milli + MaxLag > curr * RetryDelay * Milli

\* connectionPtr_ keeps every connection that is open.
NoneIsForgotten == \A h \in Attempts : handle[h] = "open" => h = conn /\ ~Pending

\* Handles are made one after the other, and while a connect() goes on, curr_ is not beyond
\* retryNum_ and each attempt before the one of client_ has failed.
AttemptsFollow ==
    /\ first <= client
    /\ \A h \in Attempts : handle[h] # "none" <=> h <= client
    /\ Pending => /\ ~gone /\ first # 0 /\ curr <= retryNum
                  /\ \A h \in first..client : h = client \/ handle[h] = "closed"
    /\ timers > 0 => handle[client] = "closed" /\ TimerIsLate

IInv == TypeOK /\ OneAttempt /\ NoneIsForgotten /\ AttemptsFollow

\* What has become of the attempts of the last connect(): after the n-th failed, curr_ is n, and it
\* gives up after exactly 1 + retryNum_ of them, all closed.
AttemptsCounted ==
    first # 0 =>
        /\ first <= client /\ client <= first + curr
        /\ UnderWay # {} => client = first + curr
        /\ timers > 0 => curr <= retryNum /\ client + 1 = first + curr
        /\ ~Pending /\ handle[client] = "closed" /\ conn # client =>
               /\ client = first + retryNum
               /\ \A h \in first..client : handle[h] = "closed"

\* The n-th retry comes n times RetryDelay after the failure, but for those two.
RetriesAreSpaced ==
    [][Retry => timer.waited + Milli + MaxLag > curr * RetryDelay * Milli]_vars

\* connect() ends: connected, given up, or with an attempt that uv_tcp_connect refused.
ConnectEnds == Pending ~> ~Pending
=============================================================================
