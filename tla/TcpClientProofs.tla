-------------------------- MODULE TcpClientProofs --------------------------
(***************************************************************************)
(* Proofs about TcpClient, for any number of retries and of calls, and any *)
(* delay, resolution and lag of the clocks.                                *)
(***************************************************************************)
EXTENDS TcpClient, FiniteSetTheorems, TLAPS

Inv == IInv /\ AttemptsCounted

-----------------------------------------------------------------------------
(* Facts *)

LEMMA DivBound ==
  ASSUME NEW a \in Nat, NEW m \in Nat \ {0}
  PROVE  a \div m \in Nat /\ (a \div m) * m \in Nat /\ (a \div m) * m + m > a
  BY SMT

LEMMA ProductIsNat ==
  ASSUME NEW a \in Nat, NEW b \in Nat
  PROVE  a * b \in Nat
  BY SMT

LEMMA ProductGrows ==
  ASSUME NEW c \in Nat \ {0}, NEW d \in Nat, NEW m \in Nat
  PROVE  c * d * m \in Nat /\ c * d * m >= d * m
  BY SMT

\* What is under way is nothing, or the attempt of client_ alone.
LEMMA AloneUnderWay ==
  ASSUME NEW S, NEW x, S \subseteq {x}
  PROVE  /\ S = {} => Cardinality(S) = 0
         /\ S # {} => S = {x} /\ Cardinality(S) = 1
  <1>1. S = {} \/ S = {x}
    OBVIOUS
  <1>2. Cardinality({}) = 0 /\ Cardinality({x}) = 1
    BY FS_EmptySet, FS_Singleton
  <1>. QED
    BY <1>1, <1>2

LEMMA AloneFacts ==
  ASSUME Inv
  PROVE  /\ timers \in {0, 1}
         /\ \A h \in UnderWay : h = client /\ timers = 0
         /\ timers = 1 => UnderWay = {}
  <1>1. /\ UnderWay = {} => Cardinality(UnderWay) = 0
        /\ UnderWay # {} => UnderWay = {client} /\ Cardinality(UnderWay) = 1
    BY AloneUnderWay DEF Inv, IInv, OneAttempt
  <1>2. Cardinality(UnderWay) + timers <= 1 /\ timers \in Nat
    BY ClientAssumption DEF Inv, IInv, OneAttempt, TypeOK
  <1>. QED
    BY <1>1, <1>2

\* The other way round, for the next state.
LEMMA AloneInNext ==
  ASSUME /\ UnderWay' \subseteq {client'}
         /\ \/ UnderWay' = {} /\ timers' \in {0, 1}
            \/ timers' = 0
  PROVE  (Cardinality(UnderWay) + timers <= 1)'
  <1>1. /\ UnderWay' = {} => Cardinality(UnderWay') = 0
        /\ UnderWay' # {} => Cardinality(UnderWay') = 1
    BY AloneUnderWay
  <1>. QED
    BY <1>1

LEMMA InitInv == Init => Inv
  <1>. SUFFICES ASSUME Init PROVE Inv
    OBVIOUS
  <1>1. UnderWay = {} /\ ~Pending
    BY DEF Init, UnderWay, Pending
  <1>3. Cardinality(UnderWay) = 0
    BY <1>1, FS_EmptySet
  <1>2. TypeOK
    <2>1. retryNum \in 0..MaxRetry /\ curr \in 0..(MaxRetry + 1) /\ timers \in 0..MaxConnects
          /\ connects \in 0..MaxConnects
      BY ClientAssumption DEF Init
    <2>2. handle \in [Attempts -> {"none", "posted", "connecting", "refused", "closed", "open", "ended"}]
      BY DEF Init
    <2>3. timer \in [left : Nat, waited : Nat]
      BY DEF Init, NoTimer
    <2>. QED
      BY <2>1, <2>2, <2>3 DEF Init, TypeOK
  <1>. QED
    BY <1>1, <1>2, <1>3, ClientAssumption
    DEF Init, Inv, IInv, OneAttempt, NoneIsForgotten, AttemptsFollow, AttemptsCounted, Attempts

-----------------------------------------------------------------------------
(* connectImpl *)

\* The handle that connectImpl makes is the one after client_.
LEMMA NextHandle ==
  ASSUME Inv, ConnectImpl
  PROVE  /\ client' = client + 1 /\ client' \in Attempts
         /\ handle' = [handle EXCEPT ![client'] = "posted"]
         /\ handle[client'] = "none"
  <1>1. PICK h \in Attempts : /\ handle[h] = "none"
                              /\ \A g \in 1..(h - 1) : handle[g] # "none"
                              /\ client' = h /\ handle' = [handle EXCEPT ![h] = "posted"]
    BY DEF ConnectImpl
  <1>2. MaxConnects * (MaxRetry + 1) \in Nat
    BY ProductIsNat, ClientAssumption
  <1>3. h > client
    BY <1>1, <1>2 DEF Inv, IInv, AttemptsFollow, TypeOK, Attempts
  <1>4. h = 1 \/ h - 1 \in Attempts
    BY <1>2 DEF Attempts
  <1>5. h = 1 \/ h - 1 <= client
    BY <1>1, <1>2, <1>4 DEF Inv, IInv, AttemptsFollow, Attempts
  <1>. QED
    BY <1>1, <1>2, <1>3, <1>5 DEF Inv, IInv, TypeOK, Attempts

\* Afterwards that attempt alone is under way.
LEMMA NextUnderWay ==
  ASSUME Inv, ConnectImpl, UnderWay = {}
  PROVE  /\ UnderWay' = {client'}
         /\ handle' \in [Attempts -> {"none", "posted", "connecting", "refused", "closed", "open", "ended"}]
  <1>1. /\ client' \in Attempts /\ handle' = [handle EXCEPT ![client'] = "posted"]
    BY NextHandle
  <1>. QED
    BY <1>1 DEF UnderWay, Inv, IInv, TypeOK

LEMMA ConnectInv ==
  ASSUME Inv, Connect
  PROVE  Inv'
  <1>1. /\ UnderWay = {} /\ timers = 0
        /\ conn # 0 => handle[conn] = "ended"
        /\ ~gone
        /\ ConnectImpl /\ curr' = 0 /\ retryNum' \in 0..MaxRetry
        /\ connects < MaxConnects /\ connects' = connects + 1 /\ first' = client'
        /\ UNCHANGED <<conn, timers, timer, gone, wild>>
    BY DEF Connect, Pending, Inv, IInv, TypeOK
  <1>2. /\ client' = client + 1 /\ client' \in Attempts
        /\ handle' = [handle EXCEPT ![client'] = "posted"] /\ handle[client'] = "none"
    BY <1>1, NextHandle
  <1>3. /\ UnderWay' = {client'}
        /\ handle' \in [Attempts -> {"none", "posted", "connecting", "refused", "closed", "open", "ended"}]
    BY <1>1, NextUnderWay
  <1>9. curr' \in 0..(MaxRetry + 1) /\ connects' \in 0..MaxConnects
    BY <1>1, ClientAssumption DEF Inv, IInv, TypeOK
  <1>10. client' \in {0} \cup Attempts /\ first' \in {0} \cup Attempts
    BY <1>1, <1>2
  <1>11. TypeOK
    BY DEF Inv, IInv
  <1>4. TypeOK'
    <2>1. retryNum' \in 0..MaxRetry /\ UNCHANGED <<conn, timers, timer, gone, wild>>
      BY <1>1
    <2>. QED
      BY <2>1, <1>3, <1>9, <1>10, <1>11 DEF TypeOK
  <1>5. OneAttempt'
    BY <1>1, <1>3, AloneInNext DEF Inv, IInv, OneAttempt
  <1>6. NoneIsForgotten'
    <2>1. \A g \in Attempts : g # 0
      BY DEF Attempts
    <2>. QED
      BY <1>1, <1>2, <1>3, <2>1 DEF Inv, IInv, NoneIsForgotten, TypeOK
  <1>7. AttemptsFollow'
    BY <1>1, <1>2, <1>3, <1>4 DEF Inv, IInv, AttemptsFollow, TypeOK, Attempts
  <1>8. AttemptsCounted'
    BY <1>1, <1>2, <1>3 DEF Inv, IInv, AttemptsCounted, Pending, TypeOK, Attempts
  <1>. QED
    BY <1>4, <1>5, <1>6, <1>7, <1>8 DEF Inv, IInv

LEMMA RetryInv ==
  ASSUME Inv, Retry
  PROVE  Inv'
  <1>1. /\ UnderWay = {} /\ timers = 1 /\ timers' = 0
        /\ ConnectImpl /\ timer' = NoTimer /\ wild' = (wild \/ gone)
        /\ UNCHANGED <<retryNum, curr, conn, connects, gone, first>>
    BY AloneFacts DEF Retry
  <1>2. /\ client' = client + 1 /\ client' \in Attempts
        /\ handle' = [handle EXCEPT ![client'] = "posted"] /\ handle[client'] = "none"
    BY <1>1, NextHandle
  <1>3. /\ UnderWay' = {client'}
        /\ handle' \in [Attempts -> {"none", "posted", "connecting", "refused", "closed", "open", "ended"}]
    BY <1>1, NextUnderWay
  <1>9. ~gone /\ Pending
    BY <1>1 DEF Inv, IInv, AttemptsFollow, Pending
  <1>4. TypeOK'
    BY <1>1, <1>2, <1>3, ClientAssumption DEF Inv, IInv, TypeOK, NoTimer
  <1>5. OneAttempt'
    BY <1>1, <1>3, <1>9, AloneInNext DEF Inv, IInv, OneAttempt
  <1>6. NoneIsForgotten'
    BY <1>1, <1>2, <1>3, <1>9 DEF Inv, IInv, NoneIsForgotten, TypeOK
  <1>7. AttemptsFollow'
    BY <1>1, <1>2, <1>3, <1>4, <1>9 DEF Inv, IInv, AttemptsFollow, TypeOK, Attempts
  <1>8. AttemptsCounted'
    BY <1>1, <1>2, <1>3, <1>9 DEF Inv, IInv, AttemptsCounted, AttemptsFollow, Pending, TypeOK, Attempts
  <1>. QED
    BY <1>4, <1>5, <1>6, <1>7, <1>8 DEF Inv, IInv

-----------------------------------------------------------------------------
(* An attempt *)

\* An attempt that is under way is the one of client_, and there is neither a timer nor another.
LEMMA AttemptFacts ==
  ASSUME Inv, NEW h \in Attempts, handle[h] \in {"posted", "connecting"}
  PROVE  /\ h = client /\ timers = 0 /\ UnderWay = {h} /\ Pending
         /\ ~gone /\ first # 0 /\ curr <= retryNum /\ client = first + curr
         /\ \A g \in Attempts : handle[g] # "open"
  <1>1. h \in UnderWay
    BY DEF UnderWay
  <1>2. h = client /\ timers = 0 /\ UnderWay = {h}
    BY <1>1, AloneFacts
  <1>3. Pending
    BY <1>1 DEF Pending
  <1>. QED
    BY <1>1, <1>2, <1>3 DEF Inv, IInv, AttemptsFollow, AttemptsCounted, NoneIsForgotten, TypeOK

LEMMA UvTcpConnectInv ==
  ASSUME Inv, NEW h \in Attempts, UvTcpConnect(h)
  PROVE  Inv'
  <1>1. /\ h = client /\ timers = 0 /\ UnderWay = {h} /\ Pending
        /\ ~gone /\ first # 0 /\ curr <= retryNum /\ client = first + curr
        /\ \A g \in Attempts : handle[g] # "open"
    BY AttemptFacts DEF UvTcpConnect
  <1>2. PICK s \in {"connecting", "refused"} : handle' = [handle EXCEPT ![h] = s]
    BY DEF UvTcpConnect
  <1>3. UNCHANGED <<retryNum, client, curr, conn, timers, timer, connects, gone, first, wild>>
    BY DEF UvTcpConnect
  <1>4. TypeOK'
    BY <1>2, <1>3 DEF Inv, IInv, TypeOK
  <1>5. UnderWay' \subseteq {client'}
    BY <1>1, <1>2, <1>3 DEF UnderWay, Inv, IInv, TypeOK
  <1>6. OneAttempt'
    BY <1>1, <1>3, <1>5, AloneInNext DEF Inv, IInv, OneAttempt
  <1>7. NoneIsForgotten'
    BY <1>1, <1>2, <1>3 DEF Inv, IInv, NoneIsForgotten, TypeOK
  <1>8. AttemptsFollow'
    BY <1>1, <1>2, <1>3 DEF Inv, IInv, AttemptsFollow, TypeOK, Attempts
  <1>9. AttemptsCounted'
    BY <1>1, <1>2, <1>3 DEF Inv, IInv, AttemptsCounted, TypeOK, Attempts
  <1>. QED
    BY <1>4, <1>6, <1>7, <1>8, <1>9 DEF Inv, IInv

LEMMA ConnectedInv ==
  ASSUME Inv, NEW h \in Attempts, Connected(h)
  PROVE  Inv'
  <1>1. /\ h = client /\ timers = 0 /\ UnderWay = {h} /\ Pending
        /\ ~gone /\ first # 0 /\ curr <= retryNum /\ client = first + curr
        /\ \A g \in Attempts : handle[g] # "open"
    BY AttemptFacts DEF Connected
  <1>2. /\ handle' = [handle EXCEPT ![h] = "open"]
        /\ handle'[client] = "open" /\ conn' = client
        /\ UNCHANGED <<retryNum, client, curr, timers, timer, connects, gone, first, wild>>
    BY <1>1 DEF Connected, Inv, IInv, TypeOK
  <1>3. UnderWay' = {} /\ ~Pending'
    BY <1>1, <1>2 DEF UnderWay, Pending, Inv, IInv, TypeOK
  <1>4. TypeOK'
    BY <1>1, <1>2 DEF Inv, IInv, TypeOK
  <1>6. OneAttempt'
    BY <1>1, <1>2, <1>3, AloneInNext DEF Inv, IInv, OneAttempt
  <1>7. NoneIsForgotten'
    BY <1>1, <1>2, <1>3 DEF Inv, IInv, NoneIsForgotten, TypeOK
  <1>8. AttemptsFollow'
    BY <1>1, <1>2, <1>3 DEF Inv, IInv, AttemptsFollow, TypeOK, Attempts
  <1>9. AttemptsCounted'
    BY <1>1, <1>2, <1>3 DEF Inv, IInv, AttemptsCounted, TypeOK, Attempts
  <1>. QED
    BY <1>4, <1>6, <1>7, <1>8, <1>9 DEF Inv, IInv

\* The timer is started so that it does not end early.
LEMMA StartTimerFacts ==
  ASSUME curr' \in Nat, NEW gap \in 0..MaxGap, NEW lag \in gap..MaxLag, StartTimer(gap, lag)
  PROVE  timer' \in [left : Nat, waited : Nat] /\ TimerIsLate'
  <1>. DEFINE due     == curr' * RetryDelay * Milli
              rest    == due - gap
              timeout == (rest \div Milli) * Milli
              left    == IF timeout > lag THEN timeout - lag ELSE 0
  <1>1. /\ Milli \in Nat \ {0} /\ MaxLag \in Nat /\ gap \in Nat /\ lag \in Nat /\ lag <= MaxLag
    BY ClientAssumption, MilliAssumption, ProductIsNat
  <1>2. due \in Nat
    BY ClientAssumption, MilliAssumption, ProductIsNat
  <1>3. due >= gap /\ timer' = [left |-> left, waited |-> gap]
    BY <1>1, <1>2 DEF StartTimer, AtLeast, Due, Plus, Timeout, Millisecond, Minus
  <1>4. rest \in Nat
    BY <1>1, <1>2, <1>3
  <1>5. timeout \in Nat /\ timeout + Milli > rest
    BY <1>1, <1>4, DivBound
  <1>. HIDE DEF timeout, due
  <1>6. left \in Nat /\ gap + left + Milli + MaxLag > due
    BY <1>1, <1>2, <1>3, <1>5
  <1>. QED
    BY <1>1, <1>3, <1>6 DEF TimerIsLate, due

LEMMA FailedInv ==
  ASSUME Inv, NEW h \in Attempts, Failed(h)
  PROVE  Inv'
  <1>1. /\ h = client /\ timers = 0 /\ UnderWay = {h} /\ Pending
        /\ ~gone /\ first # 0 /\ curr <= retryNum /\ client = first + curr
        /\ \A g \in Attempts : handle[g] # "open"
    <2>1. handle[h] = "connecting"
      BY DEF Failed
    <2>. QED
      BY <2>1, AttemptFacts
  <1>2. /\ handle' = [handle EXCEPT ![client] = "closed"] /\ curr' = curr + 1 /\ wild' = wild
        /\ UNCHANGED <<retryNum, client, conn, connects, gone, first>>
    <2>1. ~wild /\ handle[client] = "connecting"
      BY <1>1 DEF Failed, Inv, IInv, OneAttempt
    <2>2. wild' = (wild \/ gone \/ handle[client] # "connecting")
      BY DEF Failed
    <2>3. wild' = FALSE /\ wild = FALSE
      BY <1>1, <2>1, <2>2 DEF Inv, IInv, TypeOK
    <2>. QED
      BY <2>3 DEF Failed
  <1>3. /\ curr \in Nat /\ curr' \in Nat /\ retryNum \in Nat /\ client \in Nat /\ first \in Nat
        /\ first <= client /\ curr' \in 0..(MaxRetry + 1)
    BY <1>1, <1>2, ClientAssumption DEF Inv, IInv, TypeOK, Attempts, AttemptsFollow
  <1>4. /\ UnderWay' = {}
        /\ handle' \in [Attempts -> {"none", "posted", "connecting", "refused", "closed", "open", "ended"}]
        /\ \A g \in Attempts : g # client => handle'[g] = handle[g]
        /\ handle'[client] = "closed"
    BY <1>1, <1>2 DEF UnderWay, Inv, IInv, TypeOK
  <1>5. /\ timers' \in {0, 1} /\ timer' \in [left : Nat, waited : Nat]
        /\ timers' = 1 => TimerIsLate' /\ curr' <= retryNum
        /\ timers' = 0 => curr' = retryNum + 1
    <2>1. CASE TriesAgain
      <3>3. PICK gap \in 0..MaxGap : \E lag \in gap..MaxLag : StartTimer(gap, lag)
        BY <2>1 DEF Failed
      <3>1. PICK lag \in gap..MaxLag : StartTimer(gap, lag)
        BY <3>3
      <3>2. timers' = 1
        BY <1>1, <3>1 DEF StartTimer
      <3>. QED
        BY <1>3, <2>1, <3>1, <3>2, StartTimerFacts DEF TriesAgain
    <2>2. CASE ~TriesAgain
      <3>1. UNCHANGED <<timers, timer>>
        BY <2>2 DEF Failed
      <3>2. ~(curr' <= retryNum)
        BY <2>2 DEF TriesAgain
      <3>. QED
        BY <1>1, <1>2, <1>3, <3>1, <3>2 DEF Inv, IInv, TypeOK
    <2>. QED
      BY <2>1, <2>2
  <1>6. \A g \in first..client : handle'[g] = "closed"
    <2>2. MaxConnects * (MaxRetry + 1) \in Nat
      BY ProductIsNat, ClientAssumption
    <2>1. \A g \in first..client : g \in Attempts
      BY <1>1, <1>3, <2>2 DEF Attempts
    <2>. QED
      BY <1>1, <1>4, <2>1 DEF Inv, IInv, AttemptsFollow
  <1>7. TypeOK'
    <2>1. timers' \in 0..MaxConnects
      BY <1>5, ClientAssumption
    <2>. QED
      BY <2>1, <1>2, <1>3, <1>4, <1>5 DEF Inv, IInv, TypeOK
  <1>8. OneAttempt'
    BY <1>2, <1>4, <1>5, AloneInNext DEF Inv, IInv, OneAttempt
  <1>9. NoneIsForgotten'
    <2>1. \A g \in Attempts : handle'[g] # "open"
      BY <1>1, <1>4
    <2>. QED
      BY <2>1 DEF NoneIsForgotten
  <1>10. AttemptsFollow'
    BY <1>1, <1>2, <1>3, <1>4, <1>5, <1>6 DEF Inv, IInv, AttemptsFollow, Pending, Attempts
  <1>11. AttemptsCounted'
    BY <1>1, <1>2, <1>3, <1>4, <1>5, <1>6 DEF AttemptsCounted, Pending, Attempts
  <1>. QED
    BY <1>7, <1>8, <1>9, <1>10, <1>11 DEF Inv, IInv

-----------------------------------------------------------------------------
(* The other steps, and the theorems *)

LEMMA TickInv ==
  ASSUME Inv, Tick
  PROVE  Inv'
  <1>1. /\ timer.left \in Nat /\ timer.waited \in Nat /\ timer.left > 0
        /\ timer'.left = timer.left - 1 /\ timer'.waited = timer.waited + 1
        /\ timer' \in [left : Nat, waited : Nat]
        /\ UNCHANGED <<retryNum, client, curr, conn, handle, timers, connects, gone, first, wild>>
    BY DEF Tick, Inv, IInv, TypeOK
  <1>2. timer'.waited + timer'.left = timer.waited + timer.left
    BY <1>1
  <1>3. TimerIsLate' <=> TimerIsLate
    BY <1>1, <1>2 DEF TimerIsLate
  <1>4. UnderWay' = UnderWay /\ Pending' = Pending
    BY <1>1 DEF UnderWay, Pending
  <1>. QED
    BY <1>1, <1>3, <1>4
    DEF Inv, IInv, TypeOK, OneAttempt, NoneIsForgotten, AttemptsFollow, AttemptsCounted

\* The connection of connectionPtr_ is open: nothing is pending.
LEMMA OpenFacts ==
  ASSUME Inv, conn # 0, handle[conn] = "open"
  PROVE  conn \in Attempts /\ ~Pending /\ UnderWay = {} /\ timers = 0
  BY DEF Inv, IInv, NoneIsForgotten, TypeOK, Pending, UnderWay

LEMMA DisconnectedInv ==
  ASSUME Inv, Disconnected
  PROVE  Inv'
  <1>1. conn \in Attempts /\ ~Pending /\ UnderWay = {} /\ timers = 0
    BY OpenFacts DEF Disconnected
  <1>2. /\ handle' = [handle EXCEPT ![conn] = "ended"] /\ handle[conn] = "open"
        /\ UNCHANGED <<retryNum, client, curr, conn, timers, timer, connects, gone, first, wild>>
    BY DEF Disconnected
  <1>3. UnderWay' = {} /\ ~Pending'
    BY <1>1, <1>2 DEF UnderWay, Pending, Inv, IInv, TypeOK
  <1>4. TypeOK'
    BY <1>1, <1>2 DEF Inv, IInv, TypeOK
  <1>5. OneAttempt'
    BY <1>1, <1>2, <1>3, AloneInNext DEF Inv, IInv, OneAttempt
  <1>6. NoneIsForgotten' /\ AttemptsFollow'
    BY <1>1, <1>2, <1>3 DEF Inv, IInv, NoneIsForgotten, AttemptsFollow, TypeOK
  <1>7. AttemptsCounted'
    BY <1>1, <1>2, <1>3 DEF Inv, IInv, AttemptsCounted, TypeOK, Attempts
  <1>. QED
    BY <1>4, <1>5, <1>6, <1>7 DEF Inv, IInv

LEMMA DestroyInv ==
  ASSUME Inv, Destroy
  PROVE  Inv'
  <1>1. conn \in Attempts /\ ~Pending /\ UnderWay = {} /\ timers = 0
    BY OpenFacts DEF Destroy
  <1>2. /\ gone' = TRUE
        /\ UNCHANGED <<retryNum, client, curr, conn, handle, timers, timer, connects, first, wild>>
    BY DEF Destroy
  <1>3. UnderWay' = UnderWay /\ Pending' = Pending
    BY <1>2 DEF UnderWay, Pending
  <1>. QED
    BY <1>1, <1>2, <1>3
    DEF Inv, IInv, TypeOK, OneAttempt, NoneIsForgotten, AttemptsFollow, AttemptsCounted

LEMMA StutterInv ==
  ASSUME Inv, UNCHANGED vars
  PROVE  Inv'
  <1>1. UnderWay' = UnderWay /\ Pending' = Pending
    BY DEF vars, UnderWay, Pending
  <1>. QED
    BY <1>1 DEF vars, Inv, IInv, TypeOK, OneAttempt, NoneIsForgotten, AttemptsFollow,
                AttemptsCounted, TimerIsLate

LEMMA NextInv == Inv /\ [Next]_vars => Inv'
  <1>. SUFFICES ASSUME Inv, [Next]_vars PROVE Inv'
    OBVIOUS
  <1>1. CASE \E h \in Attempts : Attempt(h)
    BY <1>1, UvTcpConnectInv, ConnectedInv, FailedInv DEF Attempt
  <1>. QED
    BY <1>1, ConnectInv, RetryInv, TickInv, DisconnectedInv, DestroyInv, StutterInv DEF Next

LEMMA AlwaysInv == Spec => []Inv
  BY InitInv, NextInv, PTL DEF Spec

\* One attempt at a time, on the handle that the callback looks at: connectionCallback never acts
\* on another handle than its own, nor on a TcpClient that is gone.
THEOREM InvariantHolds == Spec => []IInv
  <1>1. Inv => IInv
    BY DEF Inv
  <1>. QED
    BY <1>1, AlwaysInv, PTL

\* connect() makes one attempt and retryNum_ more, no fewer and no others.
THEOREM AttemptsAreCounted == Spec => []AttemptsCounted
  <1>1. Inv => AttemptsCounted
    BY DEF Inv
  <1>. QED
    BY <1>1, AlwaysInv, PTL

\* No retry comes earlier than its delay, but for the rounding and the lag of the clocks.
THEOREM RetriesComeLate == Spec => RetriesAreSpaced
  <1>1. Inv /\ [Next]_vars => [Retry => timer.waited + Milli + MaxLag > curr * RetryDelay * Milli]_vars
    <2>. SUFFICES ASSUME Inv, Retry
                  PROVE  timer.waited + Milli + MaxLag > curr * RetryDelay * Milli
      OBVIOUS
    <2>1. TimerIsLate /\ timer.left = 0 /\ timer.waited \in Nat
      BY DEF Inv, IInv, AttemptsFollow, Retry, TypeOK
    <2>. QED
      BY <2>1, ClientAssumption, MilliAssumption DEF TimerIsLate
  <1>. QED
    BY <1>1, AlwaysInv, PTL DEF Spec, RetriesAreSpaced
=============================================================================
