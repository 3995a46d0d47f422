-------------------------- MODULE IdleWheelProofs --------------------------
(***************************************************************************)
(* Proofs about IdleWheel, for any connections and any timeout.            *)
(***************************************************************************)
EXTENDS IdleWheel, TLAPS

LEMMA InitInv == Init => IInv
  BY TimeoutAssumption
  DEF Init, IInv, TypeOK, EntryInPlace, NeverTracked, FiredOnce, Watched, Tracked, Exists

\* Where the entry of c is tracked, exactly when it is among the dropped ones.
LEMMA DroppedFact ==
  ASSUME IInv, NEW c \in Conns
  PROVE  c \in Dropped <=> Tracked(c) /\ silent[c] + 1 = K
  <1>1. K \in Nat \ {0} /\ silent[c] \in 0..K
    BY TimeoutAssumption DEF IInv, TypeOK
  <1>2. ASSUME c \in Dropped PROVE Tracked(c) /\ silent[c] + 1 = K
    <2>1. Tracked(c)
      BY <1>1, <1>2 DEF Dropped, Tracked
    <2>2. silent[c] < K /\ c \in wheel[K - silent[c]]
      BY <2>1 DEF IInv, EntryInPlace
    <2>3. K - silent[c] \in 1..K /\ K - silent[c] \notin 2..K
      BY <1>1, <1>2, <2>2 DEF Dropped
    <2>. QED
      BY <1>1, <2>1, <2>3
  <1>3. ASSUME Tracked(c), silent[c] + 1 = K PROVE c \in Dropped
    <2>1. c \in wheel[K - silent[c]] /\ \A i \in 1..K : i > K - silent[c] => c \notin wheel[i]
      BY <1>3 DEF IInv, EntryInPlace
    <2>2. K - silent[c] = 1
      BY <1>1, <1>3
    <2>. QED
      BY <2>1, <2>2 DEF Dropped
  <1>. QED
    BY <1>2, <1>3

\* What a tick does to one entry.
LEMMA TickFact ==
  ASSUME IInv, checkConnection, NEW c \in Conns
  PROVE  /\ silent'[c] = IF silent[c] < K THEN silent[c] + 1 ELSE K
         /\ fired'[c] = IF Tracked(c) /\ silent[c] + 1 = K /\ Exists(c)
                        THEN fired[c] + 1 ELSE fired[c]
         /\ Tracked(c)' <=> Tracked(c) /\ silent[c] + 1 # K
         /\ \A i \in 1..K : c \in wheel'[i] <=> i < K /\ c \in wheel[i + 1]
  <1>1. K \in Nat \ {0} /\ silent[c] \in 0..K
    BY TimeoutAssumption DEF IInv, TypeOK
  <1>2. \A i \in 1..K : c \in wheel'[i] <=> i < K /\ c \in wheel[i + 1]
    BY <1>1 DEF checkConnection, TickDropping
  <1>3. Tracked(c)' <=> \E i \in 2..K : c \in wheel[i]
    <2>1. ASSUME NEW i \in 2..K, c \in wheel[i] PROVE Tracked(c)'
      <3>1. i - 1 \in 1..K /\ i - 1 < K /\ (i - 1) + 1 = i
        BY <1>1
      <3>. QED
        BY <1>2, <2>1, <3>1 DEF Tracked
    <2>2. ASSUME NEW i \in 1..K, c \in wheel'[i] PROVE i + 1 \in 2..K /\ c \in wheel[i + 1]
      BY <1>1, <1>2, <2>2
    <2>. QED
      BY <2>1, <2>2 DEF Tracked
  <1>4. Tracked(c) <=> c \in wheel[1] \/ \E i \in 2..K : c \in wheel[i]
    <2>1. \A i \in 1..K : i = 1 \/ i \in 2..K
      BY <1>1
    <2>2. 1 \in 1..K /\ \A i \in 2..K : i \in 1..K
      BY <1>1
    <2>. QED
      BY <2>1, <2>2 DEF Tracked
  <1>5. Tracked(c)' <=> Tracked(c) /\ silent[c] + 1 # K
    BY <1>3, <1>4, DroppedFact DEF Dropped
  <1>6. /\ silent'[c] = IF silent[c] < K THEN silent[c] + 1 ELSE K
        /\ fired'[c] = IF c \in Dropped /\ Exists(c) THEN fired[c] + 1 ELSE fired[c]
    BY DEF checkConnection, TickDropping
  <1>. QED
    BY <1>2, <1>5, <1>6, DroppedFact

LEMMA TickInv ==
  ASSUME IInv, checkConnection
  PROVE  IInv'
  <1>1. K \in Nat \ {0} /\ \A c \in Conns : silent[c] \in 0..K /\ fired[c] \in Nat
    BY TimeoutAssumption DEF IInv, TypeOK
  <1>2. UNCHANGED conn /\ \A c \in Conns : Exists(c)' <=> Exists(c)
    BY DEF checkConnection, TickDropping, Exists
  <1>3. TypeOK'
    <2>1. wheel' \in [1..K -> SUBSET Conns]
      BY <1>1 DEF checkConnection, TickDropping, IInv, TypeOK
    <2>2. fired' \in [Conns -> Nat] /\ silent' \in [Conns -> 0..K]
      BY <1>1 DEF checkConnection, TickDropping, IInv, TypeOK
    <2>. QED
      BY <1>2, <2>1, <2>2 DEF IInv, TypeOK
  <1>4. EntryInPlace'
    <2>. SUFFICES ASSUME NEW c \in Conns, Tracked(c)'
                  PROVE  /\ silent'[c] < K
                         /\ c \in wheel'[K - silent'[c]]
                         /\ \A i \in 1..K : i > K - silent'[c] => c \notin wheel'[i]
      BY DEF EntryInPlace
    <2>1. Tracked(c) /\ silent[c] + 1 # K
      BY TickFact
    <2>2. /\ silent[c] < K /\ c \in wheel[K - silent[c]]
          /\ \A i \in 1..K : i > K - silent[c] => c \notin wheel[i]
      BY <2>1 DEF IInv, EntryInPlace
    <2>3. silent'[c] = silent[c] + 1 /\ silent'[c] < K
      BY <1>1, <2>1, <2>2, TickFact
    <2>4. /\ K - silent'[c] \in 1..K /\ K - silent'[c] < K
          /\ (K - silent'[c]) + 1 = K - silent[c]
      BY <1>1, <2>3
    <2>5. c \in wheel'[K - silent'[c]]
      BY <2>2, <2>4, TickFact
    <2>6. ASSUME NEW i \in 1..K, i > K - silent'[c] PROVE c \notin wheel'[i]
      <3>1. i < K => i + 1 \in 1..K /\ i + 1 > K - silent[c]
        BY <1>1, <2>3, <2>6
      <3>. QED
        BY <2>2, <3>1, TickFact
    <2>. QED
      BY <2>3, <2>5, <2>6
  <1>5. NeverTracked'
    BY <1>2, TickFact DEF IInv, NeverTracked, Exists
  <1>6. FiredOnce'
    <2>. SUFFICES ASSUME NEW c \in Conns
                  PROVE  fired'[c] <= 1 /\ (Tracked(c)' => fired'[c] = 0)
      BY DEF FiredOnce
    <2>1. fired[c] <= 1 /\ (Tracked(c) => fired[c] = 0)
      BY DEF IInv, FiredOnce
    <2>. QED
      BY <1>1, <2>1, TickFact
  <1>7. Watched'
    <2>. SUFFICES ASSUME NEW c \in Conns, Exists(c)' PROVE Tracked(c)' \/ fired'[c] = 1
      BY DEF Watched
    <2>1. Exists(c) /\ (Tracked(c) \/ fired[c] = 1) /\ (Tracked(c) => fired[c] = 0)
      BY <1>2 DEF IInv, Watched, FiredOnce
    <2>. QED
      BY <1>1, <2>1, TickFact
  <1>. QED
    BY <1>3, <1>4, <1>5, <1>6, <1>7 DEF IInv

\* Putting an entry into the newest bucket when silent is reset.
LEMMA InsertFact ==
  ASSUME IInv, NEW c \in Conns, InsertAtBack(c), silent' = [silent EXCEPT ![c] = 0]
  PROVE  /\ wheel' \in [1..K -> SUBSET Conns] /\ silent' \in [Conns -> 0..K]
         /\ Tracked(c)' /\ \A d \in Conns \ {c} : Tracked(d)' <=> Tracked(d)
         /\ EntryInPlace'
  <1>1. K \in Nat \ {0} /\ K \in 1..K
    BY TimeoutAssumption
  <1>2. /\ wheel' \in [1..K -> SUBSET Conns] /\ silent' \in [Conns -> 0..K]
        /\ \A i \in 1..K : wheel'[i] = IF i = K THEN wheel[i] \cup {c} ELSE wheel[i]
        /\ \A d \in Conns : silent'[d] = IF d = c THEN 0 ELSE silent[d]
    <2>1. silent' \in [Conns -> 0..K] /\ \A d \in Conns : silent'[d] = IF d = c THEN 0 ELSE silent[d]
      BY <1>1 DEF IInv, TypeOK
    <2>2. /\ wheel' \in [1..K -> SUBSET Conns]
          /\ \A i \in 1..K : wheel'[i] = IF i = K THEN wheel[i] \cup {c} ELSE wheel[i]
      <3>1. wheel \in [1..K -> SUBSET Conns] /\ wheel[K] \cup {c} \in SUBSET Conns
        BY <1>1 DEF IInv, TypeOK
      <3>. QED
        BY <1>1, <3>1 DEF InsertAtBack
    <2>. QED
      BY <2>1, <2>2
  <1>3. Tracked(c)'
    BY <1>1, <1>2 DEF Tracked
  <1>4. \A d \in Conns \ {c} : Tracked(d)' <=> Tracked(d)
    BY <1>1, <1>2 DEF Tracked
  <1>5. ASSUME NEW d \in Conns, Tracked(d)'
        PROVE  /\ silent'[d] < K
               /\ d \in wheel'[K - silent'[d]]
               /\ \A i \in 1..K : i > K - silent'[d] => d \notin wheel'[i]
    <2>1. CASE d = c
      <3>1. silent'[d] = 0 /\ K - 0 = K
        BY <1>1, <1>2, <2>1
      <3>. QED
        BY <1>1, <1>2, <2>1, <3>1
    <2>2. CASE d # c
      <3>1. /\ silent[d] < K /\ d \in wheel[K - silent[d]]
            /\ \A i \in 1..K : i > K - silent[d] => d \notin wheel[i]
        BY <1>4, <1>5, <2>2 DEF IInv, EntryInPlace
      <3>2. silent'[d] = silent[d] /\ silent[d] \in 0..K /\ K - silent[d] \in 1..K
        BY <1>1, <1>2, <2>2, <3>1 DEF IInv, TypeOK
      <3>. QED
        BY <1>2, <2>2, <3>1, <3>2
    <2>. QED
      BY <2>1, <2>2
  <1>. QED
    BY <1>2, <1>3, <1>4, <1>5 DEF EntryInPlace

LEMMA NewConnectionInv ==
  ASSUME IInv, NEW c \in Conns, NewConnection(c)
  PROVE  IInv'
  <1>1. /\ conn[c] = "none" /\ conn' = [conn EXCEPT ![c] = "open"] /\ UNCHANGED fired
        /\ InsertAtBack(c) /\ silent' = [silent EXCEPT ![c] = 0]
    BY DEF NewConnection
  <1>2. ~Tracked(c) /\ fired[c] = 0
    BY <1>1 DEF IInv, NeverTracked
  <1>3. TypeOK' /\ EntryInPlace'
    <2>1. /\ wheel' \in [1..K -> SUBSET Conns] /\ silent' \in [Conns -> 0..K]
          /\ EntryInPlace'
      BY <1>1, InsertFact
    <2>2. conn' \in [Conns -> {"none", "open", "ended", "gone"}] /\ fired' \in [Conns -> Nat]
      BY <1>1 DEF IInv, TypeOK
    <2>. QED
      BY <2>1, <2>2 DEF TypeOK
  <1>4. \A d \in Conns : conn'[d] = IF d = c THEN "open" ELSE conn[d]
    BY <1>1 DEF IInv, TypeOK
  <1>5. /\ Tracked(c)' /\ \A d \in Conns \ {c} : Tracked(d)' <=> Tracked(d)
        /\ fired' = fired
    BY <1>1, InsertFact
  <1>6. NeverTracked'
    BY <1>4, <1>5 DEF IInv, NeverTracked
  <1>7. FiredOnce'
    BY <1>2, <1>5 DEF IInv, FiredOnce
  <1>8. Watched'
    BY <1>4, <1>5 DEF IInv, Watched, Exists
  <1>. QED
    BY <1>3, <1>6, <1>7, <1>8 DEF IInv

LEMMA ReadInv ==
  ASSUME IInv, NEW c \in Conns, Read(c)
  PROVE  IInv'
  <1>1. /\ conn[c] = "open" /\ silent' = [silent EXCEPT ![c] = 0] /\ UNCHANGED <<conn, fired>>
    BY DEF Read
  <1>2. CASE Tracked(c)
    <2>1. InsertAtBack(c)
      BY <1>2 DEF Read
    <2>2. TypeOK' /\ EntryInPlace'
      BY <1>1, <2>1, InsertFact DEF IInv, TypeOK
    <2>3. \A d \in Conns : Tracked(d)' <=> Tracked(d)
      BY <1>1, <1>2, <2>1, InsertFact
    <2>4. NeverTracked' /\ FiredOnce' /\ Watched'
      BY <1>1, <2>3 DEF IInv, NeverTracked, FiredOnce, Watched, Exists
    <2>. QED
      BY <2>2, <2>4 DEF IInv
  <1>3. CASE ~Tracked(c)
    <2>1. UNCHANGED wheel
      BY <1>3 DEF Read
    <2>2. \A d \in Conns : Tracked(d)' <=> Tracked(d)
      BY <2>1 DEF Tracked
    <2>3. TypeOK' /\ \A d \in Conns \ {c} : silent'[d] = silent[d]
      BY <1>1, <2>1, TimeoutAssumption DEF IInv, TypeOK
    <2>4. EntryInPlace'
      BY <1>3, <2>1, <2>2, <2>3 DEF IInv, EntryInPlace
    <2>5. NeverTracked' /\ FiredOnce' /\ Watched'
      BY <1>1, <2>2 DEF IInv, NeverTracked, FiredOnce, Watched, Exists
    <2>. QED
      BY <2>3, <2>4, <2>5 DEF IInv
  <1>. QED
    BY <1>2, <1>3

\* The end or the destruction of a connection touches no entry.
LEMMA LeaveInv ==
  ASSUME IInv, NEW c \in Conns, End(c) \/ Destroy(c)
  PROVE  IInv'
  <1>1. /\ UNCHANGED <<wheel, fired, silent>> /\ Exists(c)
        /\ conn' = [conn EXCEPT ![c] = "ended"] \/ conn' = [conn EXCEPT ![c] = "gone"]
    BY DEF End, Destroy, Exists
  <1>2. \A d \in Conns : Tracked(d)' <=> Tracked(d)
    BY <1>1 DEF Tracked
  <1>3. /\ TypeOK'
        /\ \A d \in Conns : (conn'[d] = "none" => conn[d] = "none") /\ (Exists(d)' => Exists(d))
    BY <1>1 DEF IInv, TypeOK, Exists
  <1>4. EntryInPlace'
    BY <1>1, <1>2 DEF IInv, EntryInPlace
  <1>5. NeverTracked' /\ FiredOnce' /\ Watched'
    BY <1>1, <1>2, <1>3 DEF IInv, NeverTracked, FiredOnce, Watched
  <1>. QED
    BY <1>3, <1>4, <1>5 DEF IInv

LEMMA StutterInv ==
  ASSUME IInv, UNCHANGED vars
  PROVE  IInv'
  BY DEF vars, IInv, TypeOK, EntryInPlace, NeverTracked, FiredOnce, Watched, Tracked, Exists

\* The wheel keeps its shape and its entries their places, forever.
THEOREM InvariantHolds == Spec => []IInv
  <1>1. IInv /\ [Next]_vars => IInv'
    BY NewConnectionInv, ReadInv, LeaveInv, TickInv, StutterInv DEF Next
  <1>. QED
    BY <1>1, InitInv, PTL DEF Spec

\* idleTimeoutCallback_ is called at most once for a connection.
THEOREM AtMostOnce == Spec => []FiresAtMostOnce
  <1>1. IInv => FiresAtMostOnce
    BY DEF IInv, FiredOnce, FiresAtMostOnce
  <1>. QED
    BY <1>1, InvariantHolds, PTL

\* No connection that exists is silent for K ticks and goes unreported.
THEOREM NobodyIsOverlooked == Spec => []SilentIsReported
  <1>1. IInv => SilentIsReported
    <2>. SUFFICES ASSUME IInv, NEW c \in Conns, Exists(c), silent[c] = K PROVE fired[c] = 1
      BY DEF SilentIsReported
    <2>1. ~Tracked(c)
      BY TimeoutAssumption DEF IInv, EntryInPlace
    <2>. QED
      BY <2>1 DEF IInv, Watched
  <1>. QED
    BY <1>1, InvariantHolds, PTL

\* A tick reports nothing early: only what has been silent for K ticks.
THEOREM NothingFiresEarly == Spec => FiresOnTime
  <1>1. ASSUME IInv, [Next]_vars, NEW c \in Conns, fired'[c] # fired[c]
        PROVE  silent[c] + 1 = K
    <2>1. CASE checkConnection
      BY <1>1, <2>1, TickFact
    <2>2. CASE UNCHANGED vars \/ \E d \in Conns : NewConnection(d) \/ Read(d) \/ End(d) \/ Destroy(d)
      <3>1. UNCHANGED fired
        BY <2>2 DEF vars, NewConnection, Read, End, Destroy
      <3>. QED
        BY <1>1, <3>1
    <2>. QED
      BY <1>1, <2>1, <2>2 DEF Next
  <1>2. IInv /\ [Next]_vars => [\A c \in Conns : fired'[c] # fired[c] => silent[c] + 1 = K]_vars
    BY <1>1
  <1>. QED
    BY <1>2, InvariantHolds, PTL DEF Spec, FiresOnTime

-----------------------------------------------------------------------------
(***************************************************************************)
(* The wheel implements IdleTimer: left[c] is the distance of the entry    *)
(* from the end of the wheel.                                              *)
(***************************************************************************)
Left == [c \in Conns |-> IF Tracked(c) THEN K - silent[c] ELSE 0]

LEMMA LeftAfter ==
  ASSUME NEW c \in Conns
  PROVE  /\ Left[c] = IF Tracked(c) THEN K - silent[c] ELSE 0
         /\ Left'[c] = IF Tracked(c)' THEN K - silent'[c] ELSE 0
  BY DEF Left

LEMMA InitTimer == Init => Timer!Init
  BY DEF Init, Timer!Init, Tracked

LEMMA InsertTimer ==
  ASSUME IInv, NEW c \in Conns, InsertAtBack(c), silent' = [silent EXCEPT ![c] = 0]
  PROVE  Left' = [Left EXCEPT ![c] = K]
  <1>1. Tracked(c)' /\ \A d \in Conns \ {c} : Tracked(d)' <=> Tracked(d)
    BY InsertFact
  <1>2. \A d \in Conns : silent'[d] = IF d = c THEN 0 ELSE silent[d]
    BY DEF IInv, TypeOK
  <1>3. K - 0 = K
    BY TimeoutAssumption
  <1>4. Left' = [d \in Conns |-> IF Tracked(d)' THEN K - silent'[d] ELSE 0]
    BY DEF Left
  <1>5. \A d \in Conns : (IF Tracked(d)' THEN K - silent'[d] ELSE 0)
                           = IF d = c THEN K ELSE IF Tracked(d) THEN K - silent[d] ELSE 0
    BY <1>1, <1>2, <1>3
  <1>. QED
    BY <1>4, <1>5 DEF Left

LEMMA ReadTimer ==
  ASSUME IInv, NEW c \in Conns, Read(c)
  PROVE  Timer!Message(c) \/ UNCHANGED Timer!timerVars
  <1>1. CASE Tracked(c)
    <2>1. Left[c] > 0
      BY <1>1, LeftAfter, TimeoutAssumption DEF IInv, TypeOK, EntryInPlace
    <2>2. Left' = [Left EXCEPT ![c] = K]
      BY <1>1, InsertTimer DEF Read
    <2>. QED
      BY <2>1, <2>2 DEF Timer!Message, Read, Left
  <1>2. CASE ~Tracked(c)
    <2>1. \A d \in Conns : (Tracked(d)' <=> Tracked(d)) /\ (d # c => silent'[d] = silent[d])
      BY <1>2 DEF Read, Tracked, IInv, TypeOK
    <2>2. Left' = Left
      BY <1>2, <2>1 DEF Left
    <2>. QED
      BY <2>2 DEF Read, Timer!timerVars, Left
  <1>. QED
    BY <1>1, <1>2

LEMMA TickTimer ==
  ASSUME IInv, checkConnection
  PROVE  Timer!Tick
  <1>1. \A c \in Conns : silent[c] \in 0..K /\ (Tracked(c) => silent[c] < K)
    BY DEF IInv, TypeOK, EntryInPlace
  <1>2. ASSUME NEW c \in Conns
        PROVE  /\ Left'[c] = IF Left[c] > 0 THEN Left[c] - 1 ELSE 0
               /\ fired'[c] = IF Left[c] = 1 /\ Exists(c) THEN fired[c] + 1 ELSE fired[c]
    <2>1. Tracked(c)' <=> Tracked(c) /\ silent[c] + 1 # K
      BY TickFact
    <2>2. CASE Tracked(c)
      <3>1. Left[c] = K - silent[c] /\ silent'[c] = silent[c] + 1
        BY <1>1, <2>2, LeftAfter, TickFact
      <3>2. Left'[c] = IF silent[c] + 1 # K THEN K - (silent[c] + 1) ELSE 0
        BY <2>1, <2>2, <3>1, LeftAfter
      <3>. QED
        BY <1>1, <2>2, <3>1, <3>2, TickFact, TimeoutAssumption
    <2>3. CASE ~Tracked(c)
      BY <2>1, <2>3, LeftAfter, TickFact
    <2>. QED
      BY <2>2, <2>3
  <1>3. Left' = [c \in Conns |-> IF Left[c] > 0 THEN Left[c] - 1 ELSE 0]
    BY <1>2 DEF Left
  <1>4. fired' = [c \in Conns |-> IF Left[c] = 1 /\ Exists(c) THEN fired[c] + 1 ELSE fired[c]]
    BY <1>2 DEF checkConnection, TickDropping
  <1>. QED
    BY <1>3, <1>4 DEF Timer!Tick, Timer!Exists, Exists, Left, checkConnection, TickDropping

\* Every behaviour of the wheel is one of the countdowns.
THEOREM WheelImplementsTimer == Spec => TimerSpec
  <1>1. ASSUME IInv, [Next]_vars PROVE [Timer!Next]_(Timer!timerVars)
    <2>1. ASSUME NEW c \in Conns, NewConnection(c) PROVE Timer!Accept(c)
      <3>1. Left' = [Left EXCEPT ![c] = K]
        BY <1>1, <2>1, InsertTimer DEF NewConnection
      <3>. QED
        BY <2>1, <3>1 DEF NewConnection, Timer!Accept, Left
    <2>2. ASSUME NEW c \in Conns, End(c) \/ Destroy(c) PROVE Timer!Leave(c)
      BY <2>2 DEF End, Destroy, Exists, Timer!Leave, Timer!Exists, Tracked
    <2>3. ASSUME UNCHANGED vars PROVE UNCHANGED Timer!timerVars
      BY <2>3 DEF vars, Timer!timerVars, Tracked
    <2>. QED
      BY <1>1, <2>1, <2>2, <2>3, ReadTimer, TickTimer DEF Next, Timer!Next
  <1>. QED
    BY <1>1, InitTimer, InvariantHolds, PTL DEF Spec, TimerSpec, Timer!Spec
=============================================================================
