----------------------------- MODULE IdleWheel -----------------------------
(***************************************************************************)
(* The idle timeout of TcpServer as it is built: in every loop's thread a  *)
(* queue of timeout_ buckets of shared_ptr<Entry> (whell_).  A message     *)
(* puts the connection's entry into the newest bucket as well; each second *)
(* the oldest bucket is dropped, and an entry that was in no other bucket  *)
(* is destroyed and calls idleTimeoutCallback_ if its connection exists.   *)
(* A connection has one entry, so the model names it by the connection.    *)
(***************************************************************************)
EXTENDS Naturals

CONSTANTS
    Conns,   \* the connections of one loop
    K        \* timeout_

ASSUME TimeoutAssumption == K \in Nat \ {0}

VARIABLES
    wheel,   \* whell_: wheel[1] is the front of the queue, wheel[K] the back
    conn,    \* "none", "open", "ended" (removed from connectionMap_), "gone"
    fired,   \* history: calls of idleTimeoutCallback_ for the connection
    silent   \* history: ticks since it was accepted or sent a message, up to K

vars == <<wheel, conn, fired, silent>>

TypeOK ==
    /\ wheel \in [1..K -> SUBSET Conns]
    /\ conn \in [Conns -> {"none", "open", "ended", "gone"}]
    /\ fired \in [Conns -> Nat]
    /\ silent \in [Conns -> 0..K]

Init ==
    /\ wheel = [i \in 1..K |-> {}]
    /\ conn = [c \in Conns |-> "none"]
    /\ fired = [c \in Conns |-> 0]
    /\ silent = [c \in Conns |-> 0]

Exists(c) == conn[c] \in {"open", "ended"}

\* The entry of c exists: some bucket shares it, and weakEntry.lock() succeeds.
Tracked(c) == \E i \in 1..K : c \in wheel[i]

\* whell_.value().back().insert(entry)
InsertAtBack(c) == wheel' = [wheel EXCEPT ![K] = @ \cup {c}]

\* Fault: the entry of a new connection is put into no bucket.
FaultyNewConnection(c) ==
    /\ conn[c] = "none"
    /\ conn' = [conn EXCEPT ![c] = "open"]
    /\ silent' = [silent EXCEPT ![c] = 0]
    /\ UNCHANGED <<wheel, fired>>

NewConnection(c) ==
    /\ conn[c] = "none"
    /\ conn' = [conn EXCEPT ![c] = "open"]
    /\ InsertAtBack(c)
    /\ silent' = [silent EXCEPT ![c] = 0]
    /\ UNCHANGED fired

\* Fault: a message makes a new entry when the old one is gone.
FaultyReadRenew(c) ==
    /\ conn[c] = "open"
    /\ InsertAtBack(c)
    /\ silent' = [silent EXCEPT ![c] = 0]
    /\ UNCHANGED <<conn, fired>>

\* A message: readCallback looks for the entry and calls updateConnection.
Read(c) ==
    /\ conn[c] = "open"
    /\ IF Tracked(c) THEN InsertAtBack(c) ELSE UNCHANGED wheel
    /\ silent' = [silent EXCEPT ![c] = 0]
    /\ UNCHANGED <<conn, fired>>

\* The EOF removes c from the map; user code may still hold it.
End(c) ==
    /\ conn[c] = "open"
    /\ conn' = [conn EXCEPT ![c] = "ended"]
    /\ UNCHANGED <<wheel, fired, silent>>

\* ~TcpConnection: entries keep only a weak_ptr to it.
Destroy(c) ==
    /\ Exists(c)
    /\ conn' = [conn EXCEPT ![c] = "gone"]
    /\ UNCHANGED <<wheel, fired, silent>>

\* The entries that only the oldest bucket shares.
Dropped == {c \in wheel[1] : \A i \in 2..K : c \notin wheel[i]}

\* One second: the oldest bucket goes and the entries in gone are destroyed.
TickDropping(gone) ==
    /\ wheel' = [i \in 1..K |-> IF i < K THEN wheel[i + 1] ELSE {}]
    /\ fired' = [c \in Conns |-> IF c \in gone /\ Exists(c) THEN fired[c] + 1 ELSE fired[c]]
    /\ silent' = [c \in Conns |-> IF silent[c] < K THEN silent[c] + 1 ELSE K]
    /\ UNCHANGED conn

\* Fault: every entry of the oldest bucket is reported.
FaultyCheckConnection == TickDropping(wheel[1])

\* checkConnection: pop, which destroys the bucket, then push an empty one.
checkConnection == TickDropping(Dropped)

Next ==
    \/ \E c \in Conns : NewConnection(c) \/ Read(c) \/ End(c) \/ Destroy(c)
    \/ checkConnection

Spec == Init /\ [][Next]_vars

\* runEvery(1000, checkConnection): the repeating timer always fires again.
FairSpec == Spec /\ WF_vars(checkConnection)

(***************************************************************************)
(* The inductive invariant: an entry is in the bucket its last message put *)
(* it into, which has moved silent[c] places, and in none behind it.       *)
(***************************************************************************)
EntryInPlace ==
    \A c \in Conns :
        Tracked(c) =>
            /\ silent[c] < K
            /\ c \in wheel[K - silent[c]]
            /\ \A i \in 1..K : i > K - silent[c] => c \notin wheel[i]

NeverTracked == \A c \in Conns : conn[c] = "none" => ~Tracked(c) /\ fired[c] = 0

FiredOnce == \A c \in Conns : fired[c] <= 1 /\ (Tracked(c) => fired[c] = 0)

\* No connection is overlooked: one that exists and was not reported is tracked.
Watched == \A c \in Conns : Exists(c) => Tracked(c) \/ fired[c] = 1

IInv == TypeOK /\ EntryInPlace /\ NeverTracked /\ FiredOnce /\ Watched

(***************************************************************************)
(* Properties.                                                             *)
(***************************************************************************)
\* The idle callback is called at most once for a connection.
FiresAtMostOnce == \A c \in Conns : fired[c] <= 1

\* A connection that exists and has been silent for K ticks has been reported.
SilentIsReported == \A c \in Conns : Exists(c) /\ silent[c] = K => fired[c] = 1

\* A tick reports only what has been silent for exactly K ticks: nothing early.
FiresOnTime == [][\A c \in Conns : fired'[c] # fired[c] => silent[c] + 1 = K]_vars

\* The wheel implements the countdowns of IdleTimer.
Timer == INSTANCE IdleTimer WITH
    left <- [c \in Conns |-> IF Tracked(c) THEN K - silent[c] ELSE 0]
TimerSpec == Timer!Spec

\* A connection that falls silent is reported, unless it goes away.
SilentIsReportedInTime ==
    \A c \in Conns :
        <>[][~Read(c)]_vars =>
            (conn[c] = "open" ~> (fired[c] = 1 \/ conn[c] = "gone"))
=============================================================================
