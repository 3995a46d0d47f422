----------------------------- MODULE IdleTimer -----------------------------
(***************************************************************************)
(* What TcpServer::setIdleTimeoutCallback promises: every connection has a *)
(* countdown of K ticks of one second that each message restarts; when it  *)
(* runs out, the callback is called if the connection still exists, and    *)
(* the countdown is over for good.  IdleWheel implements it.               *)
(***************************************************************************)
EXTENDS Naturals

CONSTANTS Conns, K

VARIABLES
    conn,   \* "none", "open", "ended" (its EOF was seen) or "gone"
    left,   \* ticks until the callback; 0: no countdown is running
    fired   \* how often idleTimeoutCallback_ was called for it

timerVars == <<conn, left, fired>>

Exists(c) == conn[c] \in {"open", "ended"}

Init ==
    /\ conn = [c \in Conns |-> "none"]
    /\ left = [c \in Conns |-> 0]
    /\ fired = [c \in Conns |-> 0]

Accept(c) ==
    /\ conn[c] = "none"
    /\ conn' = [conn EXCEPT ![c] = "open"]
    /\ left' = [left EXCEPT ![c] = K]
    /\ UNCHANGED fired

Message(c) ==
    /\ conn[c] = "open" /\ left[c] > 0
    /\ left' = [left EXCEPT ![c] = K]
    /\ UNCHANGED <<conn, fired>>

Leave(c) ==
    /\ \/ conn[c] = "open" /\ conn' = [conn EXCEPT ![c] = "ended"]
       \/ Exists(c) /\ conn' = [conn EXCEPT ![c] = "gone"]
    /\ UNCHANGED <<left, fired>>

Tick ==
    /\ left' = [c \in Conns |-> IF left[c] > 0 THEN left[c] - 1 ELSE 0]
    /\ fired' = [c \in Conns |-> IF left[c] = 1 /\ Exists(c) THEN fired[c] + 1 ELSE fired[c]]
    /\ UNCHANGED conn

Next == Tick \/ \E c \in Conns : Accept(c) \/ Message(c) \/ Leave(c)

Spec == Init /\ [][Next]_timerVars
=============================================================================
