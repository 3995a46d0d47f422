------------------------------ MODULE Mailbox ------------------------------
(***************************************************************************)
(* What the queues between the threads promise: messages are handled one   *)
(* at a time, each once, in the order in which they were sent.  EventLoop  *)
(* and BlockingQueues implement it.                                        *)
(***************************************************************************)
EXTENDS Naturals, Sequences

CONSTANT Messages

VARIABLES
    sent,      \* every message so far, in order
    handled    \* how many of them have been handled

mailboxVars == <<sent, handled>>

Init == sent = <<>> /\ handled = 0

Send(m) == sent' = Append(sent, m) /\ UNCHANGED handled

Handle == handled < Len(sent) /\ handled' = handled + 1 /\ UNCHANGED sent

Next == Handle \/ \E m \in Messages : Send(m)

Spec == Init /\ [][Next]_mailboxVars
=============================================================================
