--------------------------- MODULE BlockingQueues ---------------------------
(***************************************************************************)
(* BlockingQueue and BoundedBlockingQueue: put, take and poll.  A critical *)
(* section is one step.  The bounded queue notifies under mutex_, in that  *)
(* step; put of the plain queue notifies after it has released mutex_, in  *)
(* a step of its own.  An element is known by who put it and how manyth of *)
(* his it is.                                                              *)
(***************************************************************************)
EXTENDS Naturals, Sequences, FiniteSets

CONSTANTS
    Putters,
    Takers,
    MaxSize,    \* maxSize_ of the bounded queue
    MaxPuts     \* bound: how often each putter calls put

ASSUME QueueAssumption == MaxPuts \in Nat /\ MaxSize \in Nat \ {0}

Elements == Putters \X (1..MaxPuts)

VARIABLES
    bounded,   \* which of the two queues this is
    queue,     \* queue_
    putter,    \* "idle", "wait" or "woken" in notFullCond_.wait, "notify": before notify_all
    puts,      \* how often each putter called put
    taker,     \* "idle", "wait" or "woken" in take, "waitFor" or "wokenFor" in poll
    taken      \* history: the elements in the order in which take and poll returned them

vars == <<bounded, queue, putter, puts, taker, taken>>

PutterStates == {"idle", "wait", "woken", "notify"}
TakerStates == {"idle", "wait", "woken", "waitFor", "wokenFor"}

TypeOK ==
    /\ bounded \in BOOLEAN
    /\ queue \in Seq(Elements)
    /\ putter \in [Putters -> PutterStates]
    /\ puts \in [Putters -> 0..MaxPuts]
    /\ taker \in [Takers -> TakerStates]
    /\ taken \in Seq(Elements)

Init ==
    /\ bounded \in BOOLEAN
    /\ queue = <<>>
    /\ putter = [p \in Putters |-> "idle"]
    /\ puts = [p \in Putters |-> 0]
    /\ taker = [t \in Takers |-> "idle"]
    /\ taken = <<>>

\* A waiter that is notified competes for mutex_ again.
Woken(s) == IF s = "wait" THEN "woken" ELSE IF s = "waitFor" THEN "wokenFor" ELSE s

\* notify_all: nobody waits in put of the plain queue, and nobody in poll of the bounded one.
WakeAll(pc) == [x \in DOMAIN pc |-> Woken(pc[x])]

-----------------------------------------------------------------------------
\* Fault: the condition of put's loop is off by one.
FaultyFull == bounded /\ Len(queue) = MaxSize + 1

Full == bounded /\ Len(queue) = MaxSize

\* put finds the queue full and waits.
PutWaits(p) ==
    /\ Full
    /\ putter' = [putter EXCEPT ![p] = "wait"]
    /\ UNCHANGED <<queue, taker>>

\* put pushes its element; the plain queue releases mutex_ before it notifies.
PutPushes(p) ==
    /\ ~Full
    /\ queue' = Append(queue, <<p, puts'[p]>>)
    /\ taker' = IF bounded THEN WakeAll(taker) ELSE taker
    /\ putter' = [putter EXCEPT ![p] = IF bounded THEN "idle" ELSE "notify"]

\* put, called or woken in its wait, up to the release of mutex_.
Put(p) ==
    /\ \/ /\ putter[p] = "idle" /\ puts[p] < MaxPuts
          /\ puts' = [puts EXCEPT ![p] = @ + 1]
       \/ putter[p] = "woken" /\ UNCHANGED puts
    /\ PutWaits(p) \/ PutPushes(p)
    /\ UNCHANGED <<bounded, taken>>

\* Fault: notify_one, which may meet a poll that has just timed out.
FaultyNotify(p) ==
    /\ putter[p] = "notify"
    /\ putter' = [putter EXCEPT ![p] = "idle"]
    /\ \E t \in Takers : taker' = [taker EXCEPT ![t] = Woken(@)]
    /\ UNCHANGED <<bounded, queue, puts, taken>>

\* cond_.notify_all(), the end of put of the plain queue.
Notify(p) ==
    /\ putter[p] = "notify"
    /\ putter' = [putter EXCEPT ![p] = "idle"]
    /\ taker' = WakeAll(taker)
    /\ UNCHANGED <<bounded, queue, puts, taken>>

\* Fault: take notifies nobody.
FaultyPop(t) ==
    /\ queue # <<>>
    /\ taken' = Append(taken, Head(queue))
    /\ queue' = Tail(queue)
    /\ taker' = [taker EXCEPT ![t] = "idle"]
    /\ UNCHANGED <<bounded, putter, puts>>

\* take or poll, with mutex_, when the queue is not empty.
Pop(t) ==
    /\ queue # <<>>
    /\ taken' = Append(taken, Head(queue))
    /\ queue' = Tail(queue)
    /\ taker' = [taker EXCEPT ![t] = "idle"]
    /\ putter' = WakeAll(putter)
    /\ UNCHANGED <<bounded, puts>>

Sleep(t, how) ==
    /\ queue = <<>>
    /\ taker' = [taker EXCEPT ![t] = how]
    /\ UNCHANGED <<bounded, queue, putter, puts, taken>>

\* take(), called or woken in its wait.
Take(t) == taker[t] \in {"idle", "woken"} /\ (Pop(t) \/ Sleep(t, "wait"))

\* poll(elem, milliseconds), called or woken in its wait_for.
Poll(t) ==
    /\ ~bounded /\ taker[t] \in {"idle", "wokenFor"}
    /\ Pop(t) \/ Sleep(t, "waitFor")

\* Fault: the element that arrives with the timeout is popped all the same.
FaultyPollTimeout(t) ==
    /\ taker[t] \in {"waitFor", "wokenFor"}
    /\ taker' = [taker EXCEPT ![t] = "idle"]
    /\ queue' = IF queue = <<>> THEN queue ELSE Tail(queue)
    /\ UNCHANGED <<bounded, putter, puts, taken>>

\* wait_for reports a timeout, also if it was notified meanwhile: poll returns false and does
\* not look at the queue.
PollTimeout(t) ==
    /\ taker[t] \in {"waitFor", "wokenFor"}
    /\ taker' = [taker EXCEPT ![t] = "idle"]
    /\ UNCHANGED <<bounded, queue, putter, puts, taken>>

\* A wait may return although nobody notified.
TakerWakes(t) ==
    /\ taker[t] \in {"wait", "waitFor"}
    /\ taker' = [taker EXCEPT ![t] = Woken(@)]
    /\ UNCHANGED <<bounded, queue, putter, puts, taken>>

PutterWakes(p) ==
    /\ putter[p] = "wait"
    /\ putter' = [putter EXCEPT ![p] = "woken"]
    /\ UNCHANGED <<bounded, queue, puts, taker, taken>>

Next ==
    \/ \E p \in Putters : Put(p) \/ Notify(p) \/ PutterWakes(p)
    \/ \E t \in Takers : Take(t) \/ Poll(t) \/ PollTimeout(t) \/ TakerWakes(t)

Spec == Init /\ [][Next]_vars

\* A thread that is inside put, or woken inside take, goes on; nobody has to call anything,
\* only the takers of the bounded queue take again and again.
Fairness ==
    /\ \A p \in Putters : WF_vars(Notify(p)) /\ WF_vars(putter[p] = "woken" /\ Put(p))
    /\ \A t \in Takers : /\ WF_vars(taker[t] = "woken" /\ Take(t))
                         /\ WF_vars(bounded /\ Take(t))

FairSpec == Spec /\ Fairness

-----------------------------------------------------------------------------
(* Properties *)

\* Both queues are mailboxes, whoever puts and takes and however polls time out.
Box == INSTANCE Mailbox WITH
    Messages <- Elements, sent <- taken \o queue, handled <- Len(taken)
ElementsInOrder == Box!Spec

\* Several putters that are woken for one place do not fill it twice.
CapacityKept == bounded => Len(queue) <= MaxSize

\* No wakeup is lost: who sleeps in take or poll beside an element is about to be notified by
\* a put of the plain queue; nobody sleeps in put beside a free place.
NobodySleepsInVain ==
    /\ queue # <<>> /\ (\E t \in Takers : taker[t] \in {"wait", "waitFor"}) =>
           ~bounded /\ \E p \in Putters : putter[p] = "notify"
    /\ \A p \in Putters : putter[p] = "wait" => Full

\* Who waits in put has counted its element.
Counted == \A p \in Putters : putter[p] # "idle" => puts[p] # 0

IInv == TypeOK /\ CapacityKept /\ NobodySleepsInVain /\ Counted

\* A take that waits while there is an element returns, or another thread took the element.
TakeReturns ==
    \A t \in Takers :
        (taker[t] \in {"wait", "woken"} /\ queue # <<>>) ~> (taker[t] = "idle" \/ queue = <<>>)

\* As long as the takers take, each of finitely many puts returns, although it competes with
\* the others for its place: no wakeup is lost for good.
PutReturns == \A p \in Putters : (putter[p] # "idle") ~> (putter[p] = "idle")
=============================================================================
