------------------------ MODULE BlockingQueuesProofs ------------------------
(***************************************************************************)
(* Proofs about BlockingQueues, for any number of putters and takers and   *)
(* any capacity.                                                           *)
(***************************************************************************)
EXTENDS BlockingQueues, SequenceTheorems, TLAPS

-----------------------------------------------------------------------------
(* Sequences *)

\* What Append yields.
LEMMA AppendFacts ==
  ASSUME NEW S, NEW s \in Seq(S), NEW e \in S
  PROVE  Append(s, e) \in Seq(S) /\ Len(Append(s, e)) = Len(s) + 1
  BY AppendProperties

\* What Head and Tail of a sequence that is not empty yield.
LEMMA TailFacts ==
  ASSUME NEW S, NEW s \in Seq(S), s # <<>>
  PROVE  Head(s) \in S /\ Tail(s) \in Seq(S) /\ Len(Tail(s)) = Len(s) - 1 /\ Len(s) \in Nat
  BY HeadTailProperties, LenProperties

\* A sequence is its head followed by its tail.
LEMMA HeadTailConcat ==
  ASSUME NEW S, NEW s \in Seq(S), s # <<>>
  PROVE  s = <<Head(s)>> \o Tail(s)
  <1>1. Len(s) \in Nat \ {0} /\ 1 \in 1..Len(s) /\ Len(s) \in 1..Len(s)
    BY EmptySeq
  <1>2. SubSeq(s, 1, Len(s)) = <<s[1]>> \o SubSeq(s, 1 + 1, Len(s))
    BY <1>1, SubSeqRecursiveFirst
  <1>. QED
    BY <1>2, SubSeqFull, TailIsSubSeq, 1 + 1 = 2, Head(s) = s[1]

\* What is sent behind the queue is sent last.
LEMMA SendConcat ==
  ASSUME NEW S, NEW h \in Seq(S), NEW q \in Seq(S), NEW e \in S
  PROVE  h \o Append(q, e) = Append(h \o q, e)
  <1>1. <<e>> \in Seq(S) /\ h \o q \in Seq(S)
    BY ConcatProperties
  <1>2. Append(q, e) = q \o <<e>> /\ Append(h \o q, e) = (h \o q) \o <<e>>
    BY <1>1, AppendIsConcat
  <1>. QED
    BY <1>1, <1>2, ConcatAssociative

\* To handle the first of the queue changes nothing of what was sent.
LEMMA HandleConcat ==
  ASSUME NEW S, NEW h \in Seq(S), NEW q \in Seq(S), q # <<>>
  PROVE  Append(h, Head(q)) \o Tail(q) = h \o q
  <1>1. Head(q) \in S /\ Tail(q) \in Seq(S) /\ <<Head(q)>> \in Seq(S)
    BY TailFacts
  <1>2. Append(h, Head(q)) = h \o <<Head(q)>> /\ q = <<Head(q)>> \o Tail(q)
    BY <1>1, AppendIsConcat, HeadTailConcat
  <1>. QED
    BY <1>1, <1>2, ConcatAssociative

\* There is something to handle as long as the queue is not empty.
LEMMA ConcatLonger ==
  ASSUME NEW S, NEW h \in Seq(S), NEW q \in Seq(S), q # <<>>
  PROVE  Len(h) < Len(h \o q) /\ Len(h) \in Nat
  <1>1. Len(q) \in Nat /\ Len(q) # 0 /\ Len(h) \in Nat
    BY LenProperties, TailFacts
  <1>2. Len(h \o q) = Len(h) + Len(q)
    BY ConcatProperties
  <1>. QED
    BY <1>1, <1>2

-----------------------------------------------------------------------------

\* notify_all leaves nobody asleep.
LEMMA WokenTakers ==
  ASSUME TypeOK, taker' = WakeAll(taker)
  PROVE  /\ taker' \in [Takers -> TakerStates]
         /\ \A t \in Takers : taker'[t] \notin {"wait", "waitFor"}
  BY DEF TypeOK, TakerStates, WakeAll, Woken

LEMMA WokenPutters ==
  ASSUME TypeOK, putter' = WakeAll(putter)
  PROVE  /\ putter' \in [Putters -> PutterStates]
         /\ \A p \in Putters : /\ putter'[p] # "wait"
                               /\ putter'[p] = "idle" <=> putter[p] = "idle"
                               /\ putter'[p] = "notify" <=> putter[p] = "notify"
  BY DEF TypeOK, PutterStates, WakeAll, Woken

LEMMA InitInv == Init => IInv
  <1>. SUFFICES ASSUME Init PROVE IInv
    OBVIOUS
  <1>1. TypeOK /\ Len(queue) = 0
    BY QueueAssumption, EmptySeq DEF Init, TypeOK, PutterStates, TakerStates
  <1>. QED
    BY <1>1, QueueAssumption DEF Init, IInv, CapacityKept, NobodySleepsInVain, Counted

-----------------------------------------------------------------------------
(* put *)

\* What a put that is called or woken has counted.
LEMMA PutFacts ==
  ASSUME IInv, NEW p \in Putters, Put(p)
  PROVE  /\ puts' \in [Putters -> 0..MaxPuts]
         /\ puts'[p] # 0 /\ \A q \in Putters : q # p => puts'[q] = puts[q]
         /\ PutWaits(p) \/ PutPushes(p)
         /\ UNCHANGED <<bounded, taken>>
  <1>1. CASE putter[p] = "idle" /\ puts[p] < MaxPuts /\ puts' = [puts EXCEPT ![p] = @ + 1]
    <2>1. puts[p] \in Nat /\ puts[p] + 1 \in 0..MaxPuts /\ puts[p] + 1 # 0
      BY <1>1, QueueAssumption DEF IInv, TypeOK
    <2>2. puts' \in [Putters -> 0..MaxPuts] /\ puts'[p] = puts[p] + 1
      BY <1>1, <2>1 DEF IInv, TypeOK
    <2>3. \A q \in Putters : q # p => puts'[q] = puts[q]
      BY <1>1 DEF IInv, TypeOK
    <2>. QED
      BY <2>1, <2>2, <2>3 DEF Put
  <1>2. CASE putter[p] = "woken" /\ UNCHANGED puts
    BY <1>2 DEF IInv, TypeOK, Counted, Put
  <1>. QED
    BY <1>1, <1>2 DEF Put

\* The queue is full: p waits.
LEMMA PutWaitsInv ==
  ASSUME IInv, NEW p \in Putters, Put(p), PutWaits(p)
  PROVE  IInv'
  <1>1. /\ UNCHANGED <<bounded, queue, taker, taken>> /\ Full /\ Full'
        /\ putter' = [putter EXCEPT ![p] = "wait"]
    BY PutFacts DEF PutWaits, Full
  <1>2. /\ putter' \in [Putters -> PutterStates] /\ putter'[p] = "wait"
        /\ \A q \in Putters : q # p => putter'[q] = putter[q]
    BY <1>1 DEF IInv, TypeOK, PutterStates
  <1>3. TypeOK' /\ CapacityKept'
    BY <1>1, <1>2, PutFacts DEF IInv, TypeOK, CapacityKept
  <1>4. NobodySleepsInVain'
    BY <1>1, <1>2 DEF IInv, NobodySleepsInVain, Full
  <1>5. Counted'
    BY <1>2, PutFacts DEF IInv, Counted
  <1>. QED
    BY <1>3, <1>4, <1>5 DEF IInv

\* What a put that pushes does to the queue and to the threads.
LEMMA PutPushesFacts ==
  ASSUME IInv, NEW p \in Putters, Put(p), PutPushes(p)
  PROVE  /\ <<p, puts'[p]>> \in Elements
         /\ queue' = Append(queue, <<p, puts'[p]>>)
         /\ queue' \in Seq(Elements) /\ Len(queue') = Len(queue) + 1 /\ Len(queue) \in Nat
         /\ putter' \in [Putters -> PutterStates]
         /\ putter'[p] = IF bounded THEN "idle" ELSE "notify"
         /\ \A q \in Putters : q # p => putter'[q] = putter[q]
  <1>1. <<p, puts'[p]>> \in Elements
    BY PutFacts, QueueAssumption DEF Elements
  <1>2. queue' = Append(queue, <<p, puts'[p]>>)
    BY DEF PutPushes
  <1>3. queue' \in Seq(Elements) /\ Len(queue') = Len(queue) + 1 /\ Len(queue) \in Nat
    BY <1>1, <1>2, AppendFacts, LenProperties DEF IInv, TypeOK
  <1>4. /\ putter' \in [Putters -> PutterStates]
        /\ putter'[p] = IF bounded THEN "idle" ELSE "notify"
        /\ \A q \in Putters : q # p => putter'[q] = putter[q]
    BY DEF PutPushes, IInv, TypeOK, PutterStates
  <1>. QED
    BY <1>1, <1>2, <1>3, <1>4

\* There is a place: p pushes; it wakes the takers or is about to.
LEMMA PutPushesInv ==
  ASSUME IInv, NEW p \in Putters, Put(p), PutPushes(p)
  PROVE  IInv'
  <1>1. ~Full /\ UNCHANGED <<bounded, taken>>
    BY PutFacts DEF PutPushes
  <1>2. taker' \in [Takers -> TakerStates]
        /\ (bounded => \A t \in Takers : taker'[t] \notin {"wait", "waitFor"})
    <2>1. CASE bounded
      BY <2>1, WokenTakers DEF IInv, PutPushes
    <2>2. CASE ~bounded
      BY <2>2 DEF IInv, TypeOK, PutPushes
    <2>. QED
      BY <2>1, <2>2
  <1>3. TypeOK'
    BY <1>1, <1>2, PutFacts, PutPushesFacts DEF IInv, TypeOK
  <1>4. CapacityKept'
    <2>1. bounded => Len(queue) < MaxSize
      BY <1>1, PutPushesFacts, QueueAssumption DEF IInv, CapacityKept, Full
    <2>2. Len(queue') = Len(queue) + 1 /\ Len(queue) \in Nat /\ bounded' = bounded
      BY <1>1, PutPushesFacts
    <2>3. bounded' => Len(queue') <= MaxSize
      BY <2>1, <2>2, QueueAssumption
    <2>. QED
      BY <2>3 DEF CapacityKept
  <1>5. NobodySleepsInVain'
    <2>1. \A q \in Putters : putter'[q] # "wait"
      BY <1>1, PutPushesFacts DEF IInv, NobodySleepsInVain
    <2>2. bounded => \A t \in Takers : taker'[t] \notin {"wait", "waitFor"}
      BY <1>2
    <2>3. ~bounded => \E q \in Putters : putter'[q] = "notify"
      BY PutPushesFacts
    <2>. QED
      BY <1>1, <2>1, <2>2, <2>3 DEF NobodySleepsInVain
  <1>6. Counted'
    BY PutFacts, PutPushesFacts DEF IInv, Counted
  <1>. QED
    BY <1>3, <1>4, <1>5, <1>6 DEF IInv

LEMMA PutInv ==
  ASSUME IInv, NEW p \in Putters, Put(p)
  PROVE  IInv'
  BY PutFacts, PutWaitsInv, PutPushesInv

\* notify_all of the plain queue leaves nobody asleep.
LEMMA NotifyInv ==
  ASSUME IInv, NEW p \in Putters, Notify(p)
  PROVE  IInv'
  <1>1. /\ taker' \in [Takers -> TakerStates]
        /\ \A t \in Takers : taker'[t] \notin {"wait", "waitFor"}
    BY WokenTakers DEF Notify, IInv
  <1>2. /\ putter' \in [Putters -> PutterStates]
        /\ \A q \in Putters : putter'[q] # "idle" => putter'[q] = putter[q]
    BY DEF IInv, TypeOK, PutterStates, Notify
  <1>3. UNCHANGED <<bounded, queue, puts, taken>>
    BY DEF Notify
  <1>4. TypeOK' /\ CapacityKept'
    BY <1>1, <1>2, <1>3 DEF IInv, TypeOK, CapacityKept
  <1>5. NobodySleepsInVain' /\ Counted'
    BY <1>1, <1>2, <1>3 DEF IInv, NobodySleepsInVain, Counted, Full
  <1>. QED
    BY <1>4, <1>5 DEF IInv

-----------------------------------------------------------------------------
(* take and poll, and the wakeups *)

LEMMA PopInv ==
  ASSUME IInv, NEW t \in Takers, Pop(t)
  PROVE  IInv'
  <1>1. queue # <<>> /\ UNCHANGED <<bounded, puts>> /\ putter' = WakeAll(putter)
    BY DEF Pop
  <1>2. /\ queue' \in Seq(Elements) /\ taken' \in Seq(Elements)
        /\ Len(queue') = Len(queue) - 1 /\ Len(queue) \in Nat
    BY TailFacts, AppendFacts DEF IInv, TypeOK, Pop
  <1>3. /\ taker' \in [Takers -> TakerStates]
        /\ \A u \in Takers : taker'[u] \in {"wait", "waitFor"} => taker[u] = taker'[u]
    BY DEF IInv, TypeOK, TakerStates, Pop
  <1>4. /\ putter' \in [Putters -> PutterStates]
        /\ \A p \in Putters : /\ putter'[p] # "wait"
                              /\ putter'[p] = "idle" <=> putter[p] = "idle"
                              /\ putter'[p] = "notify" <=> putter[p] = "notify"
    BY <1>1, WokenPutters DEF IInv
  <1>5. TypeOK'
    BY <1>1, <1>2, <1>3, <1>4 DEF IInv, TypeOK
  <1>6. CapacityKept'
    BY <1>1, <1>2, QueueAssumption DEF IInv, CapacityKept
  <1>7. NobodySleepsInVain'
    BY <1>1, <1>3, <1>4 DEF IInv, NobodySleepsInVain
  <1>8. Counted'
    BY <1>1, <1>4 DEF IInv, Counted
  <1>. QED
    BY <1>5, <1>6, <1>7, <1>8 DEF IInv

\* A taker goes to sleep beside an empty queue.
LEMMA SleepInv ==
  ASSUME IInv, NEW t \in Takers, NEW how \in {"wait", "waitFor"}, Sleep(t, how)
  PROVE  IInv'
  <1>1. queue = <<>> /\ UNCHANGED <<bounded, queue, putter, puts, taken>>
    BY DEF Sleep
  <1>2. taker' \in [Takers -> TakerStates]
    BY DEF IInv, TypeOK, TakerStates, Sleep
  <1>. QED
    BY <1>1, <1>2 DEF IInv, TypeOK, CapacityKept, NobodySleepsInVain, Counted, Full

\* A taker that wakes up, by itself or by its timeout, sleeps no more; nobody else changes.
LEMMA TakerWakesInv ==
  ASSUME IInv, NEW t \in Takers, PollTimeout(t) \/ TakerWakes(t)
  PROVE  IInv'
  <1>1. /\ taker' \in [Takers -> TakerStates]
        /\ \A u \in Takers : taker'[u] \in {"wait", "waitFor"} => taker[u] = taker'[u]
    BY DEF IInv, TypeOK, TakerStates, PollTimeout, TakerWakes, Woken
  <1>2. UNCHANGED <<bounded, queue, putter, puts, taken>>
    BY DEF PollTimeout, TakerWakes
  <1>. QED
    BY <1>1, <1>2 DEF IInv, TypeOK, CapacityKept, NobodySleepsInVain, Counted, Full

LEMMA PutterWakesInv ==
  ASSUME IInv, NEW p \in Putters, PutterWakes(p)
  PROVE  IInv'
  <1>1. /\ putter' \in [Putters -> PutterStates]
        /\ \A q \in Putters : putter'[q] = putter[q] \/ (putter'[q] = "woken" /\ putter[q] = "wait")
    BY DEF IInv, TypeOK, PutterStates, PutterWakes
  <1>2. UNCHANGED <<bounded, queue, puts, taker, taken>>
    BY DEF PutterWakes
  <1>3. TypeOK' /\ CapacityKept'
    BY <1>1, <1>2 DEF IInv, TypeOK, CapacityKept
  <1>4. NobodySleepsInVain' /\ Counted'
    BY <1>1, <1>2 DEF IInv, NobodySleepsInVain, Counted, Full
  <1>. QED
    BY <1>3, <1>4 DEF IInv

LEMMA NextInv == IInv /\ [Next]_vars => IInv'
  <1>. SUFFICES ASSUME IInv, [Next]_vars PROVE IInv'
    OBVIOUS
  <1>1. CASE \E p \in Putters : Put(p)
    BY <1>1, PutInv
  <1>2. CASE \E p \in Putters : Notify(p) \/ PutterWakes(p)
    BY <1>2, NotifyInv, PutterWakesInv
  <1>3. CASE \E t \in Takers : Take(t) \/ Poll(t)
    BY <1>3, PopInv, SleepInv DEF Take, Poll
  <1>4. CASE \E t \in Takers : PollTimeout(t) \/ TakerWakes(t)
    BY <1>4, TakerWakesInv
  <1>5. CASE UNCHANGED vars
    BY <1>5 DEF vars, IInv, TypeOK, CapacityKept, NobodySleepsInVain, Counted, Full
  <1>. QED
    BY <1>1, <1>2, <1>3, <1>4, <1>5 DEF Next

-----------------------------------------------------------------------------

\* The types, the capacity and the wakeups of both queues together are inductive.
THEOREM InvariantHolds == Spec => []IInv
  BY InitInv, NextInv, PTL DEF Spec

\* Several putters that are woken for one place do not overfill the bounded queue.
THEOREM CapacityIsKept == Spec => []CapacityKept
  BY InvariantHolds, PTL DEF IInv

\* Nobody sleeps who could go on, whether put notifies with mutex_ or after it, however poll
\* times out.
THEOREM NoWakeupIsLost == Spec => []NobodySleepsInVain
  BY InvariantHolds, PTL DEF IInv

-----------------------------------------------------------------------------
(* The queues are mailboxes. *)

LEMMA InitBox == Init => Box!Init
  <1>. SUFFICES ASSUME Init PROVE Box!Init
    OBVIOUS
  <1>1. taken = <<>> /\ queue = <<>> /\ <<>> \in Seq(Elements) /\ Len(<<>>) = 0
    BY EmptySeq DEF Init
  <1>2. taken \o queue = <<>>
    BY <1>1, ConcatEmptySeq
  <1>. QED
    BY <1>1, <1>2 DEF Box!Init

\* A put that waits changes nothing, one that pushes sends.
LEMMA PutBox ==
  ASSUME IInv, NEW p \in Putters, Put(p)
  PROVE  Box!Next \/ UNCHANGED <<queue, taken>>
  <1>1. CASE PutWaits(p)
    BY <1>1, PutFacts DEF PutWaits
  <1>2. CASE PutPushes(p)
    <2>1. taken' = taken /\ queue' = Append(queue, <<p, puts'[p]>>) /\ <<p, puts'[p]>> \in Elements
      BY <1>2, PutFacts, PutPushesFacts
    <2>2. taken' \o queue' = Append(taken \o queue, <<p, puts'[p]>>)
      BY <2>1, SendConcat DEF IInv, TypeOK
    <2>. QED
      BY <2>1, <2>2 DEF Box!Next, Box!Send
  <1>. QED
    BY <1>1, <1>2, PutFacts

LEMMA PopBox ==
  ASSUME IInv, NEW t \in Takers, Pop(t)
  PROVE  Box!Next
  <1>1. queue # <<>> /\ taken' = Append(taken, Head(queue)) /\ queue' = Tail(queue)
        /\ Head(queue) \in Elements
    BY TailFacts DEF Pop, IInv, TypeOK
  <1>2. taken' \o queue' = taken \o queue
    BY <1>1, HandleConcat DEF IInv, TypeOK
  <1>3. Len(taken') = Len(taken) + 1 /\ Len(taken) < Len(taken \o queue)
    BY <1>1, AppendFacts, ConcatLonger DEF IInv, TypeOK
  <1>. QED
    BY <1>2, <1>3 DEF Box!Next, Box!Handle

\* Every step of a queue is a step of the mailbox or none.
LEMMA NextBox == IInv /\ [Next]_vars => [Box!Next]_(Box!mailboxVars)
  <1>. SUFFICES ASSUME IInv, [Next]_vars PROVE [Box!Next]_(Box!mailboxVars)
    OBVIOUS
  <1>1. CASE UNCHANGED <<queue, taken>>
    BY <1>1 DEF Box!mailboxVars
  <1>2. CASE \E p \in Putters : Put(p)
    BY <1>1, <1>2, PutBox
  <1>3. CASE \E t \in Takers : Pop(t)
    BY <1>3, PopBox
  <1>4. \/ UNCHANGED <<queue, taken>>
        \/ \E p \in Putters : Put(p)
        \/ \E t \in Takers : Pop(t)
    BY DEF Next, Notify, PutterWakes, Take, Poll, Sleep, PollTimeout, TakerWakes, vars
  <1>. QED
    BY <1>1, <1>2, <1>3, <1>4

\* Elements are taken once each, in the order in which put pushed them.
THEOREM QueueIsMailbox == Spec => ElementsInOrder
  <1>1. Init => Box!Init
    BY InitBox
  <1>2. IInv /\ [Next]_vars => [Box!Next]_(Box!mailboxVars)
    BY NextBox
  <1>. QED
    BY <1>1, <1>2, InvariantHolds, PTL DEF Spec, ElementsInOrder, Box!Spec
=============================================================================
