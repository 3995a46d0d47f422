-------------------------- MODULE ThreadPoolProofs --------------------------
(***************************************************************************)
(* Proofs about ThreadPool, for any number of workers and producers and    *)
(* any queue size.                                                         *)
(***************************************************************************)
EXTENDS ThreadPool, SequenceTheorems, TLAPS

-----------------------------------------------------------------------------
(* Sequences *)

\* What Append yields.
LEMMA AppendFacts ==
  ASSUME NEW S, NEW s \in Seq(S), NEW e \in S
  PROVE  Append(s, e) \in Seq(S) /\ Len(Append(s, e)) = Len(s) + 1
  BY AppendProperties

\* What Head and Tail of a sequence that is not empty yield.
LEMMA TailFacts ==
  ASSUME NEW S, NEW s \in Seq(S), s # <<>>
  PROVE  Head(s) \in S /\ Tail(s) \in Seq(S) /\ Len(Tail(s)) = Len(s) - 1 /\ Len(s) \in Nat
  BY HeadTailProperties, LenProperties

\* A sequence is its head followed by its tail.
LEMMA HeadTailConcat ==
  ASSUME NEW S, NEW s \in Seq(S), s # <<>>
  PROVE  s = <<Head(s)>> \o Tail(s)
  <1>1. Len(s) \in Nat \ {0} /\ 1 \in 1..Len(s) /\ Len(s) \in 1..Len(s)
    BY EmptySeq
  <1>2. SubSeq(s, 1, Len(s)) = <<s[1]>> \o SubSeq(s, 1 + 1, Len(s))
    BY <1>1, SubSeqRecursiveFirst
  <1>. QED
    BY <1>2, SubSeqFull, TailIsSubSeq, 1 + 1 = 2, Head(s) = s[1]

-----------------------------------------------------------------------------

\* The part of the invariant that does not look at the order of the tasks.
Shape == TypeOK /\ Phases /\ QueueBound

LEMMA InitInv == Init => IInv
  <1>. SUFFICES ASSUME Init PROVE IInv
    OBVIOUS
  <1>1. queue = <<>> /\ taken = <<>> /\ <<>> \in Seq(Tasks) /\ Len(<<>>) = 0
    BY EmptySeq DEF Init
  <1>2. Line = <<>>
    BY <1>1, ConcatEmptySeq DEF Line
  <1>3. TypeOK
    <2>1. queue \in Seq(Tasks) /\ taken \in Seq(Tasks)
      BY <1>1
    <2>2. 1 \in 1..(ThreadNum + 1) /\ 0 \in 0..MaxStarts /\ 0 \in 0..MaxRuns
      BY PoolAssumption
    <2>3. /\ worker \in [Workers -> {"none", "test", "lock", "wait", "woken", "took", "run", "exit"}]
          /\ task \in [Workers -> Tasks \cup {<<>>}]
          /\ caller \in [Producers -> {"idle", "wait", "woken"}]
          /\ calls \in [Producers -> 0..MaxRuns]
      BY <2>2 DEF Init
    <2>. QED
      BY <2>1, <2>2, <2>3 DEF Init, TypeOK
  <1>4. Phases /\ QueueBound
    BY <1>1, PoolAssumption DEF Init, Phases, QueueBound
  <1>5. Numbered /\ ProducersInOrder
    BY <1>1, <1>2 DEF Init, Numbered, ProducersInOrder
  <1>. QED
    BY <1>3, <1>4, <1>5 DEF IInv

\* Waking the workers that wait changes no other worker.
LEMMA WokenFacts ==
  ASSUME TypeOK, worker' = Woken(worker)
  PROVE  /\ worker' \in [Workers -> {"none", "test", "lock", "wait", "woken", "took", "run", "exit"}]
         /\ \A w \in Workers : worker'[w] = IF worker[w] = "wait" THEN "woken" ELSE worker[w]
  BY DEF TypeOK, Woken

LEMMA WokenCallers ==
  ASSUME TypeOK, caller' = Woken(caller)
  PROVE  caller' \in [Producers -> {"idle", "wait", "woken"}]
  BY DEF TypeOK, Woken

-----------------------------------------------------------------------------
(* start and stop *)

LEMMA StartShape ==
  ASSUME Shape, Start
  PROVE  Shape'
  <1>. USE PoolAssumption
  <1>1. CASE StartBegin
    BY <1>1 DEF StartBegin, Shape, TypeOK, Phases, QueueBound, Workers
  <1>2. CASE StartThread
    <2>1. /\ next \in Workers /\ next' = next + 1 /\ next' \in 1..(ThreadNum + 1)
          /\ worker' = [worker EXCEPT ![next] = "test"]
      BY <1>2 DEF StartThread, Shape, TypeOK, Workers
    <2>2. \A w \in Workers : worker'[w] = IF w = next THEN "test" ELSE worker[w]
      BY <2>1 DEF Shape, TypeOK
    <2>3. TypeOK'
      BY <1>2, <2>1 DEF StartThread, Shape, TypeOK
    <2>4. Phases' /\ QueueBound'
      BY <1>2, <2>2 DEF StartThread, Shape, Phases, QueueBound
    <2>. QED
      BY <2>3, <2>4 DEF Shape
  <1>3. CASE StartEnd
    BY <1>3 DEF StartEnd, Shape, TypeOK, Phases, QueueBound
  <1>. QED
    BY <1>1, <1>2, <1>3 DEF Start

LEMMA StopShape ==
  ASSUME Shape, Stop
  PROVE  Shape'
  <1>. USE PoolAssumption
  <1>1. CASE StopBegin
    <2>1. worker' \in [Workers -> {"none", "test", "lock", "wait", "woken", "took", "run", "exit"}]
      BY <1>1, WokenFacts DEF StopBegin, Shape
    <2>2. TypeOK'
      <3>1. next' = 1 /\ running' = FALSE /\ main' = "joining" /\ 1 \in 1..(ThreadNum + 1)
        BY <1>1 DEF StopBegin
      <3>2. UNCHANGED <<queue, task, caller, calls, starts, taken>>
        BY <1>1 DEF StopBegin
      <3>. QED
        BY <2>1, <3>1, <3>2 DEF Shape, TypeOK
    <2>3. Phases' /\ QueueBound'
      BY <1>1 DEF StopBegin, Shape, Phases, QueueBound, Workers
    <2>. QED
      BY <2>2, <2>3 DEF Shape
  <1>2. CASE StopJoin
    <2>1. /\ next \in Workers /\ next' = next + 1 /\ next' \in 1..(ThreadNum + 1)
          /\ worker' = [worker EXCEPT ![next] = "none"]
      BY <1>2 DEF StopJoin, Shape, TypeOK, Workers
    <2>2. \A w \in Workers : worker'[w] = IF w = next THEN "none" ELSE worker[w]
      BY <2>1 DEF Shape, TypeOK
    <2>3. TypeOK'
      BY <1>2, <2>1 DEF StopJoin, Shape, TypeOK
    <2>4. \A w \in Workers : w < next' => w < next \/ w = next
      BY <2>1 DEF Workers
    <2>5. Phases' /\ QueueBound'
      BY <1>2, <2>2, <2>4 DEF StopJoin, Shape, Phases, QueueBound
    <2>. QED
      BY <2>3, <2>5 DEF Shape
  <1>3. CASE StopEnd
    <2>1. queue' = <<>> /\ queue' \in Seq(Tasks) /\ Len(queue') = 0
      BY <1>3, EmptySeq DEF StopEnd
    <2>2. \A w \in Workers : w < next
      BY <1>3 DEF StopEnd, Shape, TypeOK, Workers
    <2>3. TypeOK'
      BY <1>3, <2>1 DEF StopEnd, Shape, TypeOK
    <2>4. \A w \in Workers : worker'[w] = "none"
      BY <1>3, <2>2 DEF StopEnd, Shape, Phases
    <2>5. Phases' /\ QueueBound'
      BY <1>3, <2>1, <2>4 DEF StopEnd, Shape, Phases, QueueBound
    <2>. QED
      BY <2>3, <2>5 DEF Shape
  <1>. QED
    BY <1>1, <1>2, <1>3 DEF Stop

-----------------------------------------------------------------------------
(* run *)

LEMMA RunLockedShape ==
  ASSUME Shape, NEW p \in Producers, RunLocked(p), MutexFree,
         calls' \in [Producers -> 0..MaxRuns], calls'[p] \in 1..MaxRuns
  PROVE  Shape'
  <1>1. /\ UNCHANGED <<running, task, main, next, starts, taken>>
        /\ caller' \in [Producers -> {"idle", "wait", "woken"}]
    BY DEF RunLocked, Shape, TypeOK
  <1>2. CASE UNCHANGED <<queue, worker>>
    BY <1>1, <1>2 DEF Shape, TypeOK, Phases, QueueBound
  <1>3. CASE /\ Len(queue) < MaxSize /\ running /\ worker' = Woken(worker)
             /\ queue' = Append(queue, <<p, calls'[p]>>)
    <2>1. <<p, calls'[p]>> \in Tasks
      BY DEF Tasks
    <2>2. queue' \in Seq(Tasks) /\ Len(queue') = Len(queue) + 1 /\ Len(queue) \in Nat
      BY <1>3, <2>1, AppendFacts, LenProperties DEF Shape, TypeOK
    <2>3. TypeOK'
      BY <1>1, <1>3, <2>2, WokenFacts DEF Shape, TypeOK
    <2>4. Phases'
      BY <1>1, <1>3 DEF Shape, Phases
    <2>5. QueueBound'
      BY <1>3, <2>2, PoolAssumption DEF QueueBound
    <2>. QED
      BY <2>3, <2>4, <2>5 DEF Shape
  <1>. QED
    BY <1>2, <1>3 DEF RunLocked

LEMMA RunFacts ==
  ASSUME IInv, NEW p \in Producers, Run(p)
  PROVE  /\ RunLocked(p) /\ MutexFree
         /\ calls' \in [Producers -> 0..MaxRuns] /\ calls'[p] \in 1..MaxRuns
         /\ \A q \in Producers : q # p => calls'[q] = calls[q]
         /\ \/ calls'[p] = calls[p] + 1
            \/ calls'[p] = calls[p] /\ caller[p] # "idle"
  <1>1. CASE RunCall(p)
    BY <1>1, PoolAssumption DEF RunCall, IInv, TypeOK
  <1>2. CASE RunWoken(p)
    BY <1>2, PoolAssumption DEF RunWoken, IInv, TypeOK, Numbered
  <1>. QED
    BY <1>1, <1>2 DEF Run

-----------------------------------------------------------------------------
(* threadFunc *)

\* A task taken from the front of the queue.
LEMMA TakeFacts ==
  ASSUME TypeOK, NEW w \in Workers, Take(w)
  PROVE  /\ queue' \in Seq(Tasks) /\ Len(queue') = Len(queue) - 1 /\ Len(queue) \in Nat
         /\ taken' \in Seq(Tasks) /\ task' \in [Workers -> Tasks \cup {<<>>}]
         /\ caller' \in [Producers -> {"idle", "wait", "woken"}]
  <1>1. Head(queue) \in Tasks /\ queue # <<>> /\ queue' = Tail(queue)
    BY TailFacts DEF TypeOK, Take
  <1>2. queue' \in Seq(Tasks) /\ Len(queue') = Len(queue) - 1 /\ Len(queue) \in Nat
    BY <1>1, TailFacts DEF TypeOK
  <1>3. taken' \in Seq(Tasks)
    BY <1>1, AppendFacts DEF TypeOK, Take
  <1>4. task' \in [Workers -> Tasks \cup {<<>>}]
    BY <1>1 DEF TypeOK, Take
  <1>. QED
    BY <1>2, <1>3, <1>4, WokenCallers DEF Take

LEMMA ThreadFuncShape ==
  ASSUME Shape, NEW w \in Workers, threadFunc(w)
  PROVE  Shape'
  <1>1. CASE Test(w)
    BY <1>1 DEF Test, Shape, TypeOK, Phases, QueueBound
  <1>2. CASE Begin(w) \/ Finish(w)
    BY <1>2 DEF Begin, Finish, Shape, TypeOK, Phases, QueueBound
  <1>3. CASE Locked(w) \/ Resumed(w)
    <2>1. /\ main = "started" /\ UNCHANGED <<running, calls, main, next, starts>>
          /\ running <=> main = "started"
      BY <1>3 DEF Locked, Resumed, MutexFree, Shape, TypeOK, Phases
    <2>2. CASE Take(w)
      <3>1. TypeOK'
        BY <2>1, <2>2, TakeFacts DEF Shape, TypeOK, Take
      <3>2. Phases' /\ QueueBound'
        BY <2>1, <2>2, TakeFacts, PoolAssumption DEF Shape, Phases, QueueBound
      <3>. QED
        BY <3>1, <3>2 DEF Shape
    <2>3. CASE ~Take(w)
      <3>1. /\ UNCHANGED <<queue, task, caller, taken>>
            /\ \/ worker' = [worker EXCEPT ![w] = "wait"]
               \/ worker' = [worker EXCEPT ![w] = "test"]
        BY <1>3, <2>3 DEF Locked, Resumed
      <3>. QED
        BY <2>1, <3>1 DEF Shape, TypeOK, Phases, QueueBound
    <2>. QED
      BY <2>2, <2>3
  <1>. QED
    BY <1>1, <1>2, <1>3 DEF threadFunc

LEMMA SpuriousShape ==
  ASSUME Shape, SpuriousWakeup
  PROVE  Shape'
  BY DEF SpuriousWakeup, Shape, TypeOK, Phases, QueueBound

-----------------------------------------------------------------------------
(* The order of the tasks *)

LEMMA LineFacts ==
  ASSUME TypeOK
  PROVE  /\ Line \in Seq(Tasks) /\ Len(Line) = Len(taken) + Len(queue) /\ Len(Line) \in Nat
         /\ Len(taken) \in Nat /\ Len(queue) \in Nat
         /\ \A i \in 1..Len(Line) : /\ Line[i] \in Tasks
                                    /\ Line[i][1] \in Producers /\ Line[i][2] \in Nat
  <1>1. /\ Line \in Seq(Tasks) /\ Len(Line) = Len(taken) + Len(queue)
        /\ Len(taken) \in Nat /\ Len(queue) \in Nat
    BY ConcatProperties, LenProperties DEF TypeOK, Line
  <1>2. \A i \in 1..Len(Line) : Line[i] \in Tasks
    BY <1>1, ElementOfSeq
  <1>3. \A t \in Tasks : t[1] \in Producers /\ t[2] \in Nat
    BY PoolAssumption DEF Tasks
  <1>. QED
    BY <1>1, <1>2, <1>3

\* A line that does not grow stays in order, whoever calls run or leaves it.
LEMMA OrderKept ==
  ASSUME IInv, Len(Line') \in 0..Len(Line), \A i \in 1..Len(Line') : Line'[i] = Line[i],
         calls' \in [Producers -> 0..MaxRuns],
         \A p \in Producers : /\ calls'[p] >= calls[p]
                              /\ caller'[p] # "idle" => caller[p] # "idle" \/ calls'[p] > calls[p]
  PROVE  Numbered' /\ ProducersInOrder'
  <1>1. \A i \in 1..Len(Line') : i \in 1..Len(Line) /\ Line'[i] = Line[i]
    BY LineFacts DEF IInv
  <1>2. calls \in [Producers -> Nat] /\ calls' \in [Producers -> Nat]
    BY PoolAssumption DEF IInv, TypeOK
  <1>3. \A p \in Producers : caller'[p] # "idle" => calls'[p] > 0
    BY <1>2 DEF IInv, Numbered
  <1>4. ASSUME NEW i \in 1..Len(Line')
        PROVE  /\ Line'[i][2] <= calls'[Line'[i][1]]
               /\ caller'[Line'[i][1]] # "idle" => Line'[i][2] < calls'[Line'[i][1]]
    <2>1. /\ Line'[i] = Line[i] /\ Line[i][1] \in Producers /\ Line[i][2] \in Nat
          /\ Line[i][2] <= calls[Line[i][1]]
          /\ caller[Line[i][1]] # "idle" => Line[i][2] < calls[Line[i][1]]
      BY <1>1, LineFacts DEF IInv, Numbered
    <2>. QED
      BY <1>2, <2>1
  <1>5. ProducersInOrder'
    BY <1>1 DEF IInv, ProducersInOrder
  <1>. QED
    BY <1>3, <1>4, <1>5 DEF Numbered

\* A push puts the task behind all earlier ones of its producer.
LEMMA PushOrder ==
  ASSUME IInv, NEW p \in Producers, Run(p), queue' = Append(queue, <<p, calls'[p]>>),
         caller' = [caller EXCEPT ![p] = "idle"], UNCHANGED taken
  PROVE  Numbered' /\ ProducersInOrder'
  <1>1. /\ calls' \in [Producers -> 0..MaxRuns] /\ calls'[p] \in 1..MaxRuns
        /\ \A q \in Producers : q # p => calls'[q] = calls[q]
        /\ \/ calls'[p] = calls[p] + 1
           \/ calls'[p] = calls[p] /\ caller[p] # "idle"
    BY RunFacts
  <1>2. calls \in [Producers -> Nat] /\ calls' \in [Producers -> Nat] /\ TypeOK
    <2>1. 0..MaxRuns \subseteq Nat /\ TypeOK /\ calls \in [Producers -> 0..MaxRuns]
      BY PoolAssumption DEF IInv, TypeOK
    <2>. QED
      BY <1>1, <2>1
  <1>3. \A q \in Producers : /\ caller'[q] = IF q = p THEN "idle" ELSE caller[q]
                             /\ calls'[q] >= calls[q]
    BY <1>1, <1>2 DEF TypeOK
  <1>4. <<p, calls'[p]>> \in Tasks
    BY <1>1 DEF Tasks
  <1>5. /\ Line' \in Seq(Tasks) /\ Len(Line') = Len(Line) + 1 /\ Len(Line) \in Nat
        /\ \A i \in 1..Len(Line) : Line'[i] = Line[i]
        /\ Line'[Len(Line) + 1] = <<p, calls'[p]>>
    <2>1. Line' = Append(Line, <<p, calls'[p]>>)
      <3>1. /\ taken \in Seq(Tasks) /\ queue \in Seq(Tasks)
            /\ <<<<p, calls'[p]>>>> \in Seq(Tasks)
        BY <1>2, <1>4 DEF TypeOK
      <3>2. queue' = queue \o <<<<p, calls'[p]>>>>
        BY <1>4, <3>1, AppendIsConcat
      <3>3. Append(Line, <<p, calls'[p]>>) = Line \o <<<<p, calls'[p]>>>>
        BY <1>2, <1>4, LineFacts, AppendIsConcat
      <3>. QED
        BY <3>1, <3>2, <3>3, ConcatAssociative DEF Line
    <2>. QED
      BY <1>2, <1>4, <2>1, LineFacts, AppendProperties
  <1>6. \A i \in 1..Len(Line) : /\ Line[i][1] \in Producers /\ Line[i][2] \in Nat
                                /\ Line[i][2] <= calls[Line[i][1]]
                                /\ caller[Line[i][1]] # "idle" => Line[i][2] < calls[Line[i][1]]
    BY <1>2, LineFacts DEF IInv, Numbered
  <1>7. \A i \in 1..Len(Line) : Line[i][1] = p => Line[i][2] < calls'[p]
    BY <1>1, <1>2, <1>6
  <1>8. <<p, calls'[p]>>[1] = p /\ <<p, calls'[p]>>[2] = calls'[p]
    OBVIOUS
  <1>9. Numbered'
    <2>1. \A q \in Producers : caller'[q] # "idle" => calls'[q] > 0
      BY <1>2, <1>3 DEF IInv, Numbered
    <2>2. ASSUME NEW i \in 1..Len(Line')
          PROVE  /\ Line'[i][2] <= calls'[Line'[i][1]]
                 /\ caller'[Line'[i][1]] # "idle" => Line'[i][2] < calls'[Line'[i][1]]
      <3>1. CASE i = Len(Line) + 1
        BY <1>2, <1>3, <1>5, <1>8, <3>1
      <3>2. CASE i \in 1..Len(Line)
        BY <1>2, <1>3, <1>5, <1>6, <3>2
      <3>. QED
        BY <1>5, <3>1, <3>2
    <2>. QED
      BY <2>1, <2>2 DEF Numbered
  <1>10. ProducersInOrder'
    <2>. SUFFICES ASSUME NEW i \in 1..Len(Line'), NEW j \in 1..Len(Line'),
                         i < j, Line'[i][1] = Line'[j][1]
                  PROVE  Line'[i][2] < Line'[j][2]
      BY DEF ProducersInOrder
    <2>0. Len(Line) \in Nat /\ Len(Line') = Len(Line) + 1
      BY <1>5
    <2>1. i \in 1..Len(Line) /\ (j \in 1..Len(Line) \/ j = Len(Line) + 1)
      BY <2>0
    <2>2. CASE j \in 1..Len(Line)
      BY <1>5, <2>1, <2>2 DEF IInv, ProducersInOrder
    <2>3. CASE j = Len(Line) + 1
      BY <1>5, <1>7, <1>8, <2>1, <2>3
    <2>. QED
      BY <2>1, <2>2, <2>3
  <1>. QED
    BY <1>9, <1>10

LEMMA RunOrder ==
  ASSUME IInv, NEW p \in Producers, Run(p)
  PROVE  Numbered' /\ ProducersInOrder'
  <1>1. CASE UNCHANGED queue
    <2>1. UNCHANGED taken /\ Line' = Line /\ caller' \in [Producers -> {"idle", "wait", "woken"}]
      BY <1>1, RunFacts DEF RunLocked, Line, IInv, TypeOK
    <2>2. \A q \in Producers : q # p => caller'[q] = caller[q]
      BY RunFacts DEF RunLocked, IInv, TypeOK
    <2>3. calls \in [Producers -> Nat] /\ Len(Line) \in Nat
      BY LineFacts, PoolAssumption DEF IInv, TypeOK
    <2>4. \A q \in Producers : /\ calls'[q] >= calls[q]
                               /\ caller'[q] # "idle" => caller[q] # "idle" \/ calls'[q] > calls[q]
      BY <2>2, <2>3, RunFacts
    <2>. QED
      BY <2>1, <2>3, <2>4, OrderKept, RunFacts
  <1>2. CASE ~UNCHANGED queue
    BY <1>2, PushOrder, RunFacts DEF RunLocked
  <1>. QED
    BY <1>1, <1>2

LEMMA TakeOrder ==
  ASSUME IInv, NEW w \in Workers, Take(w), UNCHANGED calls
  PROVE  Numbered' /\ ProducersInOrder'
  <1>1. taken \in Seq(Tasks) /\ queue \in Seq(Tasks) /\ queue # <<>>
    BY DEF IInv, TypeOK, Take
  <1>2. Head(queue) \in Tasks /\ Tail(queue) \in Seq(Tasks) /\ <<Head(queue)>> \in Seq(Tasks)
    BY <1>1, TailFacts
  <1>3. Line' = Line
    <2>1. taken' = taken \o <<Head(queue)>>
      BY <1>1, <1>2, AppendIsConcat DEF Take
    <2>2. queue = <<Head(queue)>> \o Tail(queue)
      BY <1>1, <1>2, HeadTailConcat
    <2>3. (taken \o <<Head(queue)>>) \o Tail(queue) = taken \o (<<Head(queue)>> \o Tail(queue))
      BY <1>1, <1>2, ConcatAssociative
    <2>4. queue' = Tail(queue)
      BY DEF Take
    <2>. QED
      BY <2>1, <2>2, <2>3, <2>4 DEF Line
  <1>4. \A p \in Producers : calls'[p] >= calls[p] /\ (caller'[p] # "idle" => caller[p] # "idle")
    BY PoolAssumption DEF IInv, TypeOK, Take, Woken
  <1>. QED
    BY <1>3, <1>4, LineFacts, OrderKept DEF IInv, TypeOK

\* Every other step leaves the line alone, but stop, which may cut its queued tail.
LEMMA OtherOrder ==
  ASSUME IInv, UNCHANGED <<taken, calls>>, UNCHANGED queue \/ queue' = <<>>,
         \A p \in Producers : caller'[p] # "idle" => caller[p] # "idle"
  PROVE  Numbered' /\ ProducersInOrder'
  <1>1. taken \in Seq(Tasks) /\ queue \in Seq(Tasks) /\ Len(Line) \in Nat
        /\ calls \in [Producers -> Nat] /\ calls' \in [Producers -> 0..MaxRuns]
    BY LineFacts, PoolAssumption DEF IInv, TypeOK
  <1>2. Len(Line') \in 0..Len(Line) /\ \A i \in 1..Len(Line') : Line'[i] = Line[i]
    <2>1. CASE UNCHANGED queue
      BY <1>1, <2>1 DEF Line
    <2>2. CASE queue' = <<>>
      <3>1. Line' = taken
        BY <1>1, <2>2, ConcatEmptySeq DEF Line
      <3>. QED
        BY <1>1, <3>1, ConcatProperties, LenProperties DEF Line
    <2>. QED
      BY <2>1, <2>2
  <1>. QED
    BY <1>1, <1>2, OrderKept

-----------------------------------------------------------------------------
(* Every step *)

LEMMA NextInv == IInv /\ [Next]_vars => IInv'
  <1>. SUFFICES ASSUME IInv, [Next]_vars PROVE IInv'
    OBVIOUS
  <1>1. Shape
    BY DEF IInv, Shape
  <1>2. CASE Start \/ Stop
    <2>1. Shape'
      BY <1>1, <1>2, StartShape, StopShape
    <2>2. /\ UNCHANGED <<taken, calls, caller>>
          /\ UNCHANGED queue \/ queue' = <<>>
      BY <1>2 DEF Start, StartBegin, StartThread, StartEnd, Stop, StopBegin, StopJoin, StopEnd
    <2>. QED
      BY <2>1, <2>2, OtherOrder DEF IInv, Shape
  <1>3. ASSUME NEW p \in Producers, Run(p) PROVE IInv'
    BY <1>1, <1>3, RunFacts, RunLockedShape, RunOrder DEF IInv, Shape
  <1>4. ASSUME NEW w \in Workers, threadFunc(w) PROVE IInv'
    <2>1. Shape'
      BY <1>1, <1>4, ThreadFuncShape
    <2>2. CASE Take(w) /\ UNCHANGED calls
      BY <2>1, <2>2, TakeOrder DEF IInv, Shape
    <2>3. CASE UNCHANGED <<taken, calls, caller, queue>>
      BY <2>1, <2>3, OtherOrder DEF IInv, Shape
    <2>. QED
      BY <1>4, <2>2, <2>3 DEF threadFunc, Test, Locked, Resumed, Begin, Finish
  <1>5. CASE SpuriousWakeup
    <2>1. Shape'
      BY <1>1, <1>5, SpuriousShape
    <2>2. /\ UNCHANGED <<taken, calls, queue>>
          /\ \A p \in Producers : caller'[p] # "idle" => caller[p] # "idle"
      BY <1>5 DEF SpuriousWakeup, IInv, TypeOK
    <2>. QED
      BY <2>1, <2>2, OtherOrder DEF IInv, Shape
  <1>6. CASE UNCHANGED vars
    <2>1. Shape'
      BY <1>1, <1>6 DEF vars, Shape, TypeOK, Phases, QueueBound
    <2>. QED
      BY <1>6, <2>1, OtherOrder DEF vars, IInv, Shape
  <1>. QED
    BY <1>2, <1>3, <1>4, <1>5, <1>6 DEF Next

\* The phases of the pool, the bound of its queue and the order of its tasks, forever.
THEOREM InvariantHolds == Spec => []IInv
  BY InitInv, NextInv, PTL DEF Spec

\* A caller of run never makes the queue longer than maxSize_.
THEOREM QueueIsBounded == Spec => []QueueBound
  BY InvariantHolds, PTL DEF IInv

\* The tasks of a producer are taken at most once each and in the order of its calls.
THEOREM TasksInOrder == Spec => []ProducersInOrder
  BY InvariantHolds, PTL DEF IInv

\* When stop has returned nobody is left in the pool.
THEOREM StopLeavesNothing == Spec => []StopIsComplete
  <1>1. IInv => StopIsComplete
    BY DEF IInv, Phases, StopIsComplete
  <1>. QED
    BY <1>1, InvariantHolds, PTL

\* stop keeps the mutex, so that no worker takes a task behind it, and joins those that had one.
THEOREM NoneBeginsBehindStop == Spec => TasksEndWithStop
  <1>1. ASSUME IInv, Next, taken' # taken PROVE running
    <2>1. PICK w \in Workers : (Locked(w) \/ Resumed(w)) /\ Take(w)
      BY <1>1 DEF Next, Start, StartBegin, StartThread, StartEnd, Stop, StopBegin, StopJoin, StopEnd,
             Run, RunCall, RunWoken, RunLocked, threadFunc, Test, Locked, Resumed, Begin, Finish,
             SpuriousWakeup
    <2>2. worker[w] \in {"lock", "woken"} /\ main # "joining"
      BY <2>1 DEF Locked, Resumed, MutexFree
    <2>. QED
      BY <1>1, <2>2 DEF IInv, TypeOK, Phases
  <1>2. ASSUME IInv, Next, NEW w \in Workers, Begins(w) PROVE running \/ (main = "joining" /\ next <= w)
    <2>1. UNCHANGED worker \/ worker' = Woken(worker) => worker'[w] = worker[w] \/ worker'[w] = "woken"
      BY <1>2, WokenFacts DEF IInv, TypeOK, Woken
    <2>2. CASE \E v \in Workers : threadFunc(v)
      <3>1. PICK v \in Workers : threadFunc(v)
        BY <2>2
      <3>2. v = w /\ worker[w] = "took"
        BY <1>2, <3>1 DEF threadFunc, Test, Locked, Resumed, Take, Begin, Finish, Begins, IInv, TypeOK
      <3>3. w \in Nat /\ next \in Nat
        BY <1>2, PoolAssumption DEF IInv, TypeOK, Workers
      <3>4. main \in {"started", "joining"}
        BY <1>2, <3>2 DEF IInv, TypeOK, Phases
      <3>5. main = "joining" => ~(w < next)
        BY <1>2, <3>2 DEF IInv, Phases
      <3>. QED
        BY <1>2, <3>3, <3>4, <3>5 DEF IInv, Phases
    <2>3. CASE ~\E v \in Workers : threadFunc(v)
      <3>1. worker'[w] # "run"
        BY <1>2, <2>1, <2>3 DEF Begins, Next, Start, StartBegin, StartThread, StartEnd, Stop, StopBegin,
               StopJoin, StopEnd, Run, RunCall, RunWoken, RunLocked, SpuriousWakeup, IInv, TypeOK
      <3>. QED
        BY <1>2, <3>1 DEF Begins
    <2>. QED
      BY <2>2, <2>3
  <1>3. IInv /\ [Next]_vars =>
            [/\ taken' # taken => running
             /\ \A w \in Workers : Begins(w) => running \/ (main = "joining" /\ next <= w)]_vars
    BY <1>1, <1>2
  <1>. QED
    BY <1>3, InvariantHolds, PTL DEF Spec, TasksEndWithStop
=============================================================================
