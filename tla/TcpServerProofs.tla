-------------------------- MODULE TcpServerProofs --------------------------
(***************************************************************************)
(* Proofs about TcpServer, for any pool, any threads that ask and any      *)
(* number of clients.                                                      *)
(***************************************************************************)
EXTENDS TcpServer, SequenceTheorems, FunctionTheorems, FiniteSetTheorems, TLAPS

-----------------------------------------------------------------------------
(* Sequences *)

\* What Append yields.
LEMMA AppendFacts ==
  ASSUME NEW S, NEW s \in Seq(S), NEW e \in S
  PROVE  Append(s, e) \in Seq(S) /\ Len(Append(s, e)) = Len(s) + 1
  BY AppendProperties

\* What Head and Tail of a sequence that is not empty yield.
LEMMA TailFacts ==
  ASSUME NEW S, NEW s \in Seq(S), s # <<>>
  PROVE  Head(s) \in S /\ Tail(s) \in Seq(S) /\ Len(Tail(s)) = Len(s) - 1 /\ Len(s) \in Nat
  BY HeadTailProperties, LenProperties

-----------------------------------------------------------------------------
(* Loops and messages *)

LEMMA ModFact ==
  ASSUME NEW a \in Nat, NEW n \in Nat \ {0}
  PROVE  (a % n) + 1 \in 1..n
  BY SMT

LEMMA ServerFacts ==
  ASSUME TypeOK
  PROVE  /\ threadNum \in Nat
         /\ Servers \subseteq Loops /\ Main \in Loops
         /\ \A l \in Servers : l \in Nat
         /\ threadNum = 0 => Servers = {Main}
         /\ threadNum # 0 => Servers = 1..threadNum /\ Main \notin Servers
  <1>1. threadNum \in Nat /\ threadNum \in PoolSizes
    BY ServerAssumption DEF TypeOK
  <1>2. 1..threadNum \subseteq Loops /\ Main \in Loops
    BY <1>1 DEF Loops
  <1>. QED
    BY <1>1, <1>2 DEF Servers, Main

LEMMA LoopOfFacts ==
  ASSUME TypeOK, NEW id \in Ids
  PROVE  LoopOf(id) \in Servers /\ id \in Nat
  <1>1. threadNum \in Nat /\ id \in Nat
    BY ServerFacts, ServerAssumption DEF Ids
  <1>2. CASE threadNum = 0
    BY <1>1, <1>2 DEF LoopOf, Servers
  <1>3. CASE threadNum # 0
    <2>1. (id % threadNum) + 1 \in 1..threadNum
      BY <1>1, <1>3, ModFact
    <2>. QED
      BY <1>1, <1>3, <2>1 DEF LoopOf, Servers
  <1>. QED
    BY <1>2, <1>3

LEMMA MessageFacts ==
  /\ \A id \in Ids : [kind |-> "conn", id |-> id] \in Messages
  /\ \A u \in Users : [kind |-> "get", user |-> u] \in Messages
  /\ [kind |-> "stop"] \in Messages
  /\ \A m \in Messages : m.kind = "conn" => m.id \in Ids /\ m = [kind |-> "conn", id |-> m.id]
  /\ \A m \in Messages : m.kind = "get" => m.user \in Users
  BY DEF Messages

\* What one more message does to the queues.
LEMMA PostFacts ==
  ASSUME TypeOK, NEW l \in Loops, NEW m \in Messages, Post(l, m)
  PROVE  /\ async' \in [Loops -> Seq(Messages)]
         /\ Len(async[l]) \in Nat /\ Len(async'[l]) = Len(async[l]) + 1
         /\ async'[l][Len(async[l]) + 1] = m
         /\ \A i \in 1..Len(async[l]) : async'[l][i] = async[l][i]
         /\ \A k \in Loops : k # l => async'[k] = async[k]
  <1>1. async[l] \in Seq(Messages)
    BY DEF TypeOK
  <1>2. Append(async[l], m) \in Seq(Messages)
    BY <1>1, AppendFacts
  <1>3. async' = [async EXCEPT ![l] = Append(async[l], m)]
    BY DEF Post
  <1>4. /\ async' \in [Loops -> Seq(Messages)] /\ async'[l] = Append(async[l], m)
        /\ \A k \in Loops : k # l => async'[k] = async[k]
    BY <1>2, <1>3 DEF TypeOK
  <1>. QED
    BY <1>1, <1>4, AppendProperties, LenProperties

\* And what one less does.
LEMMA TakeFacts ==
  ASSUME TypeOK, NEW l \in Loops, NEW kind, Take(l, kind)
  PROVE  /\ async' \in [Loops -> Seq(Messages)]
         /\ Len(async[l]) \in Nat /\ 1 \in 1..Len(async[l]) /\ Len(async'[l]) = Len(async[l]) - 1
         /\ Head(async[l]) = async[l][1] /\ async[l][1] \in Messages /\ async[l][1].kind = kind
         /\ \A i \in 1..Len(async'[l]) : i + 1 \in 1..Len(async[l]) /\ async'[l][i] = async[l][i + 1]
         /\ \A k \in Loops : k # l => async'[k] = async[k]
  <1>1. async[l] \in Seq(Messages) /\ async[l] # <<>>
    BY DEF TypeOK, Take
  <1>2. /\ Tail(async[l]) \in Seq(Messages) /\ Len(Tail(async[l])) = Len(async[l]) - 1
        /\ Len(async[l]) \in Nat /\ Len(async[l]) # 0
        /\ Head(async[l]) \in Messages
    BY <1>1, TailFacts, LenProperties
  <1>3. /\ Head(async[l]) = async[l][1]
        /\ \A i \in 1..Len(Tail(async[l])) : Tail(async[l])[i] = async[l][i + 1]
    BY <1>1, HeadTailProperties
  <1>4. async' = [async EXCEPT ![l] = Tail(async[l])] /\ Head(async[l]).kind = kind
    BY DEF Take
  <1>5. /\ async' \in [Loops -> Seq(Messages)] /\ async'[l] = Tail(async[l])
        /\ \A k \in Loops : k # l => async'[k] = async[k]
    BY <1>2, <1>4 DEF TypeOK
  <1>. QED
    BY <1>2, <1>3, <1>4, <1>5

-----------------------------------------------------------------------------
(* The queues *)

\* What is posted is no client, and what is taken neither.
LEMMA OtherPosted ==
  ASSUME Consistent, NEW l \in Loops, NEW m \in Messages, m.kind # "conn", Post(l, m),
         UNCHANGED <<threadNum, conn>>
  PROVE  PostedIsQueued'
  <1>1. /\ Len(async[l]) \in Nat /\ Len(async'[l]) = Len(async[l]) + 1
        /\ async'[l][Len(async[l]) + 1] = m
        /\ \A i \in 1..Len(async[l]) : async'[l][i] = async[l][i]
        /\ \A k \in Loops : k # l => async'[k] = async[k]
    BY PostFacts DEF Consistent
  <1>2. \A k \in Loops : \A id \in Ids : \A i \in 1..Len(async'[k]) :
            Queued(k, i, id)' <=> i \in 1..Len(async[k]) /\ Queued(k, i, id)
    BY <1>1 DEF Queued
  <1>3. \A k \in Loops : \A i \in 1..Len(async[k]) : i \in 1..Len(async'[k])
    BY <1>1
  <1>4. \A id \in Ids : LoopOf(id)' = LoopOf(id)
    BY DEF LoopOf
  <1>. QED
    BY <1>2, <1>3, <1>4 DEF Consistent, PostedIsQueued

LEMMA OtherTaken ==
  ASSUME Consistent, NEW l \in Loops, NEW kind, kind # "conn", Take(l, kind),
         UNCHANGED <<threadNum, conn>>
  PROVE  PostedIsQueued'
  <1>1. /\ Len(async[l]) \in Nat /\ 1 \in 1..Len(async[l]) /\ Len(async'[l]) = Len(async[l]) - 1
        /\ async[l][1].kind = kind
        /\ \A i \in 1..Len(async'[l]) : i + 1 \in 1..Len(async[l]) /\ async'[l][i] = async[l][i + 1]
        /\ \A k \in Loops : k # l => async'[k] = async[k]
    BY TakeFacts DEF Consistent
  <1>2. \A k \in Loops : k # l => \A id \in Ids : \A i : Queued(k, i, id)' <=> Queued(k, i, id)
    BY <1>1 DEF Queued
  <1>3. \A id \in Ids : LoopOf(id)' = LoopOf(id)
    BY DEF LoopOf
  <1>4. \A id \in Ids : \A i \in 1..Len(async'[l]) : Queued(l, i, id)' <=> Queued(l, i + 1, id)
    BY <1>1 DEF Queued
  <1>5. \A id \in Ids : ~Queued(l, 1, id)
    BY <1>1 DEF Queued
  <1>6. \A i \in 1..Len(async[l]) : i # 1 => i - 1 \in 1..Len(async'[l]) /\ (i - 1) + 1 = i
    BY <1>1
  <1>7. ASSUME NEW id \in Ids
        PROVE  /\ conn'[id] = "posted" /\ LoopOf(id)' = l => \E i \in 1..Len(async'[l]) : Queued(l, i, id)'
               /\ \A i \in 1..Len(async'[l]) : Queued(l, i, id)' =>
                      /\ conn'[id] = "posted" /\ LoopOf(id)' = l
                      /\ \A j \in 1..Len(async'[l]) : Queued(l, j, id)' => i = j
    <2>1. ASSUME conn[id] = "posted", LoopOf(id) = l
          PROVE  \E i \in 1..Len(async'[l]) : Queued(l, i, id)'
      <3>1. PICK i \in 1..Len(async[l]) : Queued(l, i, id)
        BY <2>1 DEF Consistent, PostedIsQueued
      <3>2. i - 1 \in 1..Len(async'[l]) /\ Queued(l, i - 1, id)'
        BY <1>4, <1>5, <1>6, <3>1
      <3>. QED
        BY <3>2
    <2>2. ASSUME NEW i \in 1..Len(async'[l]), Queued(l, i, id)'
          PROVE  /\ conn[id] = "posted" /\ LoopOf(id) = l
                 /\ \A j \in 1..Len(async'[l]) : Queued(l, j, id)' => i = j
      <3>1. Queued(l, i + 1, id) /\ i + 1 \in 1..Len(async[l])
        BY <1>1, <1>4, <2>2
      <3>2. /\ conn[id] = "posted" /\ LoopOf(id) = l
            /\ \A j \in 1..Len(async[l]) : Queued(l, j, id) => i + 1 = j
        BY <3>1 DEF Consistent, PostedIsQueued
      <3>3. \A j \in 1..Len(async'[l]) : Queued(l, j, id)' => i = j
        BY <1>1, <1>4, <3>2
      <3>. QED
        BY <3>2, <3>3
    <2>. QED
      BY <1>3, <2>1, <2>2
  <1>8. ASSUME NEW k \in Loops, k # l, NEW id \in Ids
        PROVE  /\ conn'[id] = "posted" /\ LoopOf(id)' = k => \E i \in 1..Len(async'[k]) : Queued(k, i, id)'
               /\ \A i \in 1..Len(async'[k]) : Queued(k, i, id)' =>
                      /\ conn'[id] = "posted" /\ LoopOf(id)' = k
                      /\ \A j \in 1..Len(async'[k]) : Queued(k, j, id)' => i = j
    BY <1>1, <1>2, <1>3, <1>8 DEF Consistent, PostedIsQueued
  <1>. QED
    BY <1>7, <1>8 DEF PostedIsQueued

LEMMA SameQueues ==
  ASSUME Consistent, UNCHANGED <<threadNum, async>>,
         \A id \in Ids : conn'[id] = "posted" <=> conn[id] = "posted"
  PROVE  PostedIsQueued'
  <1>1. \A id \in Ids : LoopOf(id)' = LoopOf(id)
    BY DEF LoopOf
  <1>2. \A k \in Loops : \A id \in Ids : \A i \in 1..Len(async[k]) : Queued(k, i, id)' <=> Queued(k, i, id)
    BY DEF Queued
  <1>. QED
    BY <1>1, <1>2 DEF Consistent, PostedIsQueued

\* A client is posted under an id that is in no queue.
LEMMA ClientPosted ==
  ASSUME Consistent, NEW id \in Ids, conn[id] = "none", NEW l \in Loops, l = LoopOf(id),
         Post(l, [kind |-> "conn", id |-> id]),
         conn' = [conn EXCEPT ![id] = "posted"], UNCHANGED threadNum
  PROVE  PostedIsQueued'
  <1>1. [kind |-> "conn", id |-> id] \in Messages
    BY MessageFacts
  <1>2. /\ Len(async[l]) \in Nat /\ Len(async'[l]) = Len(async[l]) + 1
        /\ async'[l][Len(async[l]) + 1] = [kind |-> "conn", id |-> id]
        /\ \A i \in 1..Len(async[l]) : async'[l][i] = async[l][i]
        /\ \A k \in Loops : k # l => async'[k] = async[k]
    BY <1>1, PostFacts DEF Consistent
  <1>3. \A k \in Ids : LoopOf(k)' = LoopOf(k)
    BY DEF LoopOf
  <1>4. conn'[id] = "posted" /\ \A k \in Ids : k # id => conn'[k] = conn[k]
    BY DEF Consistent, TypeOK
  <1>5. \A k \in Loops : \A i \in 1..Len(async[k]) : ~Queued(k, i, id)
    BY DEF Consistent, PostedIsQueued
  <1>6. \A i \in 1..Len(async'[l]) : Queued(l, i, id)' <=> i = Len(async[l]) + 1
    <2>1. \A i \in 1..Len(async[l]) : async'[l][i] # [kind |-> "conn", id |-> id]
      BY <1>2, <1>5 DEF Queued
    <2>2. \A i \in 1..Len(async'[l]) : async'[l][i] = [kind |-> "conn", id |-> id] <=> i = Len(async[l]) + 1
      BY <1>2, <2>1
    <2>. QED
      BY <2>2 DEF Queued
  <1>7. \A k \in Loops : k # l => \A i \in 1..Len(async'[k]) : ~Queued(k, i, id)'
    BY <1>2, <1>5 DEF Queued
  <1>8. \A k \in Loops : \A j \in Ids : j # id => \A i \in 1..Len(async'[k]) :
            Queued(k, i, j)' <=> i \in 1..Len(async[k]) /\ Queued(k, i, j)
    BY <1>2 DEF Queued
  <1>9. \A k \in Loops : \A i \in 1..Len(async[k]) : i \in 1..Len(async'[k])
    BY <1>2
  <1>10. ASSUME NEW k \in Loops, NEW j \in Ids
         PROVE  /\ conn'[j] = "posted" /\ LoopOf(j)' = k => \E i \in 1..Len(async'[k]) : Queued(k, i, j)'
                /\ \A i \in 1..Len(async'[k]) : Queued(k, i, j)' =>
                       /\ conn'[j] = "posted" /\ LoopOf(j)' = k
                       /\ \A n \in 1..Len(async'[k]) : Queued(k, n, j)' => i = n
    <2>1. CASE j # id
      BY <1>3, <1>4, <1>8, <1>9, <2>1 DEF Consistent, PostedIsQueued
    <2>2. CASE j = id /\ k = l
      <3>1. Len(async[l]) + 1 \in 1..Len(async'[l])
        BY <1>2
      <3>. QED
        BY <1>3, <1>4, <1>6, <2>2, <3>1
    <2>3. CASE j = id /\ k # l
      BY <1>3, <1>7, <2>3
    <2>. QED
      BY <2>1, <2>2, <2>3
  <1>. QED
    BY <1>10 DEF PostedIsQueued

\* A client that was posted leaves its queue as it is set up.
LEMMA ClientTaken ==
  ASSUME Consistent, NEW l \in Loops, Take(l, "conn"), NEW id \in Ids, async[l][1].id = id,
         NEW c, c # "posted", conn' = [conn EXCEPT ![id] = c], UNCHANGED threadNum
  PROVE  PostedIsQueued' /\ conn[id] = "posted" /\ LoopOf(id) = l
  <1>1. /\ Len(async[l]) \in Nat /\ 1 \in 1..Len(async[l]) /\ Len(async'[l]) = Len(async[l]) - 1
        /\ async[l][1] \in Messages /\ async[l][1].kind = "conn"
        /\ \A i \in 1..Len(async'[l]) : i + 1 \in 1..Len(async[l]) /\ async'[l][i] = async[l][i + 1]
        /\ \A k \in Loops : k # l => async'[k] = async[k]
    BY TakeFacts DEF Consistent
  <1>2. Queued(l, 1, id)
    BY <1>1, MessageFacts DEF Queued
  <1>3. /\ conn[id] = "posted" /\ LoopOf(id) = l
        /\ \A i \in 1..Len(async[l]) : Queued(l, i, id) => i = 1
    BY <1>1, <1>2 DEF Consistent, PostedIsQueued
  <1>4. \A k \in Ids : LoopOf(k)' = LoopOf(k)
    BY DEF LoopOf
  <1>5. conn'[id] # "posted" /\ \A k \in Ids : k # id => conn'[k] = conn[k]
    BY DEF Consistent, TypeOK
  <1>6. \A j \in Ids : \A i \in 1..Len(async'[l]) : Queued(l, i, j)' <=> Queued(l, i + 1, j)
    BY <1>1 DEF Queued
  <1>7. \A k \in Loops : k # l => \A j \in Ids : \A i : Queued(k, i, j)' <=> Queued(k, i, j)
    BY <1>1 DEF Queued
  <1>8. \A i \in 1..Len(async'[l]) : ~Queued(l, i, id)'
    BY <1>1, <1>3, <1>6
  <1>9. \A k \in Loops : k # l => \A i \in 1..Len(async'[k]) : ~Queued(k, i, id)'
    BY <1>1, <1>3, <1>7 DEF Consistent, PostedIsQueued
  <1>10. \A j \in Ids : j # id => ~Queued(l, 1, j)
    BY <1>2 DEF Queued
  <1>11. \A i \in 1..Len(async[l]) : i # 1 => i - 1 \in 1..Len(async'[l]) /\ (i - 1) + 1 = i
    BY <1>1
  <1>12. ASSUME NEW j \in Ids, j # id
         PROVE  /\ conn'[j] = "posted" /\ LoopOf(j)' = l => \E i \in 1..Len(async'[l]) : Queued(l, i, j)'
                /\ \A i \in 1..Len(async'[l]) : Queued(l, i, j)' =>
                       /\ conn'[j] = "posted" /\ LoopOf(j)' = l
                       /\ \A n \in 1..Len(async'[l]) : Queued(l, n, j)' => i = n
    <2>1. ASSUME conn[j] = "posted", LoopOf(j) = l
          PROVE  \E i \in 1..Len(async'[l]) : Queued(l, i, j)'
      <3>1. PICK i \in 1..Len(async[l]) : Queued(l, i, j)
        BY <2>1 DEF Consistent, PostedIsQueued
      <3>2. i - 1 \in 1..Len(async'[l]) /\ Queued(l, i - 1, j)'
        BY <1>6, <1>10, <1>11, <1>12, <3>1
      <3>. QED
        BY <3>2
    <2>2. ASSUME NEW i \in 1..Len(async'[l]), Queued(l, i, j)'
          PROVE  /\ conn[j] = "posted" /\ LoopOf(j) = l
                 /\ \A n \in 1..Len(async'[l]) : Queued(l, n, j)' => i = n
      <3>1. Queued(l, i + 1, j) /\ i + 1 \in 1..Len(async[l])
        BY <1>1, <1>6, <2>2
      <3>2. /\ conn[j] = "posted" /\ LoopOf(j) = l
            /\ \A n \in 1..Len(async[l]) : Queued(l, n, j) => i + 1 = n
        BY <3>1 DEF Consistent, PostedIsQueued
      <3>3. \A n \in 1..Len(async'[l]) : Queued(l, n, j)' => i = n
        BY <1>1, <1>6, <3>2
      <3>. QED
        BY <3>2, <3>3
    <2>. QED
      BY <1>4, <1>5, <1>12, <2>1, <2>2
  <1>13. ASSUME NEW k \in Loops, k # l, NEW j \in Ids, j # id
         PROVE  /\ conn'[j] = "posted" /\ LoopOf(j)' = k => \E i \in 1..Len(async'[k]) : Queued(k, i, j)'
                /\ \A i \in 1..Len(async'[k]) : Queued(k, i, j)' =>
                       /\ conn'[j] = "posted" /\ LoopOf(j)' = k
                       /\ \A n \in 1..Len(async'[k]) : Queued(k, n, j)' => i = n
    BY <1>1, <1>4, <1>5, <1>7, <1>13 DEF Consistent, PostedIsQueued
  <1>14. PostedIsQueued'
    BY <1>5, <1>8, <1>9, <1>12, <1>13 DEF PostedIsQueued
  <1>. QED
    BY <1>3, <1>14

-----------------------------------------------------------------------------
(* The destructor and the queues *)

\* What EndIsClean says of a stop in a queue.
StopIsLast ==
    \A k \in Loops : \A i \in 1..Len(async[k]) :
        async[k][i].kind = "stop" => i = Len(async[k]) /\ k \in 1..at /\ (k = at => destroy = "joins")

\* A loop has no stop in its queue before the destructor has come to it.
LEMMA NoStopYet ==
  ASSUME Consistent
  PROVE  /\ \A k \in Loops : k >= at /\ destroy # "joins" =>
               \A i \in 1..Len(async[k]) : async[k][i].kind # "stop"
         /\ destroy = "no" => \A k \in Loops : \A i \in 1..Len(async[k]) : async[k][i].kind # "stop"
         /\ at \in Nat /\ Loops \subseteq Nat /\ StopIsLast
  <1>1. at \in Nat /\ Loops \subseteq Nat
    BY ServerAssumption, ServerFacts DEF Consistent, TypeOK, Loops, Main
  <1>2. StopIsLast /\ (destroy = "no" => at = 1)
    BY DEF Consistent, EndIsClean, StopIsLast
  <1>3. ASSUME NEW k \in Loops, NEW i \in 1..Len(async[k]), async[k][i].kind = "stop", destroy # "joins"
        PROVE  ~(k >= at) /\ destroy # "no"
    BY <1>1, <1>2, <1>3 DEF StopIsLast
  <1>. QED
    BY <1>1, <1>2, <1>3

\* As long as nobody destroys the server, nothing that is posted is a stop.
LEMMA EndPosted ==
  ASSUME Consistent, NEW l \in Loops, NEW m \in Messages, m.kind # "stop", Post(l, m),
         destroy = "no", UNCHANGED <<threadNum, endVars>>
  PROVE  EndIsClean'
  <1>1. /\ Len(async[l]) \in Nat /\ Len(async'[l]) = Len(async[l]) + 1
        /\ async'[l][Len(async[l]) + 1] = m
        /\ \A i \in 1..Len(async[l]) : async'[l][i] = async[l][i]
        /\ \A k \in Loops : k # l => async'[k] = async[k]
    BY PostFacts DEF Consistent
  <1>2. ended = {} /\ at = 1 /\ \A k \in Loops : \A i \in 1..Len(async[k]) : async[k][i].kind # "stop"
    BY NoStopYet DEF Consistent, EndIsClean
  <1>3. \A k \in Loops : \A i \in 1..Len(async'[k]) : async'[k][i].kind # "stop"
    BY <1>1, <1>2
  <1>. QED
    BY <1>2, <1>3 DEF EndIsClean, endVars

\* What is taken changes nothing, either.
LEMMA EndTaken ==
  ASSUME Consistent, NEW l \in Loops, NEW kind, Take(l, kind),
         UNCHANGED <<threadNum, accepting, get, endVars>>
  PROVE  EndIsClean'
  <1>1. /\ Len(async[l]) \in Nat /\ 1 \in 1..Len(async[l]) /\ Len(async'[l]) = Len(async[l]) - 1
        /\ \A i \in 1..Len(async'[l]) : i + 1 \in 1..Len(async[l]) /\ async'[l][i] = async[l][i + 1]
        /\ \A k \in Loops : k # l => async'[k] = async[k]
    BY TakeFacts DEF Consistent
  <1>2. l \notin ended /\ ended \subseteq Loops
    BY ServerFacts DEF Take, Free, Consistent, TypeOK
  <1>3. \A k \in ended : k \in entered => async'[k] = <<>>
    BY <1>1, <1>2 DEF Consistent, EndIsClean
  <1>4. StopIsLast'
    <2>1. \A i \in 1..Len(async[l]) : async[l][i].kind = "stop" =>
              i = Len(async[l]) /\ l \in 1..at /\ (l = at => destroy = "joins")
      BY NoStopYet DEF StopIsLast
    <2>2. \A i \in 1..Len(async'[l]) : async'[l][i].kind = "stop" =>
              i = Len(async'[l]) /\ l \in 1..at /\ (l = at => destroy = "joins")
      BY <1>1, <2>1
    <2>. QED
      BY <1>1, <2>2, NoStopYet DEF StopIsLast, endVars
  <1>. QED
    BY <1>3, <1>4 DEF Consistent, EndIsClean, StopIsLast, endVars

-----------------------------------------------------------------------------
(* The steps *)

\* A client is set up in the thread of its loop, and goes into that loop's map.
LEMMA SetUpFacts ==
  ASSUME Consistent, NEW l \in Loops, NEW id \in Ids, LoopOf(id) = l, conn[id] # "open",
         SetUp(l, id), UNCHANGED threadNum
  PROVE  /\ MapsAreRight'
         /\ conn' \in [Ids -> {"none", "posted", "open", "closed", "refused"}]
         /\ connectionMap' \in [Loops -> SUBSET Ids]
         /\ \E c \in {"open", "refused"} : conn' = [conn EXCEPT ![id] = c]
  <1>1. \A k \in Ids : LoopOf(k)' = LoopOf(k)
    BY DEF LoopOf
  <1>2. TypeOK /\ MapsAreRight
    BY DEF Consistent
  <1>3. CASE conn' = [conn EXCEPT ![id] = "open"] /\ connectionMap' = [connectionMap EXCEPT ![l] = @ \cup {id}]
    <2>1. /\ conn' \in [Ids -> {"none", "posted", "open", "closed", "refused"}]
          /\ connectionMap' \in [Loops -> SUBSET Ids]
          /\ conn'[id] = "open" /\ \A k \in Ids : k # id => conn'[k] = conn[k]
          /\ connectionMap'[l] = connectionMap[l] \cup {id}
          /\ \A k \in Loops : k # l => connectionMap'[k] = connectionMap[k]
      BY <1>2, <1>3 DEF TypeOK
    <2>2. MapsAreRight'
      BY <1>1, <1>2, <2>1 DEF MapsAreRight
    <2>. QED
      BY <1>3, <2>1, <2>2
  <1>4. CASE conn' = [conn EXCEPT ![id] = "refused"] /\ UNCHANGED connectionMap
    <2>1. /\ conn' \in [Ids -> {"none", "posted", "open", "closed", "refused"}]
          /\ conn'[id] = "refused" /\ \A k \in Ids : k # id => conn'[k] = conn[k]
      BY <1>2, <1>4 DEF TypeOK
    <2>2. MapsAreRight'
      BY <1>1, <1>2, <1>4, <2>1 DEF MapsAreRight
    <2>. QED
      BY <1>2, <1>4, <2>1, <2>2 DEF TypeOK
  <1>. QED
    BY <1>3, <1>4 DEF SetUp

\* The servers are the same as long as their number is.
LEMMA SameServers ==
  ASSUME UNCHANGED threadNum
  PROVE  Servers' = Servers /\ \A id \in Ids : LoopOf(id)' = LoopOf(id)
  BY DEF Servers, LoopOf

LEMMA InitHolds == Init => Consistent
  <1>. SUFFICES ASSUME Init PROVE Consistent
    OBVIOUS
  <1>1. threadNum \in Nat
    BY ServerAssumption DEF Init
  <1>2. TypeOK
    <2>1. [l \in Loops |-> <<>>] \in [Loops -> Seq(Messages)]
      BY EmptySeq
    <2>. QED
      BY <1>1, <2>1, ServerAssumption DEF Init, TypeOK
  <1>3. MapsAreRight
    BY DEF Init, MapsAreRight
  <1>4. \A l \in Loops : async[l] = <<>> /\ Len(async[l]) = 0 /\ 1..Len(async[l]) = {}
    BY EmptySeq DEF Init
  <1>5. PostedIsQueued
    BY <1>4 DEF Init, PostedIsQueued
  <1>6. IdsInOrder
    BY ServerAssumption DEF Init, IdsInOrder, Ids
  <1>7. AskedExist
    BY DEF Init, AskedExist
  <1>8. EndIsClean
    BY <1>4 DEF Init, EndIsClean
  <1>. QED
    BY <1>2, <1>3, <1>5, <1>6, <1>7, <1>8 DEF Consistent

LEMMA AcceptHolds ==
  ASSUME Consistent, Accept
  PROVE  Consistent'
  <1>. DEFINE id == connectionId
  <1>1. /\ TypeOK /\ id \in Ids /\ conn[id] = "none" /\ threadNum \in Nat
        /\ connectionId \in Nat /\ accepting # 0 /\ connectionId < MaxConns
        /\ connectionId' = connectionId + 1
        /\ UNCHANGED <<threadNum, getVars, endVars>>
    <2>1. /\ accepting # 0 /\ connectionId < MaxConns /\ connectionId' = connectionId + 1
          /\ UNCHANGED <<threadNum, getVars, endVars>>
      BY DEF Accept
    <2>2. TypeOK /\ threadNum \in Nat /\ connectionId \in Nat /\ MaxConns \in Nat
      BY ServerAssumption, ServerFacts DEF Consistent, TypeOK
    <2>3. id \in Ids
      BY <2>1, <2>2 DEF Ids
    <2>4. conn[id] = "none"
      BY <2>2, <2>3 DEF Consistent, IdsInOrder
    <2>. QED
      BY <2>1, <2>2, <2>3, <2>4
  <1>2. destroy = "no"
    BY <1>1 DEF Consistent, EndIsClean
  <1>3. accepting' \in 0..AcceptMax
    <2>1. accepting \in Nat /\ AcceptMax \in Nat
      BY <1>1, ServerAssumption DEF TypeOK
    <2>. QED
      BY <2>1 DEF Accept, NextAccept
  <1>4. connectionId' \in 0..MaxConns
    BY <1>1, ServerAssumption
  <1>5. Servers' = Servers /\ \A k \in Ids : LoopOf(k)' = LoopOf(k)
    BY <1>1, SameServers
  <1>6. AskedExist'
    BY <1>1, <1>5 DEF Consistent, AskedExist, getVars
  <1>7. LoopOf(id) \in Loops
    BY <1>1, LoopOfFacts, ServerFacts
  <1>8. CASE threadNum = 0 /\ SetUp(Main, connectionId) /\ UNCHANGED async
    <2>1. LoopOf(id) = Main
      BY <1>8 DEF LoopOf
    <2>2. /\ MapsAreRight'
          /\ conn' \in [Ids -> {"none", "posted", "open", "closed", "refused"}]
          /\ connectionMap' \in [Loops -> SUBSET Ids]
          /\ \E c \in {"open", "refused"} : conn' = [conn EXCEPT ![id] = c]
      BY <1>1, <1>7, <1>8, <2>1, SetUpFacts
    <2>3. conn'[id] \notin {"none", "posted"} /\ \A k \in Ids : k # id => conn'[k] = conn[k]
      BY <1>1, <2>2 DEF TypeOK
    <2>4. PostedIsQueued'
      BY <1>1, <1>8, <2>3, SameQueues
    <2>5. IdsInOrder'
      BY <1>1, <2>3, ServerAssumption DEF Consistent, IdsInOrder, Ids
    <2>6. EndIsClean'
      BY <1>1, <1>2, <1>8 DEF Consistent, EndIsClean, endVars, getVars
    <2>7. TypeOK'
      BY <1>1, <1>3, <1>4, <1>5, <1>8, <2>2 DEF TypeOK, getVars, endVars
    <2>. QED
      BY <1>6, <2>2, <2>4, <2>5, <2>6, <2>7 DEF Consistent
  <1>9. CASE /\ threadNum # 0
             /\ conn' = [conn EXCEPT ![connectionId] = "posted"]
             /\ Post(LoopOf(connectionId), [kind |-> "conn", id |-> connectionId])
             /\ UNCHANGED connectionMap
    <2>. DEFINE m == [kind |-> "conn", id |-> id]
    <2>1. m \in Messages /\ m.kind = "conn"
      BY <1>1, MessageFacts
    <2>2. PICK l \in Loops : l = LoopOf(id)
      BY <1>7
    <2>3. Post(l, m)
      BY <1>9, <2>2
    <2>4. async' \in [Loops -> Seq(Messages)]
      BY <1>1, <2>1, <2>3, PostFacts
    <2>5. PostedIsQueued'
      BY <1>1, <1>9, <2>2, <2>3, ClientPosted
    <2>6. EndIsClean'
      BY <1>1, <1>2, <2>1, <2>3, EndPosted
    <2>7. /\ conn' \in [Ids -> {"none", "posted", "open", "closed", "refused"}]
          /\ conn'[id] = "posted" /\ \A k \in Ids : k # id => conn'[k] = conn[k]
      BY <1>1, <1>9 DEF TypeOK
    <2>8. MapsAreRight'
      BY <1>1, <1>5, <1>9, <2>7 DEF Consistent, MapsAreRight
    <2>9. IdsInOrder'
      BY <1>1, <2>7, ServerAssumption DEF Consistent, IdsInOrder, Ids
    <2>10. TypeOK'
      BY <1>1, <1>3, <1>4, <1>5, <1>9, <2>4, <2>7 DEF TypeOK, getVars, endVars
    <2>. QED
      BY <1>6, <2>5, <2>6, <2>8, <2>9, <2>10 DEF Consistent
  <1>. QED
    BY <1>8, <1>9 DEF Accept

\* The steps of newConnectionCallback that hand out no id.
LEMMA CallbackHolds ==
  ASSUME Consistent, NewConnection \/ AcceptFails
  PROVE  Consistent'
  <1>1. /\ destroy = "no"
        /\ UNCHANGED <<threadNum, connectionId, async, conn, connectionMap, getVars, endVars>>
    BY DEF NewConnection, AcceptFails, Consistent, EndIsClean
  <1>2. accepting' \in 0..AcceptMax
    <2>1. accepting \in Nat /\ AcceptMax \in Nat \ {0}
      BY ServerAssumption DEF Consistent, TypeOK
    <2>. QED
      BY <2>1 DEF NewConnection, AcceptFails, NextAccept
  <1>3. Servers' = Servers /\ \A k \in Ids : LoopOf(k)' = LoopOf(k)
    BY <1>1, SameServers
  <1>4. TypeOK'
    BY <1>1, <1>2, <1>3 DEF Consistent, TypeOK, getVars, endVars
  <1>5. PostedIsQueued'
    BY <1>1, SameQueues
  <1>6. MapsAreRight' /\ IdsInOrder' /\ AskedExist' /\ EndIsClean'
    BY <1>1, <1>3 DEF Consistent, MapsAreRight, IdsInOrder, AskedExist, EndIsClean, getVars, endVars
  <1>. QED
    BY <1>4, <1>5, <1>6 DEF Consistent

\* What an answer puts into the queue of a call.
LEMMA AnswerFacts ==
  ASSUME Consistent, NEW l \in Servers, NEW u \in Users, Answer(l, u)
  PROVE  que' \in [Users -> SUBSET [loop : Servers, conns : SUBSET Ids]]
  <1>1. connectionMap[l] \in SUBSET Ids
    BY ServerFacts DEF Consistent, TypeOK
  <1>2. [loop |-> l, conns |-> connectionMap[l]] \in [loop : Servers, conns : SUBSET Ids]
    BY <1>1
  <1>3. que' = [que EXCEPT ![u] = que[u] \cup {[loop |-> l, conns |-> connectionMap[l]]}]
    BY DEF Answer
  <1>4. que[u] \cup {[loop |-> l, conns |-> connectionMap[l]]} \in SUBSET [loop : Servers, conns : SUBSET Ids]
    BY <1>2 DEF Consistent, TypeOK
  <1>. QED
    BY <1>3, <1>4 DEF Consistent, TypeOK

LEMMA GetHolds ==
  ASSUME Consistent, NEW u \in Users, GetAllConnection(u)
  PROVE  Consistent'
  <1>1. /\ destroy = "no" /\ calls[u] < MaxCalls /\ TypeOK /\ threadNum \in Nat
        /\ get' = [get EXCEPT ![u] = "asks"]
        /\ calls' = [calls EXCEPT ![u] = @ + 1]
        /\ next' = [next EXCEPT ![u] = IF threadNum = 0 THEN 0 ELSE 1]
        /\ UNCHANGED <<threadNum, acceptVars, async, conn, connectionMap, que, putting, endVars>>
    BY ServerFacts DEF GetAllConnection, Consistent
  <1>2. Servers' = Servers /\ \A k \in Ids : LoopOf(k)' = LoopOf(k)
    BY <1>1, SameServers
  <1>3. calls' \in [Users -> 0..MaxCalls]
    <2>1. calls[u] \in 0..MaxCalls /\ MaxCalls \in Nat
      BY <1>1, ServerAssumption DEF TypeOK
    <2>2. calls[u] + 1 \in 0..MaxCalls
      BY <1>1, <2>1
    <2>. QED
      BY <1>1, <2>2 DEF TypeOK
  <1>4. next' \in [Users -> 0..(threadNum + 1)] /\ next'[u] \in Servers
        /\ \A v \in Users : v # u => next'[v] = next[v]
    <2>1. (IF threadNum = 0 THEN 0 ELSE 1) \in 0..(threadNum + 1) \cap Servers
      BY <1>1 DEF Servers, Main
    <2>. QED
      BY <1>1, <2>1 DEF TypeOK
  <1>5. begun' \in [Users -> [open : SUBSET Ids, gone : SUBSET Ids]]
    <2>. DEFINE b == [open |-> {id \in Ids : conn[id] = "open" \/ (conn[id] = "posted" /\ u = Main)},
                      gone |-> {id \in Ids : conn[id] = "closed"}]
    <2>1. b \in [open : SUBSET Ids, gone : SUBSET Ids]
      OBVIOUS
    <2>2. begun' = [begun EXCEPT ![u] = b]
      BY DEF GetAllConnection
    <2>. HIDE DEF b
    <2>. QED
      BY <1>1, <2>1, <2>2 DEF TypeOK
  <1>6. get' \in [Users -> {"idle", "asks", "takes"}] /\ \A v \in Users : v # u => get'[v] = get[v]
    BY <1>1 DEF TypeOK
  <1>7. TypeOK'
    BY <1>1, <1>2, <1>3, <1>4, <1>5, <1>6 DEF TypeOK, acceptVars, endVars
  <1>8. PostedIsQueued'
    BY <1>1, SameQueues
  <1>9. AskedExist'
    BY <1>2, <1>4, <1>6 DEF Consistent, AskedExist
  <1>10. MapsAreRight' /\ IdsInOrder' /\ EndIsClean'
    BY <1>1, <1>2 DEF Consistent, MapsAreRight, IdsInOrder, EndIsClean, acceptVars, endVars
  <1>. QED
    BY <1>7, <1>8, <1>9, <1>10 DEF Consistent

LEMMA AskHolds ==
  ASSUME Consistent, NEW u \in Users, Ask(u)
  PROVE  Consistent'
  <1>1. /\ get[u] = "asks" /\ TypeOK /\ threadNum \in Nat
        /\ next' = [next EXCEPT ![u] = next[u] + 1]
        /\ get' = [get EXCEPT ![u] = IF next[u] = threadNum THEN "takes" ELSE "asks"]
        /\ UNCHANGED <<threadNum, acceptVars, conn, connectionMap, calls, putting, begun, endVars>>
    BY ServerFacts DEF Ask, Consistent
  <1>2. Servers' = Servers /\ \A k \in Ids : LoopOf(k)' = LoopOf(k)
    BY <1>1, SameServers
  <1>3. destroy = "no"
    BY <1>1 DEF Consistent, EndIsClean
  <1>4. next[u] \in Servers /\ next[u] \in Loops /\ next[u] \in 0..threadNum
    BY <1>1, ServerFacts DEF Consistent, AskedExist, Servers, Main
  <1>5. next' \in [Users -> 0..(threadNum + 1)] /\ next'[u] = next[u] + 1
        /\ \A v \in Users : v # u => next'[v] = next[v]
    <2>1. next[u] + 1 \in 0..(threadNum + 1)
      BY <1>1, <1>4
    <2>. QED
      BY <1>1, <2>1 DEF TypeOK
  <1>6. /\ get' \in [Users -> {"idle", "asks", "takes"}]
        /\ get'[u] = "asks" => next[u] # threadNum
        /\ \A v \in Users : v # u => get'[v] = get[v]
    BY <1>1 DEF TypeOK
  <1>7. AskedExist'
    <2>1. next[u] # threadNum => next[u] + 1 \in Servers
      BY <1>1, <1>4 DEF Servers, Main
    <2>. QED
      BY <1>2, <1>5, <1>6, <2>1 DEF Consistent, AskedExist
  <1>8. MapsAreRight' /\ IdsInOrder'
    BY <1>1, <1>2 DEF Consistent, MapsAreRight, IdsInOrder, acceptVars
  <1>9. CASE next[u] = u /\ Answer(u, u) /\ UNCHANGED async
    <2>1. que' \in [Users -> SUBSET [loop : Servers, conns : SUBSET Ids]]
      BY <1>4, <1>9, AnswerFacts
    <2>2. TypeOK'
      BY <1>1, <1>2, <1>5, <1>6, <1>9, <2>1 DEF TypeOK, acceptVars, endVars
    <2>3. PostedIsQueued'
      BY <1>1, <1>9, SameQueues
    <2>4. EndIsClean'
      BY <1>1, <1>3, <1>9 DEF Consistent, EndIsClean, endVars
    <2>. QED
      BY <1>7, <1>8, <2>2, <2>3, <2>4 DEF Consistent
  <1>10. CASE Post(next[u], [kind |-> "get", user |-> u]) /\ UNCHANGED que
    <2>. DEFINE m == [kind |-> "get", user |-> u]
    <2>1. m \in Messages /\ m.kind = "get"
      BY MessageFacts
    <2>2. Post(next[u], m)
      BY <1>10
    <2>. HIDE DEF m
    <2>3. async' \in [Loops -> Seq(Messages)]
      BY <1>1, <1>4, <2>1, <2>2, PostFacts
    <2>4. PostedIsQueued'
      BY <1>1, <1>4, <2>1, <2>2, OtherPosted
    <2>5. EndIsClean'
      BY <1>1, <1>3, <1>4, <2>1, <2>2, EndPosted
    <2>6. TypeOK'
      BY <1>1, <1>2, <1>5, <1>6, <1>10, <2>3 DEF TypeOK, acceptVars, endVars
    <2>. QED
      BY <1>7, <1>8, <2>4, <2>5, <2>6 DEF Consistent
  <1>. QED
    BY <1>9, <1>10 DEF Ask

LEMMA ReturnHolds ==
  ASSUME Consistent, NEW u \in Users, Return(u)
  PROVE  Consistent'
  <1>1. /\ get[u] = "takes" /\ TypeOK /\ threadNum \in Nat
        /\ get' = [get EXCEPT ![u] = "idle"]
        /\ next' = [next EXCEPT ![u] = 0]
        /\ que' = [que EXCEPT ![u] = {}]
        /\ begun' = [begun EXCEPT ![u] = [open |-> {}, gone |-> {}]]
        /\ UNCHANGED <<threadNum, acceptVars, async, conn, connectionMap, calls, putting, endVars>>
    BY ServerFacts DEF Return, Consistent
  <1>2. Servers' = Servers /\ \A k \in Ids : LoopOf(k)' = LoopOf(k)
    BY <1>1, SameServers
  <1>3. TypeOK'
    BY <1>1, <1>2 DEF TypeOK, acceptVars, endVars
  <1>4. PostedIsQueued'
    BY <1>1, SameQueues
  <1>5. AskedExist'
    BY <1>1, <1>2 DEF Consistent, AskedExist, TypeOK
  <1>6. MapsAreRight' /\ IdsInOrder' /\ EndIsClean'
    BY <1>1, <1>2 DEF Consistent, MapsAreRight, IdsInOrder, EndIsClean, TypeOK, acceptVars, endVars
  <1>. QED
    BY <1>3, <1>4, <1>5, <1>6 DEF Consistent

LEMMA RunConnHolds ==
  ASSUME Consistent, NEW l \in Servers, RunConn(l)
  PROVE  Consistent'
  <1>1. /\ TypeOK /\ l \in Loops /\ Take(l, "conn") /\ SetUp(l, Head(async[l]).id)
        /\ UNCHANGED <<threadNum, acceptVars, getVars, endVars>>
    BY ServerFacts DEF RunConn, Consistent
  <1>2. /\ async' \in [Loops -> Seq(Messages)]
        /\ Len(async[l]) \in Nat /\ 1 \in 1..Len(async[l])
        /\ Head(async[l]) = async[l][1] /\ async[l][1] \in Messages /\ async[l][1].kind = "conn"
    BY <1>1, TakeFacts
  <1>3. PICK id \in Ids : async[l][1].id = id /\ async[l][1] = [kind |-> "conn", id |-> id]
    BY <1>2, MessageFacts
  <1>4. conn[id] = "posted" /\ LoopOf(id) = l
    BY <1>1, <1>2, <1>3 DEF Consistent, PostedIsQueued, Queued
  <1>5. SetUp(l, id)
    BY <1>1, <1>2, <1>3
  <1>6. /\ MapsAreRight'
        /\ conn' \in [Ids -> {"none", "posted", "open", "closed", "refused"}]
        /\ connectionMap' \in [Loops -> SUBSET Ids]
        /\ \E c \in {"open", "refused"} : conn' = [conn EXCEPT ![id] = c]
    BY <1>1, <1>4, <1>5, SetUpFacts
  <1>7. PostedIsQueued'
    <2>1. PICK c \in {"open", "refused"} : conn' = [conn EXCEPT ![id] = c]
      BY <1>6
    <2>2. c # "posted"
      BY <2>1
    <2>3. async[l][1].id = id /\ UNCHANGED threadNum /\ Take(l, "conn") /\ l \in Loops
      BY <1>1, <1>3
    <2>. QED
      BY <2>1, <2>2, <2>3, ClientTaken
  <1>8. Servers' = Servers /\ \A k \in Ids : LoopOf(k)' = LoopOf(k)
    BY <1>1, SameServers
  <1>9. conn'[id] \notin {"none", "posted"} /\ \A k \in Ids : k # id => conn'[k] = conn[k]
    BY <1>1, <1>6 DEF TypeOK
  <1>10. IdsInOrder' /\ AskedExist'
    BY <1>1, <1>4, <1>8, <1>9 DEF Consistent, IdsInOrder, AskedExist, acceptVars, getVars
  <1>11. EndIsClean'
    BY <1>1, EndTaken DEF acceptVars, getVars
  <1>12. TypeOK'
    BY <1>1, <1>2, <1>6, <1>8 DEF TypeOK, acceptVars, getVars, endVars
  <1>. QED
    BY <1>6, <1>7, <1>10, <1>11, <1>12 DEF Consistent

LEMMA RunGetHolds ==
  ASSUME Consistent, NEW l \in Servers, RunGet(l)
  PROVE  Consistent'
  <1>1. /\ TypeOK /\ l \in Loops /\ Take(l, "get") /\ Answer(l, Head(async[l]).user)
        /\ putting' = [putting EXCEPT ![l] = TRUE]
        /\ UNCHANGED <<threadNum, acceptVars, conn, connectionMap, get, calls, next, begun, endVars>>
    BY ServerFacts DEF RunGet, Consistent
  <1>2. /\ async' \in [Loops -> Seq(Messages)]
        /\ Head(async[l]) = async[l][1] /\ async[l][1] \in Messages /\ async[l][1].kind = "get"
    BY <1>1, TakeFacts
  <1>3. que' \in [Users -> SUBSET [loop : Servers, conns : SUBSET Ids]]
    BY <1>1, <1>2, MessageFacts, AnswerFacts
  <1>4. PostedIsQueued'
    BY <1>1, OtherTaken
  <1>5. EndIsClean'
    BY <1>1, EndTaken DEF acceptVars
  <1>6. Servers' = Servers /\ \A k \in Ids : LoopOf(k)' = LoopOf(k)
    BY <1>1, SameServers
  <1>7. MapsAreRight' /\ IdsInOrder' /\ AskedExist'
    BY <1>1, <1>6 DEF Consistent, MapsAreRight, IdsInOrder, AskedExist, acceptVars
  <1>8. TypeOK'
    BY <1>1, <1>2, <1>3, <1>6 DEF TypeOK, acceptVars, endVars
  <1>. QED
    BY <1>4, <1>5, <1>7, <1>8 DEF Consistent

\* A stop is the last thing its loop takes.
LEMMA RunStopHolds ==
  ASSUME Consistent, NEW l \in Servers, RunStop(l)
  PROVE  Consistent'
  <1>1. /\ TypeOK /\ l \in Loops /\ Take(l, "stop") /\ ended' = ended \cup {l}
        /\ UNCHANGED <<threadNum, acceptVars, conn, connectionMap, getVars, destroy, at, entered>>
    BY ServerFacts DEF RunStop, Consistent
  <1>2. /\ async' \in [Loops -> Seq(Messages)]
        /\ Len(async[l]) \in Nat /\ 1 \in 1..Len(async[l]) /\ Len(async'[l]) = Len(async[l]) - 1
        /\ async[l][1].kind = "stop"
        /\ \A k \in Loops : k # l => async'[k] = async[k]
    BY <1>1, TakeFacts
  <1>3. Len(async[l]) = 1 /\ destroy = "joins" /\ at = l
    <2>1. Len(async[l]) = 1 /\ l \in 1..at /\ (l = at => destroy = "joins") /\ at \in Nat
      BY <1>1, <1>2, NoStopYet DEF StopIsLast
    <2>2. l \notin ended /\ destroy # "no"
      BY <1>1, <1>2, NoStopYet DEF Take, Free
    <2>3. l \notin 1..(at - 1)
      BY <2>2 DEF Consistent, EndIsClean
    <2>. QED
      BY <2>1, <2>3
  <1>4. Len(async'[l]) = 0 /\ 1..Len(async'[l]) = {}
    BY <1>2, <1>3
  <1>5. async'[l] = <<>>
    BY <1>1, <1>2, <1>4, EmptySeq
  <1>6. Servers' = Servers /\ \A k \in Ids : LoopOf(k)' = LoopOf(k)
    BY <1>1, SameServers
  <1>7. EndIsClean'
    <2>1. \A k \in ended' : k \in entered' => async'[k] = <<>>
      BY <1>1, <1>2, <1>5, ServerFacts DEF Consistent, EndIsClean, TypeOK
    <2>2. StopIsLast'
      BY <1>1, <1>2, <1>4, NoStopYet DEF StopIsLast
    <2>3. at \in 1..(threadNum + 1) /\ threadNum \in Nat
      BY <1>1, ServerFacts DEF TypeOK
    <2>4. ended' \subseteq 1..at' /\ 1..(at' - 1) \subseteq ended' /\ at' <= threadNum'
      BY <1>1, <1>3, <2>3 DEF Consistent, EndIsClean
    <2>. QED
      BY <1>1, <1>3, <2>1, <2>2, <2>4 DEF Consistent, EndIsClean, StopIsLast, acceptVars, getVars
  <1>8. PostedIsQueued'
    BY <1>1, OtherTaken
  <1>9. MapsAreRight' /\ IdsInOrder' /\ AskedExist'
    BY <1>1, <1>6 DEF Consistent, MapsAreRight, IdsInOrder, AskedExist, acceptVars, getVars
  <1>10. TypeOK'
    BY <1>1, <1>2, <1>6 DEF TypeOK, acceptVars, getVars
  <1>. QED
    BY <1>7, <1>8, <1>9, <1>10 DEF Consistent

\* A thread that enters run(), or finds its loop stopped.
LEMMA EnterHolds ==
  ASSUME Consistent, NEW l \in Servers, Enter(l)
  PROVE  Consistent'
  <1>1. /\ TypeOK /\ threadNum \in Nat /\ at \in 1..(threadNum + 1)
        /\ l \in 1..threadNum /\ l \notin entered \cup ended
        /\ UNCHANGED <<threadNum, acceptVars, async, conn, connectionMap, getVars, destroy, at>>
        /\ \/ entered' = entered \cup {l} /\ ended' = ended
           \/ l \in Stopped /\ ended' = ended \cup {l} /\ entered' = entered
    BY ServerFacts DEF Enter, Consistent, TypeOK
  <1>2. Servers' = Servers /\ \A k \in Ids : LoopOf(k)' = LoopOf(k)
    BY <1>1, SameServers
  <1>3. \A k \in ended' : k \in entered' => async'[k] = <<>>
    BY <1>1 DEF Consistent, EndIsClean
  <1>4. StopIsLast'
    BY <1>1, NoStopYet DEF StopIsLast
  <1>5. /\ destroy' = "no" => ended' = {} /\ at' = 1
        /\ destroy' # "no" => /\ 1..(at' - 1) \subseteq ended' /\ accepting' = 0
                              /\ \A u \in Users : get'[u] = "idle"
        /\ destroy' \in {"posts", "joins"} => at' <= threadNum' /\ ended' \subseteq 1..at'
        /\ destroy' = "stops" => ended' \subseteq 1..(at' - 1)
        /\ destroy' = "posts" => at' \notin entered' \cap ended'
    <2>1. CASE ended' = ended /\ l \notin ended /\ entered' \subseteq entered \cup {l}
      BY <1>1, <2>1 DEF Consistent, EndIsClean, acceptVars, getVars
    <2>2. CASE l \in Stopped /\ ended' = ended \cup {l} /\ entered' = entered
      <3>1. /\ destroy \in {"posts", "joins"} => l \in 1..at
            /\ destroy \notin {"posts", "joins"} => l \in 1..(at - 1)
        BY <2>2 DEF Stopped
      <3>2. destroy # "no"
        BY <1>1, <3>1 DEF Consistent, EndIsClean
      <3>. QED
        BY <1>1, <2>2, <3>1, <3>2 DEF Consistent, EndIsClean, acceptVars, getVars
    <2>. QED
      BY <1>1, <2>1, <2>2
  <1>6. EndIsClean'
    BY <1>3, <1>4, <1>5 DEF EndIsClean, StopIsLast
  <1>7. PostedIsQueued'
    BY <1>1, SameQueues
  <1>8. MapsAreRight' /\ IdsInOrder' /\ AskedExist'
    BY <1>1, <1>2 DEF Consistent, MapsAreRight, IdsInOrder, AskedExist, acceptVars, getVars
  <1>9. TypeOK'
    BY <1>1, <1>2 DEF TypeOK, acceptVars, getVars
  <1>. QED
    BY <1>6, <1>7, <1>8, <1>9 DEF Consistent

LEMMA NotifyHolds ==
  ASSUME Consistent, NEW l \in Servers, Notify(l)
  PROVE  Consistent'
  <1>1. /\ TypeOK /\ l \in Loops /\ putting' = [putting EXCEPT ![l] = FALSE]
        /\ UNCHANGED <<threadNum, acceptVars, async, conn, connectionMap, get, calls, next, que, begun, endVars>>
    BY ServerFacts DEF Notify, Consistent
  <1>2. Servers' = Servers /\ \A k \in Ids : LoopOf(k)' = LoopOf(k)
    BY <1>1, SameServers
  <1>3. TypeOK'
    BY <1>1, <1>2 DEF TypeOK, acceptVars, endVars
  <1>4. PostedIsQueued'
    BY <1>1, SameQueues
  <1>5. MapsAreRight' /\ IdsInOrder' /\ AskedExist' /\ EndIsClean'
    BY <1>1, <1>2 DEF Consistent, MapsAreRight, IdsInOrder, AskedExist, EndIsClean, acceptVars, endVars
  <1>. QED
    BY <1>3, <1>4, <1>5 DEF Consistent

LEMMA RemoveHolds ==
  ASSUME Consistent, NEW l \in Servers, NEW id \in Ids, RemoveConnection(l, id)
  PROVE  Consistent'
  <1>1. /\ TypeOK /\ l \in Loops /\ id \in connectionMap[l]
        /\ conn' = [conn EXCEPT ![id] = "closed"]
        /\ connectionMap' = [connectionMap EXCEPT ![l] = connectionMap[l] \ {id}]
        /\ UNCHANGED <<threadNum, acceptVars, async, getVars, endVars>>
    BY ServerFacts DEF RemoveConnection, Consistent
  <1>2. conn[id] = "open" /\ LoopOf(id) = l
    BY <1>1 DEF Consistent, MapsAreRight
  <1>3. Servers' = Servers /\ \A k \in Ids : LoopOf(k)' = LoopOf(k)
    BY <1>1, SameServers
  <1>4. /\ conn' \in [Ids -> {"none", "posted", "open", "closed", "refused"}]
        /\ connectionMap' \in [Loops -> SUBSET Ids]
        /\ conn'[id] = "closed" /\ \A k \in Ids : k # id => conn'[k] = conn[k]
        /\ connectionMap'[l] = connectionMap[l] \ {id}
        /\ \A k \in Loops : k # l => connectionMap'[k] = connectionMap[k]
    BY <1>1 DEF TypeOK
  <1>5. MapsAreRight'
    BY <1>2, <1>3, <1>4 DEF Consistent, MapsAreRight
  <1>6. PostedIsQueued'
    BY <1>1, <1>2, <1>4, SameQueues
  <1>7. IdsInOrder' /\ AskedExist' /\ EndIsClean'
    BY <1>1, <1>2, <1>3, <1>4 DEF Consistent, IdsInOrder, AskedExist, EndIsClean, acceptVars, getVars, endVars
  <1>8. TypeOK'
    BY <1>1, <1>3, <1>4 DEF TypeOK, acceptVars, getVars, endVars
  <1>. QED
    BY <1>5, <1>6, <1>7, <1>8 DEF Consistent

\* The destructor before the pool, and as it joins a thread of it.
LEMMA DestroyHolds ==
  ASSUME Consistent, DestroyBegin \/ JoinLoop
  PROVE  Consistent'
  <1>1. /\ TypeOK /\ threadNum \in Nat /\ at \in 1..(threadNum + 1)
        /\ UNCHANGED <<threadNum, acceptVars, async, conn, connectionMap, getVars, entered, ended>>
        /\ destroy' = "stops"
    BY ServerFacts DEF DestroyBegin, JoinLoop, Consistent, TypeOK
  <1>2. Servers' = Servers /\ \A k \in Ids : LoopOf(k)' = LoopOf(k)
    BY <1>1, SameServers
  <1>3. PostedIsQueued'
    BY <1>1, SameQueues
  <1>4. MapsAreRight' /\ IdsInOrder' /\ AskedExist'
    BY <1>1, <1>2 DEF Consistent, MapsAreRight, IdsInOrder, AskedExist, acceptVars, getVars
  <1>5. /\ \A k \in ended : k \in entered => async[k] = <<>>
        /\ StopIsLast /\ Loops \subseteq Nat
    BY NoStopYet DEF Consistent, EndIsClean
  <1>6. CASE DestroyBegin
    <2>1. /\ destroy = "no" /\ accepting = 0 /\ at' = at /\ at = 1 /\ ended = {}
          /\ \A u \in Users : get[u] = "idle"
      BY <1>6 DEF DestroyBegin, Consistent, EndIsClean
    <2>2. \A k \in Loops : \A i \in 1..Len(async[k]) : async[k][i].kind # "stop"
      BY <2>1, NoStopYet
    <2>3. EndIsClean'
      BY <1>1, <2>1, <2>2 DEF EndIsClean, acceptVars, getVars
    <2>4. TypeOK'
      BY <1>1, <1>2, <2>1 DEF TypeOK, acceptVars, getVars
    <2>. QED
      BY <1>3, <1>4, <2>3, <2>4 DEF Consistent
  <1>7. CASE JoinLoop
    <2>1. destroy = "joins" /\ at \in ended /\ at' = at + 1
      BY <1>7 DEF JoinLoop
    <2>2. /\ at <= threadNum /\ ended \subseteq 1..at /\ 1..(at - 1) \subseteq ended
          /\ accepting = 0 /\ \A u \in Users : get[u] = "idle"
      BY <2>1 DEF Consistent, EndIsClean
    <2>3. at' \in 1..(threadNum + 1) /\ ended \subseteq 1..(at' - 1) /\ 1..(at' - 1) \subseteq ended
      BY <1>1, <2>1, <2>2
    <2>4. StopIsLast'
      <3>1. ASSUME NEW k \in Loops, k \in 1..at
            PROVE  k \in 1..at' /\ k # at'
        BY <1>1, <2>1, <2>2, <3>1
      <3>. QED
        BY <1>1, <1>5, <3>1 DEF StopIsLast
    <2>6. EndIsClean'
      BY <1>1, <1>5, <2>2, <2>3, <2>4 DEF EndIsClean, StopIsLast, acceptVars, getVars
    <2>7. TypeOK'
      BY <1>1, <1>2, <2>3 DEF TypeOK, acceptVars, getVars
    <2>. QED
      BY <1>3, <1>4, <2>6, <2>7 DEF Consistent
  <1>. QED
    BY <1>6, <1>7

LEMMA StopLoopHolds ==
  ASSUME Consistent, StopLoop
  PROVE  Consistent'
  <1>1. /\ TypeOK /\ threadNum \in Nat /\ at \in 1..(threadNum + 1)
        /\ destroy = "stops" /\ at <= threadNum /\ destroy' = "posts"
        /\ UNCHANGED <<threadNum, acceptVars, async, conn, connectionMap, getVars, at, entered, ended>>
    BY ServerFacts DEF StopLoop, Consistent, TypeOK
  <1>2. Servers' = Servers /\ \A k \in Ids : LoopOf(k)' = LoopOf(k)
    BY <1>1, SameServers
  <1>3. StopIsLast'
    BY <1>1, NoStopYet DEF StopIsLast
  <1>4. EndIsClean'
    BY <1>1, <1>3 DEF Consistent, EndIsClean, StopIsLast, acceptVars, getVars
  <1>5. PostedIsQueued'
    BY <1>1, SameQueues
  <1>6. MapsAreRight' /\ IdsInOrder' /\ AskedExist'
    BY <1>1, <1>2 DEF Consistent, MapsAreRight, IdsInOrder, AskedExist, acceptVars, getVars
  <1>7. TypeOK'
    BY <1>1, <1>2 DEF TypeOK, acceptVars, getVars
  <1>. QED
    BY <1>4, <1>5, <1>6, <1>7 DEF Consistent

LEMMA PostStopHolds ==
  ASSUME Consistent, PostStop
  PROVE  Consistent'
  <1>. DEFINE m == [kind |-> "stop"]
  <1>1. /\ TypeOK /\ threadNum \in Nat /\ at \in 1..(threadNum + 1)
        /\ destroy = "posts" /\ at <= threadNum /\ Post(at, m) /\ destroy' = "joins"
        /\ UNCHANGED <<threadNum, acceptVars, conn, connectionMap, getVars, at, entered, ended>>
    BY ServerFacts DEF PostStop, Consistent, TypeOK, EndIsClean
  <1>2. at \in Servers /\ at \in Loops /\ m \in Messages /\ m.kind = "stop"
    BY <1>1, ServerFacts, MessageFacts DEF Servers
  <1>. HIDE DEF m
  <1>3. /\ async' \in [Loops -> Seq(Messages)]
        /\ Len(async[at]) \in Nat /\ Len(async'[at]) = Len(async[at]) + 1
        /\ async'[at][Len(async[at]) + 1] = m
        /\ \A i \in 1..Len(async[at]) : async'[at][i] = async[at][i]
        /\ \A k \in Loops : k # at => async'[k] = async[k]
    BY <1>1, <1>2, PostFacts
  <1>4. /\ \A k \in ended : k \in entered => async[k] = <<>>
        /\ \A k \in Loops : k # at => \A i \in 1..Len(async[k]) :
               async[k][i].kind = "stop" => i = Len(async[k]) /\ k \in 1..at
        /\ \A i \in 1..Len(async[at]) : async[at][i].kind # "stop"
        /\ ended \subseteq 1..at /\ 1..(at - 1) \subseteq ended /\ accepting = 0
        /\ \A u \in Users : get[u] = "idle"
    BY <1>1, <1>2, NoStopYet DEF Consistent, EndIsClean, StopIsLast
  <1>5. at \notin entered \cap ended /\ ended \subseteq Loops
    BY <1>1, ServerFacts DEF Consistent, EndIsClean, TypeOK
  <1>6. Servers' = Servers /\ \A k \in Ids : LoopOf(k)' = LoopOf(k)
    BY <1>1, SameServers
  <1>7. EndIsClean'
    <2>1. \A k \in ended' : k \in entered' => async'[k] = <<>>
      BY <1>1, <1>3, <1>4, <1>5
    <2>2. StopIsLast'
      BY <1>1, <1>3, <1>4 DEF StopIsLast
    <2>. QED
      BY <1>1, <1>4, <2>1, <2>2 DEF EndIsClean, StopIsLast, acceptVars, getVars
  <1>8. PostedIsQueued'
    BY <1>1, <1>2, OtherPosted
  <1>9. MapsAreRight' /\ IdsInOrder' /\ AskedExist'
    BY <1>1, <1>6 DEF Consistent, MapsAreRight, IdsInOrder, AskedExist, acceptVars, getVars
  <1>10. TypeOK'
    BY <1>1, <1>3, <1>6 DEF TypeOK, acceptVars, getVars
  <1>. QED
    BY <1>7, <1>8, <1>9, <1>10 DEF Consistent

LEMMA MembersHold ==
  ASSUME Consistent, DestroyMembers
  PROVE  Consistent'
  <1>1. /\ TypeOK /\ destroy = "stops" /\ destroy' = "gone" /\ Main \in Loops
        /\ conn' = [id \in Ids |-> IF id \in connectionMap[Main] THEN "closed" ELSE conn[id]]
        /\ connectionMap' = [connectionMap EXCEPT ![Main] = {}]
        /\ UNCHANGED <<threadNum, acceptVars, async, getVars, at, entered, ended>>
    BY ServerFacts DEF DestroyMembers, Consistent
  <1>2. Servers' = Servers /\ \A k \in Ids : LoopOf(k)' = LoopOf(k)
    BY <1>1, SameServers
  <1>3. connectionMap[Main] = {id \in Ids : conn[id] = "open" /\ LoopOf(id) = Main}
    BY <1>1 DEF Consistent, MapsAreRight
  <1>4. \A id \in Ids : conn'[id] = IF conn[id] = "open" /\ LoopOf(id) = Main THEN "closed" ELSE conn[id]
    BY <1>1, <1>3
  <1>5. /\ conn' \in [Ids -> {"none", "posted", "open", "closed", "refused"}]
        /\ connectionMap' \in [Loops -> SUBSET Ids]
        /\ connectionMap'[Main] = {}
        /\ \A k \in Loops : k # Main => connectionMap'[k] = connectionMap[k]
    BY <1>1 DEF TypeOK
  <1>6. MapsAreRight'
    BY <1>2, <1>4, <1>5 DEF Consistent, MapsAreRight
  <1>7. PostedIsQueued'
    BY <1>1, <1>4, SameQueues
  <1>8. IdsInOrder' /\ AskedExist'
    BY <1>1, <1>2, <1>4 DEF Consistent, IdsInOrder, AskedExist, acceptVars, getVars
  <1>9. EndIsClean'
    <2>1. StopIsLast'
      BY <1>1, NoStopYet DEF StopIsLast
    <2>. QED
      BY <1>1, <2>1 DEF Consistent, EndIsClean, StopIsLast, acceptVars, getVars
  <1>10. TypeOK'
    BY <1>1, <1>2, <1>5 DEF TypeOK, acceptVars, getVars
  <1>. QED
    BY <1>6, <1>7, <1>8, <1>9, <1>10 DEF Consistent

LEMMA StutterHolds ==
  ASSUME Consistent, UNCHANGED vars
  PROVE  Consistent'
  <1>1. UNCHANGED <<threadNum, acceptVars, async, conn, connectionMap, getVars, endVars>>
    BY DEF vars
  <1>2. Servers' = Servers /\ \A k \in Ids : LoopOf(k)' = LoopOf(k)
    BY <1>1, SameServers
  <1>3. PostedIsQueued'
    BY <1>1, SameQueues
  <1>4. TypeOK' /\ MapsAreRight'
    BY <1>1, <1>2 DEF Consistent, TypeOK, MapsAreRight, acceptVars, getVars, endVars
  <1>5. IdsInOrder' /\ AskedExist' /\ EndIsClean'
    BY <1>1, <1>2 DEF Consistent, IdsInOrder, AskedExist, EndIsClean, acceptVars, getVars, endVars
  <1>. QED
    BY <1>3, <1>4, <1>5 DEF Consistent

LEMMA StepHolds == Consistent /\ [Next]_vars => Consistent'
  <1>. SUFFICES ASSUME Consistent, [Next]_vars PROVE Consistent'
    OBVIOUS
  <1>1. CASE NewConnection \/ AcceptFails
    BY <1>1, CallbackHolds
  <1>2. CASE Accept
    BY <1>2, AcceptHolds
  <1>3. CASE DestroyBegin \/ JoinLoop
    BY <1>3, DestroyHolds
  <1>4. CASE StopLoop \/ PostStop
    BY <1>4, StopLoopHolds, PostStopHolds
  <1>5. CASE DestroyMembers
    BY <1>5, MembersHold
  <1>6. CASE \E u \in Users : GetAllConnection(u) \/ Ask(u) \/ Return(u)
    BY <1>6, GetHolds, AskHolds, ReturnHolds
  <1>7. CASE \E l \in Servers : LoopStep(l)
    BY <1>7, EnterHolds, RunConnHolds, RunGetHolds, RunStopHolds, NotifyHolds DEF LoopStep
  <1>8. CASE \E l \in Servers : \E id \in Ids : RemoveConnection(l, id)
    BY <1>8, RemoveHolds
  <1>9. CASE UNCHANGED vars
    BY <1>9, StutterHolds
  <1>. QED
    BY <1>1, <1>2, <1>3, <1>4, <1>5, <1>6, <1>7, <1>8, <1>9 DEF Next, Destroy

-----------------------------------------------------------------------------
(* Questions and answers *)

\* The parts of AskedOnce and AnswersFit that speak of one call.
CallOnce(u) ==
    /\ get[u] = "idle" => next[u] = 0
    /\ \A a \in que[u] : a.loop < next[u] /\ \A b \in que[u] : a.loop = b.loop => a = b

QuestionOnce(u) ==
    \A l \in Loops : \A i \in 1..Len(async[l]) : Asked(l, i, u) =>
        /\ l \in Servers /\ l < next[u] /\ \A a \in que[u] : a.loop # l
        /\ \A j \in 1..Len(async[l]) : Asked(l, j, u) => i = j

BegunFits(u) ==
    /\ \A id \in begun[u].open : conn[id] # "none" /\ (conn[id] = "posted" => u = Main)
    /\ \A id \in begun[u].gone : conn[id] = "closed"

AnswerFits(u, a) ==
    /\ a.conns \cap begun[u].gone = {}
    /\ \A id \in begun[u].open : LoopOf(id) = a.loop =>
           conn[id] # "posted" /\ (conn[id] = "open" => id \in a.conns)

ClientsFirst(u) ==
    \A l \in Loops : \A i, j \in 1..Len(async[l]) : \A id \in begun[u].open :
        Queued(l, i, id) /\ Asked(l, j, u) => i < j

LEMMA CallParts ==
  /\ AskedOnce <=> \A u \in Users : CallOnce(u) /\ QuestionOnce(u)
  /\ AnswersFit <=> \A u \in Users : /\ BegunFits(u) /\ ClientsFirst(u)
                                     /\ \A a \in que[u] : AnswerFits(u, a)
  <1>1. AskedOnce <=> \A u \in Users : CallOnce(u) /\ QuestionOnce(u)
    BY DEF AskedOnce, CallOnce, QuestionOnce
  <1>2. AnswersFit <=> \A u \in Users : /\ BegunFits(u) /\ ClientsFirst(u)
                                        /\ \A a \in que[u] : AnswerFits(u, a)
    BY DEF AnswersFit, BegunFits, ClientsFirst, AnswerFits
  <1>. QED
    BY <1>1, <1>2

\* How a connection may go on: nothing that is gone comes back.
GoesOn(id) ==
    \/ conn'[id] = conn[id]
    \/ conn[id] = "none" /\ conn'[id] \in {"posted", "open", "refused"}
    \/ conn[id] = "posted" /\ conn'[id] \in {"open", "refused"}
    \/ conn[id] = "open" /\ conn'[id] = "closed"

LEMMA BegunGoesOn ==
  ASSUME Consistent, NEW u \in Users, BegunFits(u), \A id \in Ids : GoesOn(id),
         begun'[u] = begun[u]
  PROVE  BegunFits(u)'
  <1>1. begun[u].open \subseteq Ids /\ begun[u].gone \subseteq Ids
    BY DEF Consistent, TypeOK
  <1>2. \A id \in begun[u].open : conn'[id] # "none" /\ (conn'[id] = "posted" => u = Main)
    BY <1>1 DEF BegunFits, GoesOn
  <1>3. \A id \in begun[u].gone : conn'[id] = "closed"
    BY <1>1 DEF BegunFits, GoesOn
  <1>. QED
    BY <1>2, <1>3 DEF BegunFits

\* An answer stays right.
LEMMA AnswerGoesOn ==
  ASSUME Consistent, NEW u \in Users, BegunFits(u), NEW a \in que[u], AnswerFits(u, a),
         \A id \in Ids : GoesOn(id), begun'[u] = begun[u], UNCHANGED threadNum
  PROVE  AnswerFits(u, a)'
  <1>1. begun[u].open \subseteq Ids /\ \A id \in Ids : LoopOf(id)' = LoopOf(id)
    BY SameServers DEF Consistent, TypeOK
  <1>2. ASSUME NEW id \in begun[u].open, LoopOf(id) = a.loop
        PROVE  conn'[id] # "posted" /\ (conn'[id] = "open" => id \in a.conns)
    <2>1. conn[id] # "posted" /\ (conn[id] = "open" => id \in a.conns) /\ conn[id] # "none"
      BY <1>2 DEF AnswerFits, BegunFits
    <2>. QED
      BY <1>1, <2>1 DEF GoesOn
  <1>3. a.conns \cap begun'[u].gone = {}
    BY DEF AnswerFits
  <1>. QED
    BY <1>1, <1>2, <1>3 DEF AnswerFits

\* A step that sends and takes nothing, or nothing of calls.
LEMMA CallsUntouched ==
  ASSUME IInv, \A id \in Ids : GoesOn(id), UNCHANGED <<threadNum, get, next, que, begun>>,
         \A u \in Users : QuestionOnce(u)' /\ ClientsFirst(u)'
  PROVE  AskedOnce' /\ AnswersFit'
  <1>1. \A u \in Users : CallOnce(u)'
    BY CallParts DEF IInv, CallOnce
  <1>2. \A u \in Users : BegunFits(u)'
    BY CallParts, BegunGoesOn DEF IInv
  <1>3. ASSUME NEW u \in Users, NEW a \in que[u] PROVE AnswerFits(u, a)'
    <2>1. BegunFits(u) /\ AnswerFits(u, a) /\ Consistent
      BY CallParts DEF IInv
    <2>. QED
      BY <2>1, AnswerGoesOn
  <1>4. AskedOnce'
    BY <1>1 DEF AskedOnce, CallOnce, QuestionOnce
  <1>5. AnswersFit'
    BY <1>2, <1>3 DEF AnswersFit, BegunFits, ClientsFirst, AnswerFits
  <1>. QED
    BY <1>4, <1>5

\* Nothing in the queues changes.
LEMMA SameQuestions ==
  ASSUME IInv, \A id \in Ids : GoesOn(id), UNCHANGED <<threadNum, async, get, next, que, begun>>
  PROVE  AskedOnce' /\ AnswersFit'
  <1>1. Servers' = Servers
    BY SameServers
  <1>2. \A l \in Loops : \A i : \A u \in Users : Asked(l, i, u)' <=> Asked(l, i, u)
    BY DEF Asked
  <1>3. \A l \in Loops : \A i : \A id : Queued(l, i, id)' <=> Queued(l, i, id)
    BY DEF Queued
  <1>4. ASSUME NEW u \in Users PROVE QuestionOnce(u)' /\ ClientsFirst(u)'
    <2>1. QuestionOnce(u) /\ ClientsFirst(u)
      BY CallParts DEF IInv
    <2>2. QuestionOnce(u)'
      BY <1>1, <1>2, <2>1 DEF QuestionOnce
    <2>3. ClientsFirst(u)'
      BY <1>2, <1>3, <2>1 DEF ClientsFirst
    <2>. QED
      BY <2>2, <2>3
  <1>. QED
    BY <1>4, CallsUntouched

\* Something else is posted: a client that is new to the calls, or a stop.
LEMMA OtherSent ==
  ASSUME IInv, \A id \in Ids : GoesOn(id), UNCHANGED <<threadNum, get, next, que, begun>>,
         NEW l \in Loops, NEW m \in Messages, Post(l, m), m.kind # "get",
         \A id \in Ids : m = [kind |-> "conn", id |-> id] => conn[id] = "none"
  PROVE  AskedOnce' /\ AnswersFit'
  <1>1. Servers' = Servers
    BY SameServers
  <1>2. /\ Len(async[l]) \in Nat /\ Len(async'[l]) = Len(async[l]) + 1
        /\ async'[l][Len(async[l]) + 1] = m
        /\ \A i \in 1..Len(async[l]) : async'[l][i] = async[l][i]
        /\ \A k \in Loops : k # l => async'[k] = async[k]
    BY PostFacts DEF IInv, Consistent
  <1>3. \A k \in Loops : \A i \in 1..Len(async'[k]) :
            (i \in 1..Len(async[k]) /\ async'[k][i] = async[k][i]) \/ async'[k][i] = m
    <2>1. \A i \in 1..Len(async'[l]) : i \in 1..Len(async[l]) \/ i = Len(async[l]) + 1
      BY <1>2
    <2>2. \A i \in 1..Len(async'[l]) :
              (i \in 1..Len(async[l]) /\ async'[l][i] = async[l][i]) \/ async'[l][i] = m
      BY <1>2, <2>1
    <2>. QED
      BY <1>2, <2>2
  <1>4. \A k \in Loops : \A i \in 1..Len(async'[k]) : \A u \in Users :
            Asked(k, i, u)' => i \in 1..Len(async[k]) /\ Asked(k, i, u)
    BY <1>3 DEF Asked
  <1>5. \A k \in Loops : \A i \in 1..Len(async'[k]) : \A id \in Ids :
            Queued(k, i, id)' => (i \in 1..Len(async[k]) /\ Queued(k, i, id)) \/ conn[id] = "none"
    BY <1>3 DEF Queued
  <1>6. ASSUME NEW u \in Users PROVE QuestionOnce(u)' /\ ClientsFirst(u)'
    <2>1. QuestionOnce(u) /\ ClientsFirst(u) /\ BegunFits(u)
      BY CallParts DEF IInv
    <2>2. QuestionOnce(u)'
      BY <1>1, <1>4, <2>1 DEF QuestionOnce
    <2>3. \A id \in begun[u].open : id \in Ids /\ conn[id] # "none"
      BY <2>1 DEF BegunFits, IInv, Consistent, TypeOK
    <2>4. ClientsFirst(u)'
      BY <1>4, <1>5, <2>1, <2>3 DEF ClientsFirst
    <2>. QED
      BY <2>2, <2>4
  <1>. QED
    BY <1>6, CallsUntouched

\* What is taken stands before the rest.
LEMMA QuestionTaken ==
  ASSUME IInv, NEW l \in Loops, NEW kind, Take(l, kind), UNCHANGED <<threadNum, begun>>,
         NEW u \in Users
  PROVE  /\ ClientsFirst(u)'
         /\ \A k \in Loops : \A i \in 1..Len(async'[k]) : \A v \in Users : Asked(k, i, v)' =>
                \E n \in 1..Len(async[k]) : n = (IF k = l THEN i + 1 ELSE i) /\ Asked(k, n, v)
  <1>1. /\ \A i \in 1..Len(async'[l]) : i + 1 \in 1..Len(async[l]) /\ async'[l][i] = async[l][i + 1]
        /\ \A k \in Loops : k # l => async'[k] = async[k]
    BY TakeFacts DEF IInv, Consistent
  <1>2. \A k \in Loops : \A i \in 1..Len(async'[k]) : \A v \in Users : Asked(k, i, v)' =>
            \E n \in 1..Len(async[k]) : n = (IF k = l THEN i + 1 ELSE i) /\ Asked(k, n, v)
    BY <1>1 DEF Asked
  <1>3. \A k \in Loops : \A i \in 1..Len(async'[k]) : \A id : Queued(k, i, id)' =>
            \E n \in 1..Len(async[k]) : n = (IF k = l THEN i + 1 ELSE i) /\ Queued(k, n, id)
    BY <1>1 DEF Queued
  <1>4. ClientsFirst(u)
    BY CallParts DEF IInv
  <1>5. ASSUME NEW k \in Loops, NEW i \in 1..Len(async'[k]), NEW j \in 1..Len(async'[k]),
               NEW id \in begun[u].open, Queued(k, i, id)', Asked(k, j, u)'
        PROVE  i < j
    <2>1. PICK n \in 1..Len(async[k]) : n = (IF k = l THEN i + 1 ELSE i) /\ Queued(k, n, id)
      BY <1>3, <1>5
    <2>2. PICK o \in 1..Len(async[k]) : o = (IF k = l THEN j + 1 ELSE j) /\ Asked(k, o, u)
      BY <1>2, <1>5
    <2>3. n < o
      BY <1>4, <2>1, <2>2 DEF ClientsFirst
    <2>4. i \in Int /\ j \in Int
      OBVIOUS
    <2>. QED
      BY <2>1, <2>2, <2>3, <2>4
  <1>6. ClientsFirst(u)'
    BY <1>5 DEF ClientsFirst
  <1>. QED
    BY <1>2, <1>6

\* Something else is taken.
LEMMA OtherRun ==
  ASSUME IInv, NEW l \in Loops, NEW kind, Take(l, kind), kind # "get",
         \A id \in Ids : GoesOn(id), UNCHANGED <<threadNum, get, next, que, begun>>
  PROVE  AskedOnce' /\ AnswersFit'
  <1>1. Servers' = Servers
    BY SameServers
  <1>2. ASSUME NEW u \in Users PROVE QuestionOnce(u)'
    <2>1. QuestionOnce(u)
      BY CallParts DEF IInv
    <2>2. \A k \in Loops : \A i \in 1..Len(async'[k]) : Asked(k, i, u)' =>
              \E n \in 1..Len(async[k]) : n = (IF k = l THEN i + 1 ELSE i) /\ Asked(k, n, u)
      BY QuestionTaken
    <2>3. ASSUME NEW k \in Loops, NEW i \in 1..Len(async'[k]), Asked(k, i, u)'
          PROVE  /\ k \in Servers /\ k < next[u] /\ \A a \in que[u] : a.loop # k
                 /\ \A j \in 1..Len(async'[k]) : Asked(k, j, u)' => i = j
      <3>1. PICK n \in 1..Len(async[k]) : n = (IF k = l THEN i + 1 ELSE i) /\ Asked(k, n, u)
        BY <2>2, <2>3
      <3>2. /\ k \in Servers /\ k < next[u] /\ \A a \in que[u] : a.loop # k
            /\ \A j \in 1..Len(async[k]) : Asked(k, j, u) => n = j
        BY <2>1, <3>1 DEF QuestionOnce
      <3>3. ASSUME NEW j \in 1..Len(async'[k]), Asked(k, j, u)' PROVE i = j
        <4>1. PICK o \in 1..Len(async[k]) : o = (IF k = l THEN j + 1 ELSE j) /\ Asked(k, o, u)
          BY <2>2, <3>3
        <4>2. n = o
          BY <3>2, <4>1
        <4>. QED
          BY <3>1, <4>1, <4>2
      <3>. QED
        BY <3>2, <3>3
    <2>. QED
      BY <1>1, <2>3 DEF QuestionOnce
  <1>3. \A u \in Users : ClientsFirst(u)'
    BY QuestionTaken
  <1>. QED
    BY <1>2, <1>3, CallsUntouched

\* An answer has every connection of its loop that was open, or on its way there from the main
\* loop, when the call began.
LEMMA AnswerIsRight ==
  ASSUME IInv, NEW l \in Servers, NEW u \in Users,
         \A id \in begun[u].open : LoopOf(id) = l => conn[id] # "posted"
  PROVE  AnswerFits(u, [loop |-> l, conns |-> connectionMap[l]])
  <1>1. l \in Loops /\ begun[u].open \subseteq Ids /\ BegunFits(u)
    BY CallParts, ServerFacts DEF IInv, Consistent, TypeOK
  <1>2. connectionMap[l] = {id \in Ids : conn[id] = "open" /\ LoopOf(id) = l}
    BY <1>1 DEF IInv, Consistent, MapsAreRight
  <1>3. connectionMap[l] \cap begun[u].gone = {}
    BY <1>1, <1>2 DEF BegunFits
  <1>4. \A id \in begun[u].open : LoopOf(id) = l => (conn[id] = "open" => id \in connectionMap[l])
    BY <1>1, <1>2
  <1>. QED
    BY <1>3, <1>4 DEF AnswerFits

\* The queues of answers when l has answered u.
LEMMA Answered ==
  ASSUME IInv, NEW l \in Servers, NEW u \in Users, Answer(l, u)
  PROVE  /\ que'[u] = que[u] \cup {[loop |-> l, conns |-> connectionMap[l]]}
         /\ \A v \in Users : v # u => que'[v] = que[v]
  BY DEF Answer, IInv, Consistent, TypeOK

\* RunGet: the loop has every client of the call, since they came before the question.
LEMMA RunGetCalls ==
  ASSUME IInv, NEW l \in Servers, RunGet(l)
  PROVE  AskedOnce' /\ AnswersFit'
  <1>. DEFINE w == [loop |-> l, conns |-> connectionMap[l]]
  <1>1. /\ l \in Loops /\ Take(l, "get") /\ Consistent
        /\ UNCHANGED <<threadNum, conn, get, next, begun>>
    BY ServerFacts DEF RunGet, IInv, Consistent
  <1>2. PICK u \in Users : async[l][1] = [kind |-> "get", user |-> u] /\ Answer(l, u)
    <2>1. async[l][1] \in Messages /\ Head(async[l]) = async[l][1] /\ async[l][1].kind = "get"
      BY <1>1, TakeFacts DEF Consistent
    <2>2. async[l][1].user \in Users /\ async[l][1] = [kind |-> "get", user |-> async[l][1].user]
      BY <2>1 DEF Messages
    <2>. QED
      BY <2>1, <2>2 DEF RunGet
  <1>3. /\ que'[u] = que[u] \cup {w}
        /\ \A v \in Users : v # u => que'[v] = que[v]
    BY <1>2, Answered
  <1>4. 1 \in 1..Len(async[l]) /\ Asked(l, 1, u) /\ Len(async[l]) \in Nat
    BY <1>1, <1>2, TakeFacts DEF Asked, Consistent
  <1>5. /\ l < next[u] /\ \A a \in que[u] : a.loop # l
        /\ \A j \in 1..Len(async[l]) : Asked(l, j, u) => j = 1
    BY <1>1, <1>4, CallParts DEF IInv, QuestionOnce
  <1>6. \A id \in begun[u].open : LoopOf(id) = l => conn[id] # "posted"
    <2>. SUFFICES ASSUME NEW id \in begun[u].open, LoopOf(id) = l, conn[id] = "posted" PROVE FALSE
      OBVIOUS
    <2>1. id \in Ids
      BY <1>1 DEF Consistent, TypeOK
    <2>2. PICK i \in 1..Len(async[l]) : Queued(l, i, id)
      BY <1>1, <2>1 DEF Consistent, PostedIsQueued
    <2>3. i < 1
      BY <1>1, <1>4, <2>2, CallParts DEF IInv, ClientsFirst
    <2>. QED
      BY <2>3
  <1>7. AnswerFits(u, w)
    BY <1>6, AnswerIsRight
  <1>8. w.loop = l
    OBVIOUS
  <1>. HIDE DEF w
  <1>9. Servers' = Servers /\ \A id \in Ids : LoopOf(id)' = LoopOf(id)
    BY <1>1, SameServers
  <1>10. ASSUME NEW v \in Users PROVE CallOnce(v)'
    <2>1. CallOnce(v)
      BY CallParts DEF IInv
    <2>2. CASE v = u
      BY <1>1, <1>3, <1>5, <1>8, <2>1, <2>2 DEF CallOnce
    <2>3. CASE v # u
      BY <1>1, <1>3, <2>1, <2>3 DEF CallOnce
    <2>. QED
      BY <2>2, <2>3
  <1>11. ASSUME NEW v \in Users PROVE QuestionOnce(v)'
    <2>1. QuestionOnce(v)
      BY CallParts DEF IInv
    <2>2. \A k \in Loops : \A i \in 1..Len(async'[k]) : Asked(k, i, v)' =>
              \E n \in 1..Len(async[k]) : n = (IF k = l THEN i + 1 ELSE i) /\ Asked(k, n, v)
      BY <1>1, QuestionTaken
    <2>3. ASSUME NEW k \in Loops, NEW i \in 1..Len(async'[k]), Asked(k, i, v)'
          PROVE  /\ k \in Servers /\ k < next[v] /\ \A a \in que'[v] : a.loop # k
                 /\ \A j \in 1..Len(async'[k]) : Asked(k, j, v)' => i = j
      <3>1. PICK n \in 1..Len(async[k]) : n = (IF k = l THEN i + 1 ELSE i) /\ Asked(k, n, v)
        BY <2>2, <2>3
      <3>2. /\ k \in Servers /\ k < next[v] /\ \A a \in que[v] : a.loop # k
            /\ \A j \in 1..Len(async[k]) : Asked(k, j, v) => n = j
        BY <2>1, <3>1 DEF QuestionOnce
      <3>3. ~(v = u /\ k = l)
        <4>. SUFFICES ASSUME v = u, k = l PROVE FALSE
          OBVIOUS
        <4>1. n = i + 1 /\ n = 1 /\ i \in 1..Len(async'[k])
          BY <1>5, <3>1
        <4>. QED
          BY <4>1
      <3>4. \A a \in que'[v] : a.loop # k
        BY <1>3, <1>8, <3>2, <3>3
      <3>5. ASSUME NEW j \in 1..Len(async'[k]), Asked(k, j, v)' PROVE i = j
        <4>1. PICK o \in 1..Len(async[k]) : o = (IF k = l THEN j + 1 ELSE j) /\ Asked(k, o, v)
          BY <2>2, <3>5
        <4>2. n = o
          BY <3>2, <4>1
        <4>. QED
          BY <3>1, <4>1, <4>2
      <3>. QED
        BY <3>2, <3>4, <3>5
    <2>. QED
      BY <1>1, <1>9, <2>3 DEF QuestionOnce
  <1>12. \A v \in Users : ClientsFirst(v)'
    BY <1>1, QuestionTaken
  <1>13. \A v \in Users : BegunFits(v)'
    BY <1>1, CallParts DEF IInv, BegunFits
  <1>14. ASSUME NEW v \in Users, NEW a \in que'[v] PROVE AnswerFits(v, a)'
    <2>1. AnswerFits(v, a)
      BY <1>3, <1>7, CallParts DEF IInv
    <2>2. begun[v].open \subseteq Ids
      BY <1>1 DEF Consistent, TypeOK
    <2>. QED
      BY <1>1, <1>9, <2>1, <2>2 DEF AnswerFits
  <1>15. AskedOnce'
    BY <1>10, <1>11 DEF AskedOnce, CallOnce, QuestionOnce
  <1>16. AnswersFit'
    BY <1>12, <1>13, <1>14 DEF AnswersFit, BegunFits, ClientsFirst, AnswerFits
  <1>. QED
    BY <1>15, <1>16

\* A call begins with nothing asked and nothing answered.
LEMMA GetCalls ==
  ASSUME IInv, NEW u \in Users, GetAllConnection(u)
  PROVE  AskedOnce' /\ AnswersFit'
  <1>. DEFINE b == [open |-> {id \in Ids : conn[id] = "open" \/ (conn[id] = "posted" /\ u = Main)},
                    gone |-> {id \in Ids : conn[id] = "closed"}]
  <1>1. /\ Consistent /\ get[u] = "idle" /\ get' = [get EXCEPT ![u] = "asks"]
        /\ next' = [next EXCEPT ![u] = IF threadNum = 0 THEN 0 ELSE 1]
        /\ begun' = [begun EXCEPT ![u] = b]
        /\ UNCHANGED <<threadNum, async, conn, que>>
    <2>1. u \in Users => (Free(u) => get[u] = "idle")
      BY DEF Free
    <2>. QED
      BY <2>1 DEF GetAllConnection, IInv
  <1>2. /\ b.open = {id \in Ids : conn[id] = "open" \/ (conn[id] = "posted" /\ u = Main)}
        /\ b.gone = {id \in Ids : conn[id] = "closed"}
    OBVIOUS
  <1>. HIDE DEF b
  <1>3. /\ get'[u] = "asks" /\ begun'[u] = b
        /\ \A v \in Users : v # u => get'[v] = get[v] /\ next'[v] = next[v] /\ begun'[v] = begun[v]
    BY <1>1 DEF Consistent, TypeOK
  <1>4. Servers' = Servers /\ \A id \in Ids : LoopOf(id)' = LoopOf(id)
    BY <1>1, SameServers
  <1>5. next[u] = 0 /\ \A l \in Servers : l \in Nat
    BY <1>1, CallParts, ServerFacts DEF IInv, CallOnce, Consistent
  <1>6. \A a \in que[u] : a.loop \in Servers
    BY <1>1 DEF Consistent, TypeOK
  <1>7. que[u] = {}
    BY <1>5, <1>6, CallParts DEF IInv, CallOnce
  <1>8. \A l \in Loops : \A i \in 1..Len(async[l]) : ~Asked(l, i, u)
    BY <1>5, CallParts DEF IInv, QuestionOnce
  <1>9. ASSUME NEW v \in Users
        PROVE  CallOnce(v)' /\ QuestionOnce(v)' /\ BegunFits(v)' /\ ClientsFirst(v)'
    <2>1. CallOnce(v) /\ QuestionOnce(v) /\ BegunFits(v) /\ ClientsFirst(v)
      BY CallParts DEF IInv
    <2>2. \A l \in Loops : \A i : Asked(l, i, v)' <=> Asked(l, i, v)
      BY <1>1 DEF Asked
    <2>3. \A l \in Loops : \A i : \A id : Queued(l, i, id)' <=> Queued(l, i, id)
      BY <1>1 DEF Queued
    <2>4. CASE v = u
      <3>1. CallOnce(u)'
        BY <1>1, <1>3, <1>7 DEF CallOnce
      <3>2. QuestionOnce(u)' /\ ClientsFirst(u)'
        BY <1>1, <1>8, <2>2, <2>4 DEF QuestionOnce, ClientsFirst
      <3>3. BegunFits(u)'
        BY <1>1, <1>2, <1>3 DEF BegunFits
      <3>. QED
        BY <2>4, <3>1, <3>2, <3>3
    <2>5. CASE v # u
      <3>1. CallOnce(v)' /\ BegunFits(v)'
        BY <1>1, <1>3, <2>1, <2>5 DEF CallOnce, BegunFits
      <3>2. QuestionOnce(v)'
        BY <1>1, <1>3, <1>4, <2>1, <2>2, <2>5 DEF QuestionOnce
      <3>3. ClientsFirst(v)'
        BY <1>1, <1>3, <2>1, <2>2, <2>3, <2>5 DEF ClientsFirst
      <3>. QED
        BY <3>1, <3>2, <3>3
    <2>. QED
      BY <2>4, <2>5
  <1>10. ASSUME NEW v \in Users, NEW a \in que'[v] PROVE AnswerFits(v, a)'
    <2>1. v # u /\ a \in que[v]
      BY <1>1, <1>7
    <2>2. AnswerFits(v, a) /\ begun[v].open \subseteq Ids
      BY <1>1, <2>1, CallParts DEF IInv, Consistent, TypeOK
    <2>. QED
      BY <1>1, <1>3, <1>4, <2>1, <2>2 DEF AnswerFits
  <1>11. AskedOnce'
    BY <1>9 DEF AskedOnce, CallOnce, QuestionOnce
  <1>12. AnswersFit'
    BY <1>9, <1>10 DEF AnswersFit, BegunFits, ClientsFirst, AnswerFits
  <1>. QED
    BY <1>11, <1>12

\* The next loop is asked: another loop behind all that was sent to it, the own one directly.
LEMMA AskCalls ==
  ASSUME IInv, NEW u \in Users, Ask(u)
  PROVE  AskedOnce' /\ AnswersFit'
  <1>0. PICK l \in Servers : next[u] = l
    BY DEF Ask, IInv, Consistent, AskedExist
  <1>1. /\ Consistent /\ TypeOK /\ get[u] = "asks" /\ l \in Servers /\ l \in Loops /\ l \in Nat
        /\ next' = [next EXCEPT ![u] = l + 1]
        /\ get' = [get EXCEPT ![u] = IF next[u] = threadNum THEN "takes" ELSE "asks"]
        /\ UNCHANGED <<threadNum, conn, begun>>
    BY <1>0, ServerFacts DEF Ask, IInv, Consistent
  <1>2. /\ next'[u] = l + 1 /\ get'[u] # "idle"
        /\ \A v \in Users : v # u => get'[v] = get[v] /\ next'[v] = next[v]
    BY <1>1 DEF TypeOK
  <1>3. Servers' = Servers /\ \A id \in Ids : LoopOf(id)' = LoopOf(id)
    BY <1>1, SameServers
  <1>4. \A v \in Users : \A a \in que[v] : a.loop \in Servers
    BY <1>1 DEF TypeOK
  <1>5. \A k \in Servers : k \in Nat
    BY <1>1, ServerFacts
  <1>6. \A v \in Users : CallOnce(v) /\ QuestionOnce(v) /\ BegunFits(v) /\ ClientsFirst(v)
    BY CallParts DEF IInv
  <1>7. (\A a \in que[u] : a.loop # l) /\ \A i \in 1..Len(async[l]) : ~Asked(l, i, u)
    BY <1>0, <1>1, <1>5, <1>6 DEF CallOnce, QuestionOnce
  <1>8. \A v \in Users : BegunFits(v)'
    BY <1>1, <1>6 DEF BegunFits
  <1>9. next[u] = l
    BY <1>0
  <1>10. CASE next[u] = u /\ Answer(u, u) /\ UNCHANGED async
    <2>. DEFINE w == [loop |-> l, conns |-> connectionMap[l]]
    <2>1. u = l /\ Answer(l, u)
      BY <1>9, <1>10
    <2>2. /\ que'[u] = que[u] \cup {w}
          /\ \A v \in Users : v # u => que'[v] = que[v]
      BY <1>1, <2>1, Answered
    <2>3. \A id \in begun[u].open : LoopOf(id) = l => conn[id] # "posted"
      <3>. SUFFICES ASSUME NEW id \in begun[u].open, LoopOf(id) = l, conn[id] = "posted" PROVE FALSE
        OBVIOUS
      <3>1. id \in Ids /\ u = Main
        BY <1>1, <1>6 DEF BegunFits, TypeOK
      <3>2. threadNum = 0
        BY <1>1, <2>1, <3>1, ServerFacts
      <3>. QED
        BY <3>1, <3>2 DEF IInv, PoolPosts
    <2>4. AnswerFits(u, w)
      BY <1>1, <2>3, AnswerIsRight
    <2>5. w.loop = l
      OBVIOUS
    <2>. HIDE DEF w
    <2>6. \A k \in Loops : \A i : \A v \in Users : Asked(k, i, v)' <=> Asked(k, i, v)
      BY <1>10 DEF Asked
    <2>7. \A k \in Loops : \A i : \A id : Queued(k, i, id)' <=> Queued(k, i, id)
      BY <1>10 DEF Queued
    <2>8. ASSUME NEW v \in Users PROVE CallOnce(v)' /\ QuestionOnce(v)' /\ ClientsFirst(v)'
      <3>1. ClientsFirst(v)'
        BY <1>1, <1>6, <1>10, <2>6, <2>7 DEF ClientsFirst
      <3>2. CASE v = u
        <4>1. \A a \in que'[u] : a = w \/ (a \in que[u] /\ a.loop < l /\ a.loop \in Nat)
          BY <1>4, <1>5, <1>6, <1>9, <2>2 DEF CallOnce
        <4>2. \A a \in que'[u] : a.loop < l + 1
          BY <1>1, <2>5, <4>1
        <4>3. \A a, c \in que'[u] : a.loop = c.loop => a = c
          BY <1>6, <1>7, <2>5, <4>1 DEF CallOnce
        <4>4. CallOnce(u)'
          BY <1>2, <4>2, <4>3 DEF CallOnce
        <4>5. ASSUME NEW k \in Loops, NEW i \in 1..Len(async[k]), Asked(k, i, u)
              PROVE  /\ k \in Servers /\ k < l + 1 /\ \A a \in que'[u] : a.loop # k
                     /\ \A j \in 1..Len(async[k]) : Asked(k, j, u) => i = j
          <5>1. /\ k \in Servers /\ k < l /\ \A a \in que[u] : a.loop # k
                /\ \A j \in 1..Len(async[k]) : Asked(k, j, u) => i = j
            BY <1>6, <1>9, <4>5 DEF QuestionOnce
          <5>2. k # l
            BY <1>7, <4>5
          <5>3. k < l + 1
            BY <1>1, <1>5, <5>1
          <5>. QED
            BY <2>2, <2>5, <5>1, <5>2, <5>3
        <4>6. QuestionOnce(u)'
          <5>1. ASSUME NEW k \in Loops, NEW i \in 1..Len(async'[k]), Asked(k, i, u)'
                PROVE  /\ k \in Servers' /\ k < next'[u] /\ \A a \in que'[u] : a.loop # k
                       /\ \A j \in 1..Len(async'[k]) : Asked(k, j, u)' => i = j
            <6>1. async'[k] = async[k] /\ i \in 1..Len(async[k]) /\ Asked(k, i, u)
              BY <1>10, <2>6, <5>1
            <6>2. /\ k \in Servers /\ k < l + 1 /\ \A a \in que'[u] : a.loop # k
                  /\ \A j \in 1..Len(async[k]) : Asked(k, j, u) => i = j
              BY <4>5, <6>1
            <6>3. \A j \in 1..Len(async'[k]) : Asked(k, j, u)' => i = j
              BY <2>6, <6>1, <6>2
            <6>. QED
              BY <1>2, <1>3, <6>2, <6>3
          <5>. QED
            BY <5>1 DEF QuestionOnce
        <4>. QED
          BY <3>1, <3>2, <4>4, <4>6
      <3>3. CASE v # u
        <4>1. CallOnce(v)'
          BY <1>2, <1>6, <2>2, <3>3 DEF CallOnce
        <4>2. QuestionOnce(v)'
          <5>1. ASSUME NEW k \in Loops, NEW i \in 1..Len(async'[k]), Asked(k, i, v)'
                PROVE  /\ k \in Servers' /\ k < next'[v] /\ \A a \in que'[v] : a.loop # k
                       /\ \A j \in 1..Len(async'[k]) : Asked(k, j, v)' => i = j
            <6>1. async'[k] = async[k] /\ i \in 1..Len(async[k]) /\ Asked(k, i, v)
              BY <1>10, <2>6, <5>1
            <6>2. /\ k \in Servers /\ k < next[v] /\ \A a \in que[v] : a.loop # k
                  /\ \A j \in 1..Len(async[k]) : Asked(k, j, v) => i = j
              BY <1>6, <6>1 DEF QuestionOnce
            <6>3. \A j \in 1..Len(async'[k]) : Asked(k, j, v)' => i = j
              BY <2>6, <6>1, <6>2
            <6>. QED
              BY <1>2, <1>3, <2>2, <3>3, <6>2, <6>3
          <5>. QED
            BY <5>1 DEF QuestionOnce
        <4>. QED
          BY <3>1, <4>1, <4>2
      <3>. QED
        BY <3>1, <3>2, <3>3
    <2>9. ASSUME NEW v \in Users, NEW a \in que'[v] PROVE AnswerFits(v, a)'
      <3>1. AnswerFits(v, a) /\ begun[v].open \subseteq Ids
        BY <1>1, <2>2, <2>4, CallParts DEF IInv, TypeOK
      <3>. QED
        BY <1>1, <1>3, <3>1 DEF AnswerFits
    <2>10. AskedOnce'
      BY <2>8 DEF AskedOnce, CallOnce, QuestionOnce
    <2>11. AnswersFit'
      BY <1>8, <2>8, <2>9 DEF AnswersFit, BegunFits, ClientsFirst, AnswerFits
    <2>. QED
      BY <2>10, <2>11
  <1>11. CASE Post(next[u], [kind |-> "get", user |-> u]) /\ UNCHANGED que
    <2>. DEFINE m == [kind |-> "get", user |-> u]
    <2>1. m \in Messages /\ Post(l, m)
      BY <1>9, <1>11, MessageFacts
    <2>2. /\ \A v \in Users : m = [kind |-> "get", user |-> v] => v = u
          /\ \A id : m # [kind |-> "conn", id |-> id]
      <3>1. m.kind = "get" /\ m.user = u
        OBVIOUS
      <3>2. \A v : m = [kind |-> "get", user |-> v] => m.user = v
        OBVIOUS
      <3>3. \A id : [kind |-> "conn", id |-> id].kind = "conn"
        OBVIOUS
      <3>. HIDE DEF m
      <3>4. \A id : m # [kind |-> "conn", id |-> id]
        BY <3>1, <3>3
      <3>. QED
        BY <3>1, <3>2, <3>4
    <2>. HIDE DEF m
    <2>3. /\ Len(async[l]) \in Nat /\ Len(async'[l]) = Len(async[l]) + 1
          /\ async'[l][Len(async[l]) + 1] = m
          /\ \A i \in 1..Len(async[l]) : async'[l][i] = async[l][i]
          /\ \A k \in Loops : k # l => async'[k] = async[k]
      BY <1>1, <2>1, PostFacts
    <2>4. \A i \in 1..Len(async'[l]) : i \in 1..Len(async[l]) \/ i = Len(async[l]) + 1
      BY <2>3
    <2>5. \A k \in Loops : \A i \in 1..Len(async'[k]) :
              \/ i \in 1..Len(async[k]) /\ async'[k][i] = async[k][i]
              \/ k = l /\ i = Len(async[l]) + 1 /\ async'[k][i] = m
      BY <2>3, <2>4
    <2>6. \A k \in Loops : \A i \in 1..Len(async'[k]) : \A v \in Users : Asked(k, i, v)' =>
              \/ i \in 1..Len(async[k]) /\ Asked(k, i, v)
              \/ k = l /\ i = Len(async[l]) + 1 /\ v = u
      BY <2>2, <2>5 DEF Asked
    <2>7. \A k \in Loops : \A i \in 1..Len(async'[k]) : \A id : Queued(k, i, id)' =>
              i \in 1..Len(async[k]) /\ Queued(k, i, id)
      BY <2>2, <2>5 DEF Queued
    <2>8. ASSUME NEW v \in Users PROVE CallOnce(v)' /\ QuestionOnce(v)' /\ ClientsFirst(v)'
      <3>1. CallOnce(v)'
        <4>1. \A a \in que[v] : a.loop < next'[v]
          <5>1. \A a \in que[v] : a.loop < next[v] /\ a.loop \in Nat
            BY <1>4, <1>5, <1>6 DEF CallOnce
          <5>2. CASE v = u
            BY <1>1, <1>2, <1>9, <5>1, <5>2
          <5>3. CASE v # u
            BY <1>2, <5>1, <5>3
          <5>. QED
            BY <5>2, <5>3
        <4>. QED
          BY <1>2, <1>6, <1>11, <4>1 DEF CallOnce
      <3>2. ClientsFirst(v)'
        <4>1. ASSUME NEW k \in Loops, NEW i \in 1..Len(async'[k]), NEW j \in 1..Len(async'[k]),
                     NEW id \in begun[v].open, Queued(k, i, id)', Asked(k, j, v)'
              PROVE  i < j
          <5>1. i \in 1..Len(async[k]) /\ Queued(k, i, id)
            BY <2>7, <4>1
          <5>2. CASE j \in 1..Len(async[k]) /\ Asked(k, j, v)
            BY <1>6, <4>1, <5>1, <5>2 DEF ClientsFirst
          <5>3. CASE k = l /\ j = Len(async[l]) + 1
            BY <2>3, <5>1, <5>3
          <5>. QED
            BY <2>6, <4>1, <5>2, <5>3
        <4>. QED
          BY <1>1, <4>1 DEF ClientsFirst
      <3>3. QuestionOnce(v)'
        <4>1. ASSUME NEW k \in Loops, NEW i \in 1..Len(async'[k]), Asked(k, i, v)'
              PROVE  /\ k \in Servers /\ k < next'[v] /\ \A a \in que[v] : a.loop # k
                     /\ \A j \in 1..Len(async'[k]) : Asked(k, j, v)' => i = j
          <5>1. CASE v # u \/ k # l
            <6>1. i \in 1..Len(async[k]) /\ Asked(k, i, v)
              BY <2>6, <4>1, <5>1
            <6>2. /\ k \in Servers /\ k < next[v] /\ \A a \in que[v] : a.loop # k
                  /\ \A j \in 1..Len(async[k]) : Asked(k, j, v) => i = j
              BY <1>6, <6>1 DEF QuestionOnce
            <6>3. k < next'[v]
              <7>1. CASE v = u
                BY <1>1, <1>2, <1>5, <1>9, <6>2, <7>1
              <7>2. CASE v # u
                BY <1>2, <6>2, <7>2
              <7>. QED
                BY <7>1, <7>2
            <6>4. \A j \in 1..Len(async'[k]) : Asked(k, j, v)' => i = j
              BY <2>6, <5>1, <6>2
            <6>. QED
              BY <6>2, <6>3, <6>4
          <5>2. CASE v = u /\ k = l
            <6>1. \A j \in 1..Len(async'[l]) : Asked(l, j, u)' => j = Len(async[l]) + 1
              BY <1>1, <1>7, <2>6
            <6>2. l < l + 1
              BY <1>1
            <6>3. \A j \in 1..Len(async'[l]) : Asked(l, j, u)' => i = j
              BY <4>1, <5>2, <6>1
            <6>. QED
              BY <1>1, <1>2, <1>7, <5>2, <6>2, <6>3
          <5>. QED
            BY <5>1, <5>2
        <4>. QED
          BY <1>3, <1>11, <4>1 DEF QuestionOnce
      <3>. QED
        BY <3>1, <3>2, <3>3
    <2>9. ASSUME NEW v \in Users, NEW a \in que'[v] PROVE AnswerFits(v, a)'
      <3>1. AnswerFits(v, a) /\ begun[v].open \subseteq Ids
        BY <1>1, <1>11, CallParts DEF IInv, TypeOK
      <3>. QED
        BY <1>1, <1>3, <3>1 DEF AnswerFits
    <2>10. AskedOnce'
      BY <2>8 DEF AskedOnce, CallOnce, QuestionOnce
    <2>11. AnswersFit'
      BY <1>8, <2>8, <2>9 DEF AnswersFit, BegunFits, ClientsFirst, AnswerFits
    <2>. QED
      BY <2>10, <2>11
  <1>. QED
    BY <1>10, <1>11 DEF Ask

\* A call returns when every server has answered: no question of it is left.
LEMMA AllAnswered ==
  ASSUME IInv, NEW u \in Users, Cardinality(que[u]) = Cardinality(Servers)
  PROVE  \A l \in Servers : \E a \in que[u] : a.loop = l
  <1>. DEFINE f == [a \in que[u] |-> a.loop]
              L == {a.loop : a \in que[u]}
  <1>1. Consistent /\ CallOnce(u) /\ que[u] \subseteq [loop : Servers, conns : SUBSET Ids]
    BY CallParts DEF IInv, Consistent, TypeOK
  <1>2. L \subseteq Servers
    BY <1>1
  <1>3. f \in Bijection(que[u], L)
    <2>1. f \in [que[u] -> L]
      OBVIOUS
    <2>2. \A a, b \in que[u] : f[a] = f[b] => a = b
      BY <1>1 DEF CallOnce
    <2>3. \A l \in L : \E a \in que[u] : f[a] = l
      OBVIOUS
    <2>. HIDE DEF f, L
    <2>. QED
      BY <2>1, <2>2, <2>3 DEF Bijection, Injection, Surjection, IsInjective
  <1>4. IsFiniteSet(Servers)
    <2>1. threadNum \in Int /\ 1 \in Int
      BY <1>1, ServerFacts DEF Consistent
    <2>2. IsFiniteSet(1..threadNum)
      BY <2>1, FS_Interval
    <2>3. IsFiniteSet({Main})
      BY FS_Singleton
    <2>. QED
      BY <2>2, <2>3 DEF Servers
  <1>. HIDE DEF f, L
  <1>5. IsFiniteSet(L)
    BY <1>2, <1>4, FS_Subset
  <1>6. Cardinality(L) = Cardinality(Servers)
    <2>1. ExistsBijection(que[u], L)
      BY <1>3, Fun_ExistsBij
    <2>2. ExistsBijection(L, que[u])
      BY <2>1, Fun_ExistsBijSymmetric
    <2>3. Cardinality(L) = Cardinality(que[u])
      BY <1>5, <2>2, FS_Bijection
    <2>. QED
      BY <2>3
  <1>7. L = Servers
    BY <1>2, <1>4, <1>6, FS_Subset
  <1>. QED
    BY <1>7 DEF L

LEMMA ReturnCalls ==
  ASSUME IInv, NEW u \in Users, Return(u)
  PROVE  AskedOnce' /\ AnswersFit'
  <1>1. /\ Consistent /\ Cardinality(que[u]) = Cardinality(Servers)
        /\ get' = [get EXCEPT ![u] = "idle"]
        /\ next' = [next EXCEPT ![u] = 0]
        /\ que' = [que EXCEPT ![u] = {}]
        /\ begun' = [begun EXCEPT ![u] = [open |-> {}, gone |-> {}]]
        /\ UNCHANGED <<threadNum, async, conn>>
    BY DEF Return, IInv
  <1>2. /\ next'[u] = 0 /\ que'[u] = {} /\ begun'[u].open = {} /\ begun'[u].gone = {}
        /\ \A v \in Users : v # u => /\ get'[v] = get[v] /\ next'[v] = next[v]
                                     /\ que'[v] = que[v] /\ begun'[v] = begun[v]
    BY <1>1 DEF Consistent, TypeOK
  <1>3. Servers' = Servers /\ \A id \in Ids : LoopOf(id)' = LoopOf(id)
    BY <1>1, SameServers
  <1>4. \A l \in Loops : \A i \in 1..Len(async[l]) : ~Asked(l, i, u)
    <2>1. \A l \in Servers : \E a \in que[u] : a.loop = l
      BY <1>1, AllAnswered
    <2>. QED
      BY <2>1, CallParts DEF IInv, QuestionOnce
  <1>5. ASSUME NEW v \in Users
        PROVE  CallOnce(v)' /\ QuestionOnce(v)' /\ BegunFits(v)' /\ ClientsFirst(v)'
    <2>1. CallOnce(v) /\ QuestionOnce(v) /\ BegunFits(v) /\ ClientsFirst(v)
      BY CallParts DEF IInv
    <2>2. \A l \in Loops : \A i : Asked(l, i, v)' <=> Asked(l, i, v)
      BY <1>1 DEF Asked
    <2>3. \A l \in Loops : \A i : \A id : Queued(l, i, id)' <=> Queued(l, i, id)
      BY <1>1 DEF Queued
    <2>4. CASE v = u
      <3>1. CallOnce(u)' /\ BegunFits(u)'
        BY <1>2 DEF CallOnce, BegunFits
      <3>2. QuestionOnce(u)' /\ ClientsFirst(u)'
        BY <1>1, <1>4, <2>2, <2>4 DEF QuestionOnce, ClientsFirst
      <3>. QED
        BY <2>4, <3>1, <3>2
    <2>5. CASE v # u
      <3>1. CallOnce(v)' /\ BegunFits(v)'
        BY <1>1, <1>2, <2>1, <2>5 DEF CallOnce, BegunFits
      <3>2. QuestionOnce(v)'
        BY <1>1, <1>2, <1>3, <2>1, <2>2, <2>5 DEF QuestionOnce
      <3>3. ClientsFirst(v)'
        BY <1>1, <1>2, <2>1, <2>2, <2>3, <2>5 DEF ClientsFirst
      <3>. QED
        BY <3>1, <3>2, <3>3
    <2>. QED
      BY <2>4, <2>5
  <1>6. ASSUME NEW v \in Users, NEW a \in que'[v] PROVE AnswerFits(v, a)'
    <2>1. v # u /\ a \in que[v]
      BY <1>2
    <2>2. AnswerFits(v, a) /\ begun[v].open \subseteq Ids
      BY <1>1, <2>1, CallParts DEF IInv, Consistent, TypeOK
    <2>. QED
      BY <1>1, <1>2, <1>3, <2>1, <2>2 DEF AnswerFits
  <1>7. AskedOnce'
    BY <1>5 DEF AskedOnce, CallOnce, QuestionOnce
  <1>8. AnswersFit'
    BY <1>5, <1>6 DEF AnswersFit, BegunFits, ClientsFirst, AnswerFits
  <1>. QED
    BY <1>7, <1>8

\* A client that is accepted is set up at once or sent to its loop.
LEMMA AcceptCalls ==
  ASSUME IInv, Accept
  PROVE  AskedOnce' /\ AnswersFit' /\ PoolPosts'
  <1>. DEFINE id == connectionId
  <1>1. /\ Consistent /\ TypeOK /\ id \in Ids /\ conn[id] = "none" /\ threadNum \in Nat
        /\ UNCHANGED <<threadNum, get, next, que, begun>>
    <2>1. Consistent /\ TypeOK /\ IdsInOrder /\ threadNum \in Nat
      BY ServerFacts DEF IInv, Consistent
    <2>2. id \in Ids
      BY <2>1, ServerAssumption DEF Accept, Ids, TypeOK
    <2>3. conn[id] = "none"
      BY <2>1, <2>2 DEF IdsInOrder, Ids
    <2>4. UNCHANGED <<threadNum, get, next, que, begun>>
      BY DEF Accept, getVars
    <2>. QED
      BY <2>1, <2>2, <2>3, <2>4
  <1>2. LoopOf(id) \in Loops
    BY <1>1, LoopOfFacts, ServerFacts
  <1>3. CASE threadNum = 0 /\ SetUp(Main, connectionId) /\ UNCHANGED async
    <2>1. \A k \in Ids : conn'[k] = IF k = id THEN conn'[id] ELSE conn[k]
      BY <1>1, <1>3 DEF SetUp, TypeOK
    <2>2. conn'[id] \in {"open", "refused"}
      BY <1>1, <1>3 DEF SetUp, TypeOK
    <2>3. \A k \in Ids : GoesOn(k)
      BY <1>1, <2>1, <2>2 DEF GoesOn
    <2>4. AskedOnce' /\ AnswersFit'
      BY <1>1, <1>3, <2>3, SameQuestions
    <2>5. PoolPosts'
      BY <1>1, <2>1, <2>2 DEF IInv, PoolPosts
    <2>. QED
      BY <2>4, <2>5
  <1>4. CASE /\ threadNum # 0
             /\ conn' = [conn EXCEPT ![connectionId] = "posted"]
             /\ Post(LoopOf(connectionId), [kind |-> "conn", id |-> connectionId])
             /\ UNCHANGED connectionMap
    <2>. DEFINE m == [kind |-> "conn", id |-> id]
    <2>1. m \in Messages /\ m.kind = "conn" /\ m.id = id
      BY <1>1, MessageFacts
    <2>2. PICK l \in Loops : l = LoopOf(id)
      BY <1>2
    <2>3. Post(l, m)
      BY <1>4, <2>2
    <2>4. \A k \in Ids : conn'[k] = IF k = id THEN "posted" ELSE conn[k]
      BY <1>1, <1>4 DEF TypeOK
    <2>5. \A k \in Ids : GoesOn(k)
      BY <1>1, <2>4 DEF GoesOn
    <2>6. \A k \in Ids : [kind |-> "conn", id |-> k].id = k
      OBVIOUS
    <2>. HIDE DEF m
    <2>7. \A k \in Ids : m = [kind |-> "conn", id |-> k] => conn[k] = "none"
      BY <1>1, <2>1, <2>6
    <2>8. AskedOnce' /\ AnswersFit'
      BY <1>1, <2>1, <2>3, <2>5, <2>7, OtherSent
    <2>9. PoolPosts'
      BY <1>1, <1>4 DEF PoolPosts
    <2>. QED
      BY <2>8, <2>9
  <1>. QED
    BY <1>3, <1>4 DEF Accept

\* A loop sets up a client.
LEMMA RunConnCalls ==
  ASSUME IInv, NEW l \in Servers, RunConn(l)
  PROVE  AskedOnce' /\ AnswersFit' /\ PoolPosts'
  <1>1. /\ l \in Loops /\ Take(l, "conn") /\ Consistent /\ TypeOK /\ SetUp(l, Head(async[l]).id)
        /\ UNCHANGED <<threadNum, get, next, que, begun>>
    BY ServerFacts DEF RunConn, IInv, Consistent, getVars
  <1>2. PICK id \in Ids : Head(async[l]).id = id /\ async[l][1] = [kind |-> "conn", id |-> id]
    BY <1>1, TakeFacts, MessageFacts
  <1>3. conn[id] = "posted"
    <2>1. 1 \in 1..Len(async[l]) /\ Queued(l, 1, id)
      BY <1>1, <1>2, TakeFacts DEF Queued
    <2>. QED
      BY <1>1, <2>1 DEF Consistent, PostedIsQueued
  <1>4. SetUp(l, id)
    BY <1>1, <1>2
  <1>5. \A k \in Ids : conn'[k] = IF k = id THEN conn'[id] ELSE conn[k]
    BY <1>1, <1>4 DEF SetUp, TypeOK
  <1>6. conn'[id] \in {"open", "refused"}
    BY <1>1, <1>4 DEF SetUp, TypeOK
  <1>7. \A k \in Ids : GoesOn(k)
    BY <1>3, <1>5, <1>6 DEF GoesOn
  <1>8. AskedOnce' /\ AnswersFit'
    BY <1>1, <1>7, OtherRun
  <1>9. PoolPosts'
    BY <1>1, <1>5, <1>6 DEF IInv, PoolPosts
  <1>. QED
    BY <1>8, <1>9

\* A connection that is closed, and those that go with the server.
LEMMA CloseCalls ==
  ASSUME IInv, DestroyMembers \/ \E l \in Servers : \E id \in Ids : RemoveConnection(l, id)
  PROVE  AskedOnce' /\ AnswersFit' /\ PoolPosts'
  <1>1. Consistent /\ TypeOK /\ Main \in Loops
    BY ServerFacts DEF IInv, Consistent
  <1>2. UNCHANGED <<threadNum, async, get, next, que, begun>>
    BY DEF DestroyMembers, RemoveConnection, getVars
  <1>3. \A k \in Ids : conn'[k] = conn[k] \/ (conn[k] = "open" /\ conn'[k] = "closed")
    <2>1. CASE DestroyMembers
      <3>1. connectionMap[Main] = {k \in Ids : conn[k] = "open" /\ LoopOf(k) = Main}
        BY <1>1 DEF Consistent, MapsAreRight
      <3>. QED
        BY <2>1, <3>1 DEF DestroyMembers
    <2>2. CASE \E l \in Servers : \E id \in Ids : RemoveConnection(l, id)
      <3>1. PICK l \in Servers, id \in Ids : RemoveConnection(l, id)
        BY <2>2
      <3>2. conn[id] = "open"
        BY <1>1, <3>1, ServerFacts DEF RemoveConnection, Consistent, MapsAreRight
      <3>3. \A k \in Ids : conn'[k] = IF k = id THEN "closed" ELSE conn[k]
        BY <1>1, <3>1 DEF RemoveConnection, TypeOK
      <3>. QED
        BY <3>2, <3>3
    <2>. QED
      BY <2>1, <2>2
  <1>4. \A k \in Ids : GoesOn(k)
    BY <1>3 DEF GoesOn
  <1>5. AskedOnce' /\ AnswersFit'
    BY <1>2, <1>4, SameQuestions
  <1>6. PoolPosts'
    BY <1>2, <1>3 DEF IInv, PoolPosts
  <1>. QED
    BY <1>5, <1>6

\* The steps that have nothing to do with connections or calls.
LEMMA OtherCalls ==
  ASSUME IInv,
         \/ NewConnection \/ AcceptFails \/ DestroyBegin \/ StopLoop \/ PostStop \/ JoinLoop
         \/ \E l \in Servers : Enter(l) \/ RunStop(l) \/ Notify(l)
         \/ UNCHANGED vars
  PROVE  AskedOnce' /\ AnswersFit' /\ PoolPosts'
  <1>1. UNCHANGED <<threadNum, conn, get, next, que, begun>>
    BY DEF NewConnection, AcceptFails, DestroyBegin, StopLoop, PostStop, JoinLoop, Enter, RunStop, Notify,
           vars, getVars
  <1>2. \A id \in Ids : GoesOn(id)
    BY <1>1 DEF GoesOn
  <1>3. PoolPosts'
    BY <1>1 DEF IInv, PoolPosts
  <1>4. CASE PostStop
    <2>1. at \in Loops
      <3>1. at \in 1..(threadNum + 1) /\ at <= threadNum /\ threadNum \in Nat /\ threadNum \in PoolSizes
        BY <1>4, ServerFacts DEF PostStop, IInv, Consistent, EndIsClean, TypeOK
      <3>. QED
        BY <3>1 DEF Loops
    <2>2. PICK l \in Loops : l = at
      BY <2>1
    <2>. DEFINE m == [kind |-> "stop"]
    <2>3. m \in Messages /\ m.kind = "stop" /\ Post(l, m)
      BY <1>4, <2>2, MessageFacts DEF PostStop
    <2>4. \A id \in Ids : [kind |-> "conn", id |-> id].kind = "conn"
      OBVIOUS
    <2>. HIDE DEF m
    <2>5. \A id \in Ids : m = [kind |-> "conn", id |-> id] => conn[id] = "none"
      BY <2>3, <2>4
    <2>6. m.kind # "get"
      BY <2>3
    <2>7. AskedOnce' /\ AnswersFit'
      BY <1>1, <1>2, <2>3, <2>5, <2>6, OtherSent
    <2>. QED
      BY <1>3, <2>7
  <1>5. CASE \E l \in Servers : RunStop(l)
    <2>1. PICK l \in Servers : RunStop(l)
      BY <1>5
    <2>2. l \in Loops /\ Take(l, "stop")
      BY <2>1, ServerFacts DEF RunStop, IInv, Consistent
    <2>3. AskedOnce' /\ AnswersFit'
      BY <1>1, <1>2, <2>2, OtherRun
    <2>. QED
      BY <1>3, <2>3
  <1>6. CASE UNCHANGED async
    <2>1. AskedOnce' /\ AnswersFit'
      BY <1>1, <1>2, <1>6, SameQuestions
    <2>. QED
      BY <1>3, <2>1
  <1>7. PostStop \/ (\E l \in Servers : RunStop(l)) \/ UNCHANGED async
    BY DEF NewConnection, AcceptFails, DestroyBegin, StopLoop, JoinLoop, Enter, Notify, vars
  <1>. QED
    BY <1>4, <1>5, <1>6, <1>7

LEMMA InitCalls == Init => IInv
  <1>. SUFFICES ASSUME Init PROVE IInv
    OBVIOUS
  <1>1. Consistent
    BY InitHolds
  <1>2. \A l \in Loops : async[l] = <<>> /\ Len(async[l]) = 0 /\ 1..Len(async[l]) = {}
    BY EmptySeq DEF Init
  <1>3. AskedOnce
    BY <1>2 DEF Init, AskedOnce
  <1>4. AnswersFit
    BY <1>2 DEF Init, AnswersFit
  <1>5. PoolPosts
    BY DEF Init, PoolPosts
  <1>. QED
    BY <1>1, <1>3, <1>4, <1>5 DEF IInv

LEMMA CallsStep == IInv /\ [Next]_vars => IInv'
  <1>. SUFFICES ASSUME IInv, [Next]_vars PROVE IInv'
    OBVIOUS
  <1>1. Consistent'
    BY StepHolds DEF IInv
  <1>2. CASE Accept
    BY <1>1, <1>2, AcceptCalls DEF IInv
  <1>3. CASE \E u \in Users : GetAllConnection(u) \/ Ask(u) \/ Return(u)
    <2>1. AskedOnce' /\ AnswersFit'
      BY <1>3, GetCalls, AskCalls, ReturnCalls
    <2>2. PoolPosts'
      BY <1>3 DEF IInv, PoolPosts, GetAllConnection, Ask, Return
    <2>. QED
      BY <1>1, <2>1, <2>2 DEF IInv
  <1>4. CASE \E l \in Servers : RunConn(l)
    BY <1>1, <1>4, RunConnCalls DEF IInv
  <1>5. CASE \E l \in Servers : RunGet(l)
    <2>1. AskedOnce' /\ AnswersFit'
      BY <1>5, RunGetCalls
    <2>2. PoolPosts'
      BY <1>5 DEF IInv, PoolPosts, RunGet
    <2>. QED
      BY <1>1, <2>1, <2>2 DEF IInv
  <1>6. CASE DestroyMembers \/ \E l \in Servers : \E id \in Ids : RemoveConnection(l, id)
    BY <1>1, <1>6, CloseCalls DEF IInv
  <1>7. CASE \/ NewConnection \/ AcceptFails \/ DestroyBegin \/ StopLoop \/ PostStop \/ JoinLoop
             \/ \E l \in Servers : Enter(l) \/ RunStop(l) \/ Notify(l)
             \/ UNCHANGED vars
    BY <1>1, <1>7, OtherCalls DEF IInv
  <1>. QED
    BY <1>2, <1>3, <1>4, <1>5, <1>6, <1>7 DEF Next, Destroy, LoopStep

-----------------------------------------------------------------------------
(* The theorems *)

\* In every server, whatever its pool and whoever asks: an open connection is in the map of its
\* loop alone, a client that was accepted is in the queue of its loop exactly once until it is
\* set up, the destructor leaves no loop running and nothing in the queue of one that ever ran, and
\* each loop is asked once by a call and answers with all it had to.
THEOREM InvariantHolds == Spec => []IInv
  <1>1. Init => IInv
    BY InitCalls
  <1>2. IInv /\ [Next]_vars => IInv'
    BY CallsStep
  <1>. QED
    BY <1>1, <1>2, PTL DEF Spec

\* getAllConnection returns every connection that was open, or on its way from the main loop that
\* calls it, when the call began and still is, and none that was gone then, whatever is accepted,
\* closed and asked in the meantime.
THEOREM SnapshotsAreRegular == Spec => SnapshotIsRegular
  <1>1. ASSUME IInv, [Next]_vars, NEW u \in Users, get[u] = "takes", get'[u] = "idle"
        PROVE  /\ {id \in begun[u].open : conn[id] = "open"} \subseteq Results(u)
               /\ Results(u) \cap begun[u].gone = {}
    <2>1. Consistent /\ TypeOK /\ \A a \in que[u] : AnswerFits(u, a)
      BY <1>1, CallParts DEF IInv, Consistent
    <2>2. Return(u)
      <3>1. get' # get
        BY <1>1
      <3>2. PICK v \in Users : GetAllConnection(v) \/ Ask(v) \/ Return(v)
        BY <1>1, <3>1 DEF Next, vars, NewConnection, Accept, AcceptFails, DestroyBegin, Destroy,
          StopLoop, PostStop, JoinLoop, DestroyMembers, LoopStep, Enter, RunConn, RunGet, RunStop, Notify,
          RemoveConnection, getVars
      <3>3. v = u
        BY <1>1, <2>1, <3>2 DEF GetAllConnection, Ask, Return, TypeOK
      <3>4. ~GetAllConnection(u) /\ ~Ask(u)
        BY <1>1, <2>1 DEF GetAllConnection, Ask, TypeOK
      <3>. QED
        BY <3>2, <3>3, <3>4
    <2>3. \A l \in Servers : \E a \in que[u] : a.loop = l
      BY <1>1, <2>2, AllAnswered DEF Return
    <2>4. ASSUME NEW id \in begun[u].open, conn[id] = "open" PROVE id \in Results(u)
      <3>1. id \in Ids /\ LoopOf(id) \in Servers
        BY <2>1, LoopOfFacts DEF TypeOK
      <3>2. PICK a \in que[u] : a.loop = LoopOf(id)
        BY <2>3, <3>1
      <3>3. id \in a.conns
        BY <2>1, <2>4, <3>2 DEF AnswerFits
      <3>. QED
        BY <3>2, <3>3 DEF Results
    <2>5. Results(u) \cap begun[u].gone = {}
      BY <2>1 DEF AnswerFits, Results
    <2>. QED
      BY <2>4, <2>5
  <1>2. IInv /\ [Next]_vars =>
            [\A u \in Users : get[u] = "takes" /\ get'[u] = "idle" =>
                 /\ {id \in begun[u].open : conn[id] = "open"} \subseteq Results(u)
                 /\ Results(u) \cap begun[u].gone = {}]_vars
    BY <1>1
  <1>3. Spec => []IInv
    BY InitCalls, CallsStep, PTL DEF Spec
  <1>. QED
    BY <1>2, <1>3, PTL DEF Spec, SnapshotIsRegular
=============================================================================
