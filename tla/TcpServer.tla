----------------------------- MODULE TcpServer -----------------------------
(***************************************************************************)
(* TcpServer: the main loop accepts clients and hands each to a loop of    *)
(* the pool, which keeps it in its own connectionMap_; getAllConnection    *)
(* asks every loop for its map and waits for the answers.  Without a pool  *)
(* the main loop does it all.  The destructor stops and joins the loops of *)
(* the pool one by one.  What happens in a connection is the subject of    *)
(* TcpConnection, the callbacks sent to a loop are those of EventLoop, the *)
(* order of the pool's loops and threads is EventLoopThreadPool's matter.  *)
(***************************************************************************)
EXTENDS Naturals, Sequences, SequencesExt, FiniteSets

CONSTANTS
    PoolSizes,   \* the values of threadNum_; 0 without setThreadNum
    AcceptMax,   \* ACCEPT_MAX
    Users,       \* the threads that call getAllConnection; one that is no loop has a number, too
    MaxConns,    \* bound: accepted clients
    MaxCalls     \* bound: calls of getAllConnection by each thread

Main == 0

\* Main and the loops of the pool; a smaller pool leaves some of them unused.
Loops == {Main} \cup UNION {1..n : n \in PoolSizes}

ASSUME ServerAssumption ==
    /\ PoolSizes \subseteq Nat /\ MaxConns \in Nat /\ MaxCalls \in Nat /\ AcceptMax \in Nat \ {0}
    /\ Users \subseteq Nat

Ids == 0..(MaxConns - 1)

Messages == [kind : {"conn"}, id : Ids] \cup [kind : {"get"}, user : Users] \cup [kind : {"stop"}]

VARIABLES
    threadNum,      \* threadNum_, set before start
    connectionId,   \* connectionId_
    accepting,      \* i + 1 in newConnectionCallback, 0 outside
    async,          \* what was sent to each loop and has not run
    conn,           \* the client with this id: "none", "posted", "open", "closed" or "refused"
    connectionMap,  \* connectionMap_ of each loop
    get,            \* in getAllConnection: "asks" or "takes"; "idle" outside
    calls,          \* how often each thread called it
    next,           \* the loop it asks next
    que,            \* the answers in its local queue: a loop and its connections
    putting,        \* a loop has put its answer and must still notify
    begun,          \* history: the clients open, and those gone, when the call began
    destroy,        \* where the owner is in the destructor; "no" before it
    at,             \* i + 1 in the destructor of the pool
    entered,        \* the loops of the pool whose run() has called uv_run
    ended           \* the loops whose run() has returned

acceptVars == <<connectionId, accepting>>
getVars == <<get, calls, next, que, putting, begun>>
endVars == <<destroy, at, entered, ended>>
vars == <<threadNum, acceptVars, async, conn, connectionMap, getVars, endVars>>

\* The loops that serve connections.
Servers == IF threadNum = 0 THEN {Main} ELSE 1..threadNum

\* EventLoopThreadPool::getLoop
LoopOf(id) == IF threadNum = 0 THEN Main ELSE (id % threadNum) + 1

TypeOK ==
    /\ threadNum \in PoolSizes
    /\ connectionId \in 0..MaxConns /\ accepting \in 0..AcceptMax
    /\ async \in [Loops -> Seq(Messages)]
    /\ conn \in [Ids -> {"none", "posted", "open", "closed", "refused"}]
    /\ connectionMap \in [Loops -> SUBSET Ids]
    /\ get \in [Users -> {"idle", "asks", "takes"}]
    /\ calls \in [Users -> 0..MaxCalls]
    /\ next \in [Users -> 0..(threadNum + 1)]
    /\ que \in [Users -> SUBSET [loop : Servers, conns : SUBSET Ids]]
    /\ putting \in [Loops -> BOOLEAN]
    /\ begun \in [Users -> [open : SUBSET Ids, gone : SUBSET Ids]]
    /\ destroy \in {"no", "stops", "posts", "joins", "gone"}
    /\ at \in 1..(threadNum + 1) /\ entered \subseteq 1..threadNum /\ ended \subseteq Servers

Init ==
    /\ threadNum \in PoolSizes
    /\ connectionId = 0 /\ accepting = 0
    /\ async = [l \in Loops |-> <<>>]
    /\ conn = [id \in Ids |-> "none"]
    /\ connectionMap = [l \in Loops |-> {}]
    /\ get = [u \in Users |-> "idle"]
    /\ calls = [u \in Users |-> 0]
    /\ next = [u \in Users |-> 0]
    /\ que = [u \in Users |-> {}]
    /\ putting = [l \in Loops |-> FALSE]
    /\ begun = [u \in Users |-> [open |-> {}, gone |-> {}]]
    /\ destroy = "no" /\ at = 1 /\ entered = {} /\ ended = {}

\* A thread in getAllConnection does nothing else, nor does a loop that still has to notify,
\* one whose thread has not entered run() yet, or one that has ended.
Free(l) ==
    /\ l \in Users => get[l] = "idle"
    /\ l \in Loops => ~putting[l]
    /\ l \in 1..threadNum => l \in entered
    /\ l \notin ended

\* Fault: what is posted last is run first.
FaultyPost(l, m) == async' = [async EXCEPT ![l] = <<m>> \o @]

\* runInLoopThread from another thread
Post(l, m) == async' = [async EXCEPT ![l] = Append(@, m)]

-----------------------------------------------------------------------------
(* newConnectionCallback *)

NewConnection ==
    /\ Free(Main) /\ accepting = 0 /\ destroy = "no"
    /\ accepting' = 1
    /\ UNCHANGED <<threadNum, connectionId, async, conn, connectionMap, getVars, endVars>>

\* for (i < ACCEPT_MAX)
NextAccept == accepting' = (accepting + 1) % (AcceptMax + 1)

\* Fault: the connection goes into the map of the thread that accepted it.
FaultySetUp(l, id) ==
    conn' = [conn EXCEPT ![id] = "open"] /\ connectionMap' = [connectionMap EXCEPT ![Main] = @ \cup {id}]

\* A client in the thread of its loop: startRead fails and the handle is closed, or a
\* connection is made and put into the map of that thread.
SetUp(l, id) ==
    \/ /\ conn' = [conn EXCEPT ![id] = "open"]
       /\ connectionMap' = [connectionMap EXCEPT ![l] = @ \cup {id}]
    \/ conn' = [conn EXCEPT ![id] = "refused"] /\ UNCHANGED connectionMap

\* uv_accept succeeds: the client gets the next id and is sent to its loop.
Accept ==
    /\ Free(Main) /\ accepting # 0 /\ connectionId < MaxConns
    /\ NextAccept
    /\ connectionId' = connectionId + 1
    /\ \/ threadNum = 0 /\ SetUp(Main, connectionId) /\ UNCHANGED async
       \/ /\ threadNum # 0
          /\ conn' = [conn EXCEPT ![connectionId] = "posted"]
          /\ Post(LoopOf(connectionId), [kind |-> "conn", id |-> connectionId])
          /\ UNCHANGED connectionMap
    /\ UNCHANGED <<threadNum, getVars, endVars>>

\* uv_accept fails: with UV_EAGAIN there is no client left.
AcceptFails ==
    /\ Free(Main) /\ accepting # 0
    /\ accepting' = 0 \/ NextAccept
    /\ UNCHANGED <<threadNum, connectionId, async, conn, connectionMap, getVars, endVars>>

-----------------------------------------------------------------------------
(* getAllConnection *)

\* Fault: a loop without connections gives no answer.
FaultyAnswer(l, u) ==
    que' = IF connectionMap[l] = {} THEN que
           ELSE [que EXCEPT ![u] = @ \cup {[loop |-> l, conns |-> connectionMap[l]]}]

\* que.put(getConnection(...)) in the thread of loop l
Answer(l, u) == que' = [que EXCEPT ![u] = @ \cup {[loop |-> l, conns |-> connectionMap[l]]}]

\* u calls getAllConnection; a loop does so in a callback.
GetAllConnection(u) ==
    /\ Free(u) /\ calls[u] < MaxCalls /\ destroy = "no"
    /\ get' = [get EXCEPT ![u] = "asks"]
    /\ calls' = [calls EXCEPT ![u] = @ + 1]
    /\ next' = [next EXCEPT ![u] = IF threadNum = 0 THEN 0 ELSE 1]
    /\ begun' = [begun EXCEPT ![u] =
           [open |-> {id \in Ids : conn[id] = "open" \/ (conn[id] = "posted" /\ u = Main)},
            gone |-> {id \in Ids : conn[id] = "closed"}]]
    /\ UNCHANGED <<threadNum, acceptVars, async, conn, connectionMap, que, putting, endVars>>

\* The next loop is asked by runInLoopThread, which answers directly in u's own loop.
Ask(u) ==
    /\ get[u] = "asks"
    /\ \/ next[u] = u /\ Answer(u, u) /\ UNCHANGED async
       \/ /\ next[u] # u
          /\ Post(next[u], [kind |-> "get", user |-> u])
          /\ UNCHANGED que
    /\ next' = [next EXCEPT ![u] = @ + 1]
    /\ get' = [get EXCEPT ![u] = IF next[u] = threadNum THEN "takes" ELSE "asks"]
    /\ UNCHANGED <<threadNum, acceptVars, conn, connectionMap, calls, putting, begun, endVars>>

\* Every answer has been taken; the queue goes with the call.
Return(u) ==
    /\ get[u] = "takes" /\ Cardinality(que[u]) = Cardinality(Servers)
    /\ get' = [get EXCEPT ![u] = "idle"]
    /\ next' = [next EXCEPT ![u] = 0]
    /\ que' = [que EXCEPT ![u] = {}]
    /\ begun' = [begun EXCEPT ![u] = [open |-> {}, gone |-> {}]]
    /\ UNCHANGED <<threadNum, acceptVars, async, conn, connectionMap, calls, putting, endVars>>

-----------------------------------------------------------------------------
(* The loops *)

\* The loop takes the callback that was sent first; it is of this kind.
Take(l, kind) ==
    /\ Free(l) /\ async[l] # <<>> /\ Head(async[l]).kind = kind
    /\ async' = [async EXCEPT ![l] = Tail(@)]

\* The callback newConnectionCallback sent runs.
RunConn(l) ==
    /\ Take(l, "conn")
    /\ SetUp(l, Head(async[l]).id)
    /\ UNCHANGED <<threadNum, acceptVars, getVars, endVars>>

\* The callback getAllConnection sent runs: que.put, up to the release of its mutex.
RunGet(l) ==
    /\ Take(l, "get")
    /\ Answer(l, Head(async[l]).user)
    /\ putting' = [putting EXCEPT ![l] = TRUE]
    /\ UNCHANGED <<threadNum, acceptVars, conn, connectionMap, get, calls, next, begun, endVars>>

\* The loops of the pool whose run_ is false: stop() was called for them.
Stopped == 1..(IF destroy \in {"posts", "joins"} THEN at ELSE at - 1)

\* EventLoopThreadPool::start does not wait for the threads to call run(): one that comes to
\* while (run_) after the stop() of its loop returns at once, whatever was sent to the loop.
Enter(l) ==
    /\ l \in 1..threadNum /\ l \notin entered \cup ended
    /\ \/ l \notin Stopped /\ entered' = entered \cup {l} /\ UNCHANGED ended
       \/ l \in Stopped /\ ended' = ended \cup {l} /\ UNCHANGED entered
    /\ UNCHANGED <<threadNum, acceptVars, async, conn, connectionMap, getVars, destroy, at>>

\* The callback stop sent runs, and run() returns; what a stopped loop does is EventLoop's.
RunStop(l) ==
    /\ Take(l, "stop")
    /\ ended' = ended \cup {l}
    /\ UNCHANGED <<threadNum, acceptVars, conn, connectionMap, getVars, destroy, at, entered>>

\* que.put ends with notify_all, on a queue that may be gone with its call.
Notify(l) ==
    /\ putting[l]
    /\ putting' = [putting EXCEPT ![l] = FALSE]
    /\ UNCHANGED <<threadNum, acceptVars, async, conn, connectionMap, get, calls, next, que, begun, endVars>>

\* removeConnection, the close callback of a connection, in the thread of its loop.
RemoveConnection(l, id) ==
    /\ Free(l) /\ id \in connectionMap[l]
    /\ conn' = [conn EXCEPT ![id] = "closed"]
    /\ connectionMap' = [connectionMap EXCEPT ![l] = @ \ {id}]
    /\ UNCHANGED <<threadNum, acceptVars, async, getVars, endVars>>

LoopStep(l) == Enter(l) \/ RunConn(l) \/ RunGet(l) \/ RunStop(l) \/ Notify(l)

-----------------------------------------------------------------------------
(* The destructor, called by the owner of the main loop.  Nobody is in     *)
(* getAllConnection then, or calls it any more.                            *)

\* uv_close(server_): no client is accepted any more.
DestroyBegin ==
    /\ destroy = "no" /\ Free(Main) /\ accepting = 0 /\ \A u \in Users : get[u] = "idle"
    /\ destroy' = "stops"
    /\ UNCHANGED <<threadNum, acceptVars, async, conn, connectionMap, getVars, at, entered, ended>>

\* loops_[i]->stop(): run_ = false ...
StopLoop ==
    /\ destroy = "stops" /\ at <= threadNum
    /\ destroy' = "posts"
    /\ UNCHANGED <<threadNum, acceptVars, async, conn, connectionMap, getVars, at, entered, ended>>

\* Fault: uv_stop is called directly, not in the loop's thread.
FaultyPostStop ==
    /\ destroy = "posts"
    /\ ended' = ended \cup {at} /\ destroy' = "joins"
    /\ UNCHANGED <<threadNum, acceptVars, async, conn, connectionMap, getVars, at, entered>>

\* ... and then uv_stop, sent to the loop.
PostStop ==
    /\ destroy = "posts"
    /\ Post(at, [kind |-> "stop"])
    /\ destroy' = "joins"
    /\ UNCHANGED <<threadNum, acceptVars, conn, connectionMap, getVars, at, entered, ended>>

\* threads_[i]->join(), then the thread and its loop are deleted.
JoinLoop ==
    /\ destroy = "joins" /\ at \in ended
    /\ destroy' = "stops" /\ at' = at + 1
    /\ UNCHANGED <<threadNum, acceptVars, async, conn, connectionMap, getVars, entered, ended>>

\* The members go, with them the calling thread's map and its connections; the maps of the
\* other threads stay behind.
DestroyMembers ==
    /\ destroy = "stops" /\ at > threadNum
    /\ destroy' = "gone"
    /\ conn' = [id \in Ids |-> IF id \in connectionMap[Main] THEN "closed" ELSE conn[id]]
    /\ connectionMap' = [connectionMap EXCEPT ![Main] = {}]
    /\ UNCHANGED <<threadNum, acceptVars, async, getVars, at, entered, ended>>

Destroy == StopLoop \/ PostStop \/ JoinLoop \/ DestroyMembers

-----------------------------------------------------------------------------
Next ==
    \/ NewConnection \/ Accept \/ AcceptFails \/ DestroyBegin \/ Destroy
    \/ \E u \in Users : GetAllConnection(u) \/ Ask(u) \/ Return(u)
    \/ \E l \in Servers : LoopStep(l) \/ \E id \in Ids : RemoveConnection(l, id)

Spec == Init /\ [][Next]_vars

\* Each thread goes on; nobody has to accept, close, ask or destroy.
FairSpec ==
    /\ Spec /\ WF_vars(Destroy)
    /\ \A l \in Loops : WF_vars(l \in Servers /\ LoopStep(l))
    /\ \A u \in Users : WF_vars(Ask(u) \/ Return(u))

-----------------------------------------------------------------------------
(* Properties *)

\* An open connection is in the map of its loop and in no other, although the ids are given
\* out by one thread and the maps kept by others.
MapsAreRight ==
    \A l \in Loops : connectionMap[l] = {id \in Ids : conn[id] = "open" /\ LoopOf(id) = l}

\* A client that was posted is on its way to its loop, once; nothing else is.
Queued(l, i, id) == async[l][i] = [kind |-> "conn", id |-> id]

PostedIsQueued ==
    \A l \in Loops : \A id \in Ids :
        /\ conn[id] = "posted" /\ LoopOf(id) = l => \E i \in 1..Len(async[l]) : Queued(l, i, id)
        /\ \A i \in 1..Len(async[l]) : Queued(l, i, id) =>
               /\ conn[id] = "posted" /\ LoopOf(id) = l
               /\ \A j \in 1..Len(async[l]) : Queued(l, j, id) => i = j

IdsInOrder == \A id \in Ids : conn[id] = "none" <=> id >= connectionId

\* The loop asked next exists, until all have been asked.
AskedExist == \A u \in Users : get[u] = "asks" => next[u] \in Servers

\* The destructor deletes no loop that runs, and stops each once, when nobody sends anything more;
\* nothing is left for a loop that has ended, least of all an accepted client, if it ever ran.
EndIsClean ==
    /\ \A l \in ended : l \in entered => async[l] = <<>>
    /\ \A l \in Loops : \A i \in 1..Len(async[l]) :
           async[l][i].kind = "stop" =>
               i = Len(async[l]) /\ l \in 1..at /\ (l = at => destroy = "joins")
    /\ destroy = "no" => ended = {} /\ at = 1
    /\ destroy # "no" => /\ 1..(at - 1) \subseteq ended /\ accepting = 0
                         /\ \A u \in Users : get[u] = "idle"
    /\ destroy \in {"posts", "joins"} => at <= threadNum /\ ended \subseteq 1..at
    /\ destroy = "stops" => ended \subseteq 1..(at - 1)
    /\ destroy = "posts" => at \notin entered \cap ended

Consistent == TypeOK /\ MapsAreRight /\ PostedIsQueued /\ IdsInOrder /\ AskedExist /\ EndIsClean

\* Each loop of the pool is asked once and in turn, and either has still to answer or has answered.
Asked(l, i, u) == async[l][i] = [kind |-> "get", user |-> u]

AskedOnce ==
    \A u \in Users :
        /\ get[u] = "idle" => next[u] = 0
        /\ \A a \in que[u] : a.loop < next[u] /\ \A b \in que[u] : a.loop = b.loop => a = b
        /\ \A l \in Loops : \A i \in 1..Len(async[l]) : Asked(l, i, u) =>
               /\ l \in Servers /\ l < next[u] /\ \A a \in que[u] : a.loop # l
               /\ \A j \in 1..Len(async[l]) : Asked(l, j, u) => i = j

\* A client that only the main loop knew of when it began to ask reaches its loop before the
\* question does; so an answer has every connection of its loop that was there all the time.
AnswersFit ==
    \A u \in Users :
        /\ \A id \in begun[u].open : conn[id] # "none" /\ (conn[id] = "posted" => u = Main)
        /\ \A id \in begun[u].gone : conn[id] = "closed"
        /\ \A a \in que[u] : /\ a.conns \cap begun[u].gone = {}
                             /\ \A id \in begun[u].open : LoopOf(id) = a.loop =>
                                    conn[id] # "posted" /\ (conn[id] = "open" => id \in a.conns)
        /\ \A l \in Loops : \A i, j \in 1..Len(async[l]) : \A id \in begun[u].open :
               Queued(l, i, id) /\ Asked(l, j, u) => i < j

\* Without a pool nothing is posted.
PoolPosts == threadNum = 0 => \A id \in Ids : conn[id] # "posted"

IInv == Consistent /\ AskedOnce /\ AnswersFit /\ PoolPosts

Results(u) == UNION {a.conns : a \in que[u]}

\* getAllConnection returns every connection that is open during the whole call, for the main
\* loop also those it had only sent to their loops, and none that was gone when the call began.
\* Each loop answers at its own time.
SnapshotIsRegular ==
    [][\A u \in Users : get[u] = "takes" /\ get'[u] = "idle" =>
           /\ {id \in begun[u].open : conn[id] = "open"} \subseteq Results(u)
           /\ Results(u) \cap begun[u].gone = {}]_vars

\* Two loops of the pool that are both in getAllConnection wait for each other's answer.
LoopsBlocked == \E l, m \in Servers \cap Users : l # m /\ get[l] # "idle" /\ get[m] # "idle"

\* Unless two loops block each other for good, getAllConnection returns, as does the destructor,
CallsReturn ==
    /\ <>[]LoopsBlocked \/ \A u \in Users : (get[u] # "idle") ~> (get[u] = "idle")
    /\ (destroy # "no") ~> (destroy = "gone")

\* and an accepted client is set up or closed, even if the server is destroyed at once, unless
\* that stopped its loop before the loop's thread had entered run().
PostedIsServed ==
    <>[]LoopsBlocked \/ \A id \in Ids :
        (conn[id] = "posted") ~> (conn[id] # "posted" \/ LoopOf(id) \in ended \ entered)
=============================================================================
