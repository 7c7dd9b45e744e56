------------------------------ MODULE TaskPool ------------------------------
(***************************************************************************)
(* The shards' task queues and the threads around them: TaskQueue         *)
(* (Common/TaskQueue.cpp) and the threading of SQLContext                  *)
(* (SQLTable/SQLContext.cpp).                                               *)
(*                                                                         *)
(*  - a worker thread runs threadFunc: fetchTask, then executeTask, until  *)
(*    fetchTask returns nullptr;                                           *)
(*  - a client thread runs select(): under the shard's wait lock it adds   *)
(*    a ttSelect task and waits for data.isFinish; on a timeout it calls   *)
(*    addTaskThread to replace the shard's worker and waits again;         *)
(*  - a client thread runs execUpdate() the same way with a write task on  *)
(*    the shard balanceChoose() picks; in read mode it does not replace   *)
(*    the worker on a timeout;                                             *)
(*  - in read mode doWrite sends the write to the write server, and the   *)
(*    network thread's syncWrite finishes it on the answer, after         *)
(*    addUpdateCacheTask if the write changed rows: one                    *)
(*    ttUpdateCache task per shard, sharing a payload with a reference     *)
(*    count that is to free it after the last shard.                       *)
(*                                                                         *)
(* What a task does to the shard's cache is abstracted away; what is kept  *)
(* is the ring, the locks, the condition waits, the thread ids and the     *)
(* reference count.  Critical sections of m_taskLock are single steps.     *)
(***************************************************************************)
EXTENDS Integers, FiniteSets

CONSTANTS
    ShardCount,   \* m_threadCnt
    Clients,      \* client connections, each issuing requests one by one
    QueueSize,    \* QUEUE_SIZE (a power of two)
    Requests,     \* bound on the requests of one client
    MaxThreads,   \* bound on m_threads.size()
    MaxUpdates,   \* bound on the broadcasts of the network thread
    NoHolder,     \* a model value: nobody
    ReadMode,     \* m_readMode: writes go to the write server
    SqlHashes     \* strHash() of the selects' SQL: the characters' sum
                  \* masked by m_threadCnt - 1

ASSUME SqlHashes \subseteq 0 .. ShardCount - 1

Shards == 0 .. ShardCount - 1
Slots == 0 .. QueueSize - 1
Workers == 0 .. MaxThreads - 1
Updates == 1 .. MaxUpdates

\* A Task: its type and its data pointer, as the client and request number
\* of a SelectTaskData or the number of an UpdateCacheTaskData.
Tasks == [type : {"none", "select", "write", "update", "free"},
          who : Clients \cup {NoHolder}, k : 0 .. Requests \cup Updates]
NoTask == [type |-> "none", who |-> NoHolder, k |-> 0]
SelectTask(c, k) == [type |-> "select", who |-> c, k |-> k]
WriteTask(c, k) == [type |-> "write", who |-> c, k |-> k]
UpdateTask(u) == [type |-> "update", who |-> NoHolder, k |-> u]
FreeTask(u) == [type |-> "free", who |-> NoHolder, k |-> u]

VARIABLES
    putPos, getPos,  \* m_putPos, m_getPos of each shard's queue
    taskList,        \* m_taskList
    isDone,          \* m_isDone
    threadId,        \* m_threadId of each queue
    threads,         \* m_threads.size()
    wpc,             \* where each worker thread is
    wShard,          \* the thIndex a worker thread was started with
    wTask,           \* the task a worker fetched
    cpc,             \* where each client thread is
    cShard,          \* the index select() chose
    cReq,            \* the selects a client has issued
    finished,        \* data.isFinish of the client's current select
    waitLock,        \* the holder of m_waitTaskLocks[s] across a step
    nUpd,            \* broadcasts issued
    prepared,        \* task->updateRecords != 0
    refCount,        \* task->referCount
    threadIndex,     \* task->threadIndex
    freed,           \* doFreeUpdateCacheTask ran on the payload
    taken,           \* ghost: the <<shard, task>> pairs a worker fetched
    consumed,        \* ghost: the shards that finished doUpdateCache(u)
    cType,           \* whether the client's request is a select or a write
    sent,            \* <<thIndex, write task>> sent to the write server
    answers          \* ghost: setTaskFinish calls per client and request

vars == <<putPos, getPos, taskList, isDone, threadId, threads, wpc, wShard,
          wTask, cpc, cShard, cReq, finished, waitLock, nUpd, prepared,
          refCount, threadIndex, freed, taken, consumed, cType, sent,
          answers>>

queueVars == <<putPos, getPos, taskList, isDone>>
clientVars == <<cpc, cShard, cReq, finished, waitLock>>
writeVars == <<cType, sent, answers>>
updateVars == <<nUpd, prepared, refCount, threadIndex, freed, consumed>>

TypeOK ==
    /\ putPos \in [Shards -> -1 .. QueueSize - 1]
    /\ getPos \in [Shards -> -1 .. QueueSize - 1]
    /\ taskList \in [Shards -> [Slots -> Tasks]]
    /\ isDone \in [Shards -> [Slots -> BOOLEAN]]
    /\ threadId \in [Shards -> Workers]
    /\ threads \in ShardCount .. MaxThreads
    /\ wpc \in [Workers -> {"none", "fetch", "wait", "exec", "exit"}]
    /\ wShard \in [Workers -> Shards]
    /\ wTask \in [Workers -> Tasks]
    /\ cpc \in [Clients -> {"idle", "wait", "timedout", "relock", "outofrange"}]
    /\ cShard \in [Clients -> 0 .. ShardCount]
    /\ cReq \in [Clients -> 0 .. Requests]
    /\ finished \in [Clients -> BOOLEAN]
    /\ waitLock \in [Shards -> Clients \cup {NoHolder}]
    /\ nUpd \in 0 .. MaxUpdates
    /\ prepared \in [Updates -> BOOLEAN]
    /\ refCount \in [Updates -> 0 .. ShardCount]
    /\ threadIndex \in [Updates -> Shards]
    /\ freed \in [Updates -> BOOLEAN]
    /\ taken \subseteq Shards \X Tasks
    /\ consumed \in [Updates -> SUBSET Shards]
    /\ cType \in [Clients -> {"select", "write"}]
    /\ sent \subseteq Shards \X Tasks
    /\ answers \in [Clients -> [1 .. Requests -> Nat]]

\* The state after SQLContext::initialize: queue s has thread id s
\* (setThreadId(i), which also sets m_setThread), and thread i runs shard i.
Init ==
    /\ putPos = [s \in Shards |-> -1]
    /\ getPos = [s \in Shards |-> -1]
    /\ taskList = [s \in Shards |-> [x \in Slots |-> NoTask]]
    /\ isDone = [s \in Shards |-> [x \in Slots |-> TRUE]]
    /\ threadId = [s \in Shards |-> s]
    /\ threads = ShardCount
    /\ wpc = [w \in Workers |-> IF w < ShardCount THEN "fetch" ELSE "none"]
    /\ wShard = [w \in Workers |-> IF w < ShardCount THEN w ELSE 0]
    /\ wTask = [w \in Workers |-> NoTask]
    /\ cpc = [c \in Clients |-> "idle"]
    /\ cShard = [c \in Clients |-> 0]
    /\ cReq = [c \in Clients |-> 0]
    /\ finished = [c \in Clients |-> FALSE]
    /\ waitLock = [s \in Shards |-> NoHolder]
    /\ nUpd = 0
    /\ prepared = [u \in Updates |-> FALSE]
    /\ refCount = [u \in Updates |-> 0]
    /\ threadIndex = [u \in Updates |-> 0]
    /\ freed = [u \in Updates |-> FALSE]
    /\ taken = {}
    /\ consumed = [u \in Updates |-> {}]
    /\ cType = [c \in Clients |-> "select"]
    /\ sent = {}
    /\ answers = [c \in Clients |-> [k \in 1 .. Requests |-> 0]]

(***************************************************************************)
(* The queue, as a record Q of its four fields.                            *)
(***************************************************************************)
Q == [putPos |-> putPos, getPos |-> getPos, taskList |-> taskList,
      isDone |-> isDone]

CommitQueue(q) ==
    /\ putPos' = q.putPos
    /\ getPos' = q.getPos
    /\ taskList' = q.taskList
    /\ isDone' = q.isDone

\* A position advanced without the mask.
NextPosNoMask(pos) == pos + 1

\* (pos + 1) & (QUEUE_SIZE - 1)
NextPos(pos) == (pos + 1) % QueueSize

\* addNewTask writing the slot m_putPos names without advancing it.
addNewTaskNoAdvance(q, s, t) ==
    [q EXCEPT !.taskList[s][q.putPos[s] % QueueSize] = t,
              !.isDone[s][q.putPos[s] % QueueSize] = FALSE]

\* addNewTask(type, data) on queue s: no test for a full ring.
addNewTask(q, s, t) ==
    LET p == NextPos(q.putPos[s]) IN
    [q EXCEPT !.putPos[s] = p,
              !.taskList[s][p] = t,
              !.isDone[s][p] = FALSE]

(***************************************************************************)
(* Worker threads: threadFunc and executeTask.                             *)
(***************************************************************************)

\* fetchTask(threadId) up to its condition wait: a thread whose id is no
\* longer the queue's gets nullptr and threadFunc returns; otherwise it
\* advances m_getPos and takes the slot, or waits on it if it is done.
FetchTask(w) ==
    LET s == wShard[w]
        p == NextPos(getPos[s])
    IN
    /\ wpc[w] = "fetch"
    /\ IF threadId[s] # w
          THEN /\ wpc' = [wpc EXCEPT ![w] = "exit"]
               /\ UNCHANGED <<getPos, isDone, wTask, taken>>
          ELSE /\ getPos' = [getPos EXCEPT ![s] = p]
               /\ IF isDone[s][p]
                     THEN /\ wpc' = [wpc EXCEPT ![w] = "wait"]
                          /\ UNCHANGED <<isDone, wTask, taken>>
                     ELSE /\ isDone' = [isDone EXCEPT ![s][p] = TRUE]
                          /\ wTask' = [wTask EXCEPT ![w] = taskList[s][p]]
                          /\ taken' = taken \cup {<<s, taskList[s][p]>>}
                          /\ wpc' = [wpc EXCEPT ![w] = "exec"]
    /\ UNCHANGED <<putPos, taskList, threadId, threads, wShard>>
    /\ UNCHANGED clientVars
    /\ UNCHANGED updateVars
    /\ UNCHANGED writeVars

\* A wait that returns on any notify, without its predicate.
WakeNoPredicate(w) ==
    LET s == wShard[w]
        p == getPos[s]
    IN
    /\ wpc[w] = "wait"
    /\ isDone' = [isDone EXCEPT ![s][p] = TRUE]
    /\ wTask' = [wTask EXCEPT ![w] = taskList[s][p]]
    /\ taken' = taken \cup {<<s, taskList[s][p]>>}
    /\ wpc' = [wpc EXCEPT ![w] = "exec"]
    /\ UNCHANGED <<putPos, getPos, taskList, threadId, threads, wShard>>
    /\ UNCHANGED clientVars
    /\ UNCHANGED updateVars
    /\ UNCHANGED writeVars

\* The wait's predicate !m_isDone[m_getPos] holds when the thread runs
\* again: it takes the slot m_getPos names now, with no second look at
\* m_threadId.
Wake(w) ==
    LET s == wShard[w]
        p == getPos[s]
    IN
    /\ wpc[w] = "wait"
    /\ ~isDone[s][p]
    /\ isDone' = [isDone EXCEPT ![s][p] = TRUE]
    /\ wTask' = [wTask EXCEPT ![w] = taskList[s][p]]
    /\ taken' = taken \cup {<<s, taskList[s][p]>>}
    /\ wpc' = [wpc EXCEPT ![w] = "exec"]
    /\ UNCHANGED <<putPos, getPos, taskList, threadId, threads, wShard>>
    /\ UNCHANGED clientVars
    /\ UNCHANGED updateVars
    /\ UNCHANGED writeVars

\* setTaskFinish(data, thIndex) of the request t: it locks shard s's wait
\* lock, sets isFinish and notifies.
FinishRequest(s, t) ==
    /\ waitLock[s] = NoHolder
    /\ finished' = [finished EXCEPT ![t.who] = TRUE]
    /\ answers' = [answers EXCEPT ![t.who][t.k] = @ + 1]

\* setTaskFinish(data, thIndex) on a worker, after doSelect or doWrite
setTaskFinish(w) ==
    /\ FinishRequest(wShard[w], wTask[w])
    /\ UNCHANGED <<queueVars, updateVars>>

\* doWrite in read mode with its return after a successful send left out
doWriteNoReturn(w) ==
    \/ ReadMode /\ sent' = sent \cup {<<wShard[w], wTask[w]>>} /\ setTaskFinish(w)
    \/ setTaskFinish(w) /\ UNCHANGED sent

\* doWrite: in read mode the request goes to the write server, and only a
\* failed send() finishes it here; otherwise doInsert, doRemove, doUpdate
\* or doTransaction (abstracted) runs and setTaskFinish follows.
doWrite(w) ==
    \/ /\ ReadMode
       /\ sent' = sent \cup {<<wShard[w], wTask[w]>>}
       /\ UNCHANGED <<queueVars, updateVars, finished, answers>>
    \/ setTaskFinish(w) /\ UNCHANGED sent

\* A prepare that resets the count whether or not the payload is decoded.
prepareAlways(u, s) == <<TRUE, ShardCount, s>>

\* prepareUpdateCacheTaskData: under the update-cache lock, the first shard
\* decodes the payload and sets threadIndex and referCount.
prepareUpdateCacheTaskData(u, s) ==
    IF prepared[u]
       THEN <<TRUE, refCount[u], threadIndex[u]>>
       ELSE <<TRUE, ShardCount, s>>

\* doUpdateCache: prepare, update the affected tables, and
\* referCount.fetch_sub(1), which returns the value before the decrement;
\* at 0 the payload is handed to its shard as a ttFreeUpdateCacheTask.
doUpdateCache(w) ==
    LET s == wShard[w]
        u == wTask[w].k
        pr == prepareUpdateCacheTaskData(u, s)
        c == pr[2]
    IN
    /\ prepared' = [prepared EXCEPT ![u] = pr[1]]
    /\ threadIndex' = [threadIndex EXCEPT ![u] = pr[3]]
    /\ refCount' = [refCount EXCEPT ![u] = c - 1]  \* -1 stands for 2^32 - 1
    /\ consumed' = [consumed EXCEPT ![u] = @ \cup {s}]
    /\ IF c = 0
          THEN CommitQueue(addNewTask(Q, pr[3], FreeTask(u)))
          ELSE UNCHANGED queueVars
    /\ UNCHANGED <<nUpd, freed, finished, sent, answers>>

\* doFreeUpdateCacheTask
doFreeUpdateCacheTask(w) ==
    /\ freed' = [freed EXCEPT ![wTask[w].k] = TRUE]
    /\ UNCHANGED <<queueVars, nUpd, prepared, refCount, threadIndex,
                   consumed, finished, sent, answers>>

\* executeTask (its default arm does nothing), then back to the loop of
\* threadFunc.
ExecuteTask(w) ==
    /\ wpc[w] = "exec"
    /\ CASE wTask[w].type = "select" -> setTaskFinish(w) /\ UNCHANGED sent
         [] wTask[w].type = "write"  -> doWrite(w)
         [] wTask[w].type = "update" -> doUpdateCache(w)
         [] wTask[w].type = "free"   -> doFreeUpdateCacheTask(w)
         [] OTHER -> UNCHANGED <<queueVars, updateVars, finished, sent, answers>>
    /\ wpc' = [wpc EXCEPT ![w] = "fetch"]
    /\ UNCHANGED <<threadId, threads, wShard, wTask, taken>>
    /\ UNCHANGED <<cpc, cShard, cReq, waitLock, cType>>

(***************************************************************************)
(* Client threads: select().                                               *)
(***************************************************************************)

\* TaskQueue::count(): m_putPos - m_getPos of the masked positions
Count(s) == putPos[s] - getPos[s]

\* MOST_BUSY_GAP
MostBusyGap == 10

\* isMostBusy(thIndex): its loop starts at queue 1 and skips thIndex, so
\* queue 0 is never compared, and with one or two queues there is nothing
\* to compare and the answer is true.
isMostBusy(h) == \A i \in 1 .. ShardCount - 1 \ {h} : Count(i) < Count(h) - MostBusyGap

\* balanceChooseForSql(sql) for a sql whose strHash() is h: the next index
\* when h is the busiest, which for the last queue is past the end
balanceChooseForSql(h) == IF isMostBusy(h) THEN h + 1 ELSE h

\* balanceChoose(): the first shard of the least count
balanceChoose ==
    CHOOSE s \in Shards :
      \A t \in Shards : Count(s) < Count(t) \/ (Count(s) = Count(t) /\ s <= t)

\* select() of a sql whose strHash() is h: under the wait lock of the
\* shard balanceChooseForSql picks, the task is added, and wait_for
\* releases the lock.  An index past the shards makes the lock a read past
\* m_waitTaskLocks, undefined behaviour: the client stops there.
Submit(c, h) ==
    LET s == balanceChooseForSql(h) IN
    /\ cpc[c] = "idle"
    /\ cReq[c] < Requests
    /\ cShard' = [cShard EXCEPT ![c] = s]
    /\ cReq' = [cReq EXCEPT ![c] = @ + 1]
    /\ cType' = [cType EXCEPT ![c] = "select"]
    /\ IF s \in Shards
          THEN /\ waitLock[s] = NoHolder
               /\ CommitQueue(addNewTask(Q, s, SelectTask(c, cReq[c] + 1)))
               /\ finished' = [finished EXCEPT ![c] = FALSE]
               /\ cpc' = [cpc EXCEPT ![c] = "wait"]
          ELSE /\ cpc' = [cpc EXCEPT ![c] = "outofrange"]
               /\ UNCHANGED <<queueVars, finished>>
    /\ UNCHANGED <<threadId, threads, wpc, wShard, wTask, taken, waitLock>>
    /\ UNCHANGED <<updateVars, sent, answers>>

\* execUpdate(): the same as select() up to the wait, with a write task on
\* the shard balanceChoose() picks (the reply header is layout).
SubmitWrite(c) ==
    LET s == balanceChoose IN
    /\ cpc[c] = "idle"
    /\ cReq[c] < Requests
    /\ waitLock[s] = NoHolder
    /\ CommitQueue(addNewTask(Q, s, WriteTask(c, cReq[c] + 1)))
    /\ cShard' = [cShard EXCEPT ![c] = s]
    /\ cReq' = [cReq EXCEPT ![c] = @ + 1]
    /\ finished' = [finished EXCEPT ![c] = FALSE]
    /\ cpc' = [cpc EXCEPT ![c] = "wait"]
    /\ cType' = [cType EXCEPT ![c] = "write"]
    /\ UNCHANGED <<threadId, threads, wpc, wShard, wTask, taken, waitLock>>
    /\ UNCHANGED <<updateVars, sent, answers>>

\* wait_for returns with its predicate data.isFinish true: the lock is
\* taken back, released at the end of the block, and select() returns.
Return(c) ==
    /\ cpc[c] = "wait"
    /\ finished[c]
    /\ waitLock[cShard[c]] = NoHolder
    /\ cpc' = [cpc EXCEPT ![c] = "idle"]
    /\ UNCHANGED <<queueVars, threadId, threads, wpc, wShard, wTask, taken>>
    /\ UNCHANGED <<cShard, cReq, finished, waitLock>>
    /\ UNCHANGED <<updateVars, writeVars>>

\* wait_for returns false after MAX_READ_TASK_TIME: the thread holds the
\* wait lock again and the task is not finished.
TimeOut(c) ==
    /\ cpc[c] = "wait"
    /\ ~finished[c]
    /\ waitLock[cShard[c]] = NoHolder
    /\ waitLock' = [waitLock EXCEPT ![cShard[c]] = c]
    /\ cpc' = [cpc EXCEPT ![c] = "timedout"]
    /\ UNCHANGED <<queueVars, threadId, threads, wpc, wShard, wTask, taken>>
    /\ UNCHANGED <<cShard, cReq, finished>>
    /\ UNCHANGED <<updateVars, writeVars>>

\* addTaskThread(index), with the wait lock still held: setThreadId gives
\* the queue the id m_threads.size() if CREATE_THREAD_INVERVAL has passed
\* since the last one (a clock the model leaves open), and then a thread
\* starts on the shard with that id.  Next, select() constructs lk2 on the
\* wait lock it already holds: the thread blocks there for good ("relock"
\* has no step).  execUpdate in read mode skips addTaskThread.
AddTaskThread(c) ==
    LET s == cShard[c] IN
    /\ cpc[c] = "timedout"
    /\ \E ok \in BOOLEAN :
         /\ ok => threads < MaxThreads /\ (cType[c] = "select" \/ ~ReadMode)
         /\ IF ok
               THEN /\ threadId' = [threadId EXCEPT ![s] = threads]
                    /\ wpc' = [wpc EXCEPT ![threads] = "fetch"]
                    /\ wShard' = [wShard EXCEPT ![threads] = s]
                    /\ threads' = threads + 1
               ELSE UNCHANGED <<threadId, wpc, wShard, threads>>
    /\ cpc' = [cpc EXCEPT ![c] = "relock"]
    /\ UNCHANGED <<queueVars, wTask, taken>>
    /\ UNCHANGED <<cShard, cReq, finished, waitLock>>
    /\ UNCHANGED <<updateVars, writeVars>>

(***************************************************************************)
(* The network thread: syncWrite and addUpdateCacheTask.                   *)
(***************************************************************************)

\* addUpdateCacheTask: one task per shard (a transaction's batch of
\* several payloads is left out)
AddUpdateCacheTask ==
    LET u == nUpd + 1
        p == [s \in Shards |-> NextPos(putPos[s])]
    IN
    /\ nUpd < MaxUpdates
    /\ nUpd' = u
    /\ refCount' = [refCount EXCEPT ![u] = ShardCount]
    /\ putPos' = p
    /\ taskList' = [s \in Shards |-> [taskList[s] EXCEPT ![p[s]] = UpdateTask(u)]]
    /\ isDone' = [s \in Shards |-> [isDone[s] EXCEPT ![p[s]] = FALSE]]
    /\ UNCHANGED <<getPos, threadId, threads, wpc, wShard, wTask, taken>>
    /\ UNCHANGED <<prepared, threadIndex, freed, consumed>>

\* syncWrite (read mode): the write server's whole answer names the
\* request and its thIndex; an updateCount above 0 first broadcasts the
\* update data, then setTaskFinish.  The two are one step here: the network
\* thread takes no other step between them.
WriteAnswer ==
    \E a \in sent :
      /\ sent' = sent \ {a}
      /\ FinishRequest(a[1], a[2])
      /\ \/ AddUpdateCacheTask
         \/ UNCHANGED <<queueVars, updateVars>>
      /\ UNCHANGED <<threadId, threads, wpc, wShard, wTask, taken>>
      /\ UNCHANGED <<cpc, cShard, cReq, waitLock, cType>>

Next ==
    \/ \E w \in Workers : FetchTask(w) \/ Wake(w) \/ ExecuteTask(w)
    \/ \E c \in Clients :
          \/ \E h \in SqlHashes : Submit(c, h)
          \/ SubmitWrite(c)
          \/ Return(c) \/ TimeOut(c) \/ AddTaskThread(c)
    \/ WriteAnswer

\* Every thread that can go on is scheduled again: weak fairness for each
\* worker's steps, for a client whose wait has ended, and for the network
\* thread with an answer of the write server to handle (the server is
\* taken to answer every write it receives).  Timeouts, new requests and
\* broadcasts are the environment's choice and are not fair.
Fairness ==
    /\ \A w \in Workers : WF_vars(FetchTask(w) \/ Wake(w) \/ ExecuteTask(w))
    /\ \A c \in Clients : WF_vars(Return(c))
    /\ WF_vars(WriteAnswer)

Spec == Init /\ [][Next]_vars /\ Fairness

(***************************************************************************)
(* Properties.                                                             *)
(***************************************************************************)

\* fetchTask never hands out a task of a shard's queue that a worker has
\* already taken: the wait's predicate, re-evaluated by each of the old and
\* the new worker after notify_all, and the ring's wrap keep every task to
\* one fetch.
TakeOnceStep ==
    \A w \in Workers :
        (wpc[w] # "exec" /\ wpc'[w] = "exec")
            => <<wShard[w], wTask'[w]>> \notin taken
\* No task of a queue is fetched twice, at any step of any worker.
TakeOnce == [][TakeOnceStep]_vars

\* The reference count of a broadcast payload is the number of shards that
\* have not yet run doUpdateCache on it: prepareUpdateCacheTaskData, run by
\* every shard under the update-cache lock, sets it only once.
RefCountMatches ==
    \A u \in 1 .. nUpd : refCount[u] + Cardinality(consumed[u]) = ShardCount

\* Every write request is finished at most once: by doWrite on its worker,
\* or, in read mode once it is sent, by the write server's answer in
\* onWriteServerData, never by both (setTaskFinish on the client's stack
\* data).
AnsweredOnce == \A c \in Clients : \A k \in 1 .. Requests : answers[c][k] <= 1

\* The task of a client's current request.
RequestTask(c) ==
    IF cType[c] = "select" THEN SelectTask(c, cReq[c]) ELSE WriteTask(c, cReq[c])

\* The slot the next fetch of shard s looks at: m_getPos itself while a
\* worker waits on it (the wait re-reads m_getPos), else the slot after it.
FetchStart(s) ==
    IF \E w \in Workers : wpc[w] = "wait" /\ wShard[w] = s
       THEN getPos[s] ELSE NextPos(getPos[s])

\* Slot x of shard s is still ahead of the fetches: every slot from the
\* fetch start round to x holds an unfetched task, so fetchTask reaches x
\* without waiting on a done slot first.
Queued(s, x) ==
    LET d == (x - FetchStart(s)) % QueueSize IN
    \A k \in 0 .. d : ~isDone[s][(FetchStart(s) + k) % QueueSize]

\* A request a client is still waiting for is never lost: until it is
\* finished it sits in its shard's ring where the fetches will reach it,
\* or a worker of that shard is executing it, or it is at the write server
\* awaiting its answer.  A ring slot overwritten before it is fetched
\* (addNewTask has no test for a full ring), a fetch that moves m_getPos
\* past an unfetched task (a second thread of the shard, or a fetch that
\* does not wait on a done slot), would leave the client waiting on
\* nothing.
NoLostRequest ==
    \A c \in Clients :
        LET s == cShard[c]
            t == RequestTask(c)
        IN
        (cpc[c] = "wait" /\ ~finished[c]) =>
            \/ \E x \in Slots : taskList[s][x] = t /\ Queued(s, x)
            \/ \E w \in Workers : wpc[w] = "exec" /\ wShard[w] = s /\ wTask[w] = t
            \/ <<s, t>> \in sent

\* select() locks and queues on one of the shards: the index
\* balanceChooseForSql() returns is below m_threadCnt (its comment: "linear
\* probing, thIndex + 1 must not be the most busy").
SelectShardInRange == \A c \in Clients : cShard[c] \in Shards

\* A select() that has added its task returns (spec: a caller waiting past
\* the ceiling starts a replacement worker, and gives up waiting).
SelectReturns == \A c \in Clients : cpc[c] = "wait" ~> cpc[c] = "idle"

\* The payload of every broadcast is freed once all shards have consumed
\* it (doUpdateCache's test of the fetch_sub result).
PayloadFreed == \A u \in Updates : nUpd >= u ~> freed[u]

====
