------------------------------- MODULE MCShard -------------------------------
(***************************************************************************)
(* The two halves of a read server's worker threads in one model-checking *)
(* module, chosen by kind: "pool" follows the task queues, the worker     *)
(* threads and their clients (TaskPool), "table" one thread's container   *)
(* of cached result tables (TableContainer), the state the select and     *)
(* update-cache tasks a worker fetches run on.  The half a behaviour does *)
(* not follow stays at its initial state.                                  *)
(***************************************************************************)
EXTENDS Integers, Sequences, TLC

CONSTANTS
    ShardCount, Clients, QueueSize, Requests, MaxThreads, MaxUpdates,
    NoHolder, ReadMode, SqlHashes,
    CompressRangeP, MaxTables, MaxVisits, MaxResets, SoftOutcomes,
    HardOutcomes, IndexOp, DoubleMaxCast

VARIABLES
    putPos, getPos, taskList, isDone, threadId, threads, wpc, wShard, wTask,
    cpc, cShard, cReq, finished, waitLock, nUpd, prepared, refCount,
    threadIndex, freed, taken, consumed, cType, sent, answers,
    tables, isCompress, visits, lastId, oob, crashed, vertex, vindex, op,
    resets,
    kind

MV == INSTANCE MyVariant

\* the parameter keys as numbers, so that clearTable() can visit them in
\* the order of std::map
MCKeys == {1, 2, 3}

\* the indexed field's parameter of each key as it arrives: keys 1 and 2
\* bind 1 as a pdtInt and differ in another parameter only; key 3 binds 2
\* as a pdtLong
MCWireParams == [k \in MCKeys |->
                   IF k < 3 THEN <<[type |-> MV!pdtInt, null |-> FALSE, raw |-> 1]>>
                   ELSE <<[type |-> MV!pdtLong, null |-> FALSE, raw |-> 2]>>]

\* the parameters readParams() builds from them
MCKeyParams == [k \in MCKeys |-> MV!ReadParams(MCWireParams[k]).params]

\* the indexed field of a changed row is an INT column:
\* SQLNormalRecord::value() gives an int32_t
MCValues == {MV!Variant(MV!mvtInt32, x) : x \in 1 .. 3}

TP == INSTANCE TaskPool
TC == INSTANCE TableContainer WITH Keys <- MCKeys, KeyParams <- MCKeyParams,
                                   Values <- MCValues

poolVars == <<putPos, getPos, taskList, isDone, threadId, threads, wpc, wShard,
              wTask, cpc, cShard, cReq, finished, waitLock, nUpd, prepared,
              refCount, threadIndex, freed, taken, consumed, cType, sent,
              answers>>
tableVars == <<tables, isCompress, visits, lastId, oob, crashed, vertex, vindex,
               op, resets>>
allVars == <<poolVars, tableVars, kind>>

MCInit == /\ TP!Init /\ TC!Init
          /\ kind \in {"pool", "table"}
MCNext == /\ \/ kind = "pool" /\ TP!Next /\ UNCHANGED tableVars
             \/ kind = "table" /\ TC!Next /\ UNCHANGED poolVars
          /\ UNCHANGED kind
MCSpec == MCInit /\ [][MCNext]_allVars

\* Clients are interchangeable: no step looks at which client it is.
ClientSymmetry == Permutations(Clients)

\* Type correctness of both halves.
TypeOK == /\ kind \in {"pool", "table"}
          /\ kind = "pool" => TP!TypeOK
          /\ kind = "table" => TC!TypeOK

\* TaskPool's properties, of the behaviours of kind "pool".

\* The payload of a broadcast update is referenced by as many shards as
\* have not yet run it (TaskPool!RefCountMatches).
RefCountMatches == kind = "pool" => TP!RefCountMatches
\* Every select or write is answered at most once (TaskPool!AnsweredOnce).
AnsweredOnce == kind = "pool" => TP!AnsweredOnce
\* A request whose client still waits is queued where the fetches of its
\* shard reach it, running, or sent to the write server
\* (TaskPool!NoLostRequest): fetchTask's unguarded wake and a replacement
\* thread's fetch must not move m_getPos past it.
NoLostRequest == kind = "pool" => TP!NoLostRequest
\* No task is taken from a queue twice (TaskPool!TakeOnce).
TakeOnce == [][kind = "pool" => TP!TakeOnceStep]_allVars

\* TableContainer's properties, of the behaviours of kind "table".

\* A key stays mapped to the table holding its rows (TableContainer!KeyStable).
KeyStable == kind = "table" => TC!KeyStable
\* The vertex index returns every table a changed row matches
\* (TableContainer!IndexComplete).
IndexComplete == kind = "table" => TC!IndexComplete
\* freeTables() keeps the range of the table a select used
\* (TableContainer!HotRangeKept).
HotRangeKept == [][kind = "table" => TC!HotRangeKeptStep]_allVars

\* A worker thread never touches memory it does not own: the queue index
\* select() takes from balanceChooseForSql() is below m_threadCnt
\* (TaskPool!SelectShardInRange), and the table container never
\* dereferences a null or recycled m_tables slot (TableContainer's crashed:
\* uncompressTables on a range freeTables() emptied, a key left mapped to
\* a slot uncompressTables() skipped).
NoFault == /\ kind = "pool" => TP!SelectShardInRange
           /\ kind = "table" => ~crashed
====
