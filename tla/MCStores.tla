------------------------------ MODULE MCStores ------------------------------
(***************************************************************************)
(* A shard's MemoryManager and the two record stores it owns, checked    *)
(* side by side: Arena (its size-class lists), VarStore (varMemory(), the *)
(* variable-length values) and ArrayStore (arrayMemory(), the fixed-length*)
(* rows).  kind says which one a behaviour follows; the variables of the  *)
(* others keep fixed values, the arena's its initial ones.                *)
(***************************************************************************)
EXTENDS Integers

CONSTANT Nil

VARIABLES
    size, body, readPos, writePos, headCursor, dataCursor, maxId, held,
    slot, firstId, varCount, swap, maxBigId, bigVars, inPush, swapOpen,
    pushTask, overrun, retired,
    reuse, lastId, opData, thrown, wild, resets,
    first, last, prev, next, idle, total, blocks, inUse, asked,
    kind

\* Blocks of 12 bytes (6 of header, so a block holds one record of 3
\* bytes or two of 1), runs of 2 blocks, three small sets and one big one.
VS == INSTANCE VarStore WITH
        BlockBytes <- 12, HeaderBytes <- 6, CompressRange <- 2, PushRange <- 4,
        InitBlocks <- 2, MaxBlocks <- 3, BigMinId <- 32, MaxSmallSets <- 3,
        MaxBigSets <- 1, FreshFirstId <- 0, Lens <- {4, 7}, RewriteLens <- {3},
        Tags <- {1}, SoftOutcomes <- {FALSE, TRUE}, HardOutcomes <- {FALSE, TRUE}

\* Blocks of 20 bytes hold two 4-byte rows each (8 header bytes, 2 per
\* length entry), so rows spread over three blocks; a block with one row
\* recycled has 12 bytes free and joins the reuse list (limit 5).  One
\* kind of content, four ids between resets and one reset.
AS == INSTANCE ArrayStore WITH
        BlockBytes <- 20, HeaderBytes <- 8, ReuseLimit <- 5, InitBlocks <- 1,
        MaxBlocks <- 3, MaxAllocs <- 4, MaxResets <- 1, Lens <- {4}, Tags <- {1},
        CompressRange <- 2, PushRange <- 4, SoftOutcomes <- {FALSE},
        HardOutcomes <- {FALSE}

\* Blocks of 14 bytes hold one 4-byte row each, so the third row appends
\* the third block and the limit tests may then compress the run of the
\* first two and push it; the search brings it back.
AC == INSTANCE ArrayStore WITH
        BlockBytes <- 14, HeaderBytes <- 8, ReuseLimit <- 5, InitBlocks <- 1,
        MaxBlocks <- 3, MaxAllocs <- 3, MaxResets <- 0, Lens <- {4}, Tags <- {1},
        CompressRange <- 2, PushRange <- 4, SoftOutcomes <- {FALSE, TRUE},
        HardOutcomes <- {FALSE, TRUE}

\* Requests just below and at the limits of the classes of 16 and 65536
\* bytes (with the 17-byte header), and one big one; two nodes a block.
AR == INSTANCE Arena WITH
        RequestSizes <- {15, 16, 65519, 65520}, NodesPerBlock <- 2,
        MaxBlocks <- 1, MaxBig <- 1

varOnly == <<firstId, varCount, maxBigId, bigVars, overrun, retired>>
arrayOnly == <<reuse, lastId, opData, thrown, wild, resets>>
arenaVars == <<first, last, prev, next, idle, total, blocks, inUse, asked>>
storeVars == <<size, body, readPos, writePos, headCursor, dataCursor, maxId,
               held, slot, swap, inPush, swapOpen, pushTask>>
allVars == <<storeVars, varOnly, arrayOnly, arenaVars, kind>>

NoArrayStore == /\ reuse = 0 /\ lastId = 0 /\ opData = 0 /\ thrown = 0
                /\ wild = 0 /\ resets = 0
NoVarStore == /\ firstId = 0 /\ varCount = 0 /\ maxBigId = 0 /\ bigVars = 0
              /\ overrun = 0 /\ retired = 0
NoStore == /\ size = 0 /\ body = 0 /\ readPos = 0 /\ writePos = 0
           /\ headCursor = 0 /\ dataCursor = 0 /\ maxId = 0 /\ held = 0
           /\ slot = 0 /\ swap = 0 /\ inPush = 0 /\ swapOpen = 0
           /\ pushTask = 0

MCInit ==
    \/ kind = "var" /\ VS!Init /\ NoArrayStore /\ AR!Init
    \/ kind = "array" /\ AS!Init /\ NoVarStore /\ AR!Init
    \/ kind = "arrayc" /\ AC!Init /\ NoVarStore /\ AR!Init
    \/ kind = "arena" /\ AR!Init /\ NoStore /\ NoVarStore /\ NoArrayStore

\* The array store's actions are listed one by one.  AS never reaches the
\* hard limit, so it queues no ttPushBlock task, and AC has no reset: the
\* two actions are disabled under their bounds and are left out.
MCNext ==
    \/ kind = "var" /\ VS!Next /\ UNCHANGED <<arrayOnly, arenaVars, kind>>
    \/ kind = "array" /\ AS!NewRecord /\ UNCHANGED <<varOnly, arenaVars, kind>>
    \/ kind = "array" /\ AS!SetValue /\ UNCHANGED <<varOnly, arenaVars, kind>>
    \/ kind = "array" /\ AS!ReadRecord /\ UNCHANGED <<varOnly, arenaVars, kind>>
    \/ kind = "array" /\ AS!FreeRecord /\ UNCHANGED <<varOnly, arenaVars, kind>>
    \/ kind = "array" /\ AS!ResetStore /\ UNCHANGED <<varOnly, arenaVars, kind>>
    \/ kind = "arrayc" /\ AC!NewRecord /\ UNCHANGED <<varOnly, arenaVars, kind>>
    \/ kind = "arrayc" /\ AC!SetValue /\ UNCHANGED <<varOnly, arenaVars, kind>>
    \/ kind = "arrayc" /\ AC!ReadRecord /\ UNCHANGED <<varOnly, arenaVars, kind>>
    \/ kind = "arrayc" /\ AC!FreeRecord /\ UNCHANGED <<varOnly, arenaVars, kind>>
    \/ kind = "arrayc" /\ AC!RunPushBlock /\ UNCHANGED <<varOnly, arenaVars, kind>>
    \/ kind = "arena" /\ AR!Next
       /\ UNCHANGED <<storeVars, varOnly, arrayOnly, kind>>

MCSpec == MCInit /\ [][MCNext]_allVars

\* Type correctness of the three components.
TypeOK == /\ kind \in {"var", "array", "arrayc", "arena"}
          /\ kind = "var" => VS!TypeOK
          /\ kind = "array" => AS!TypeOK
          /\ kind = "arrayc" => AC!TypeOK
          /\ AR!TypeOK

\* Compression skips the hot block: the block VarMemoryManager::set()
\* appends to is never compressed, pushed or replaced by a decompression.
WriteBlockLive == kind = "var" => VS!WriteBlockLive

FreeChain == AR!FreeChain

\* The size-class loop of allocate() gives every caller a node of an
\* existing class whose data part holds what it asked for.
ClassFits == AR!ClassFits

====
