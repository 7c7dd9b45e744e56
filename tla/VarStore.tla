------------------------------ MODULE VarStore ------------------------------
(***************************************************************************)
(* The variable-length record store of one shard (VarMemoryManager.cpp).  *)
(* Blocks are byte buffers: a 6-byte header {firstId, varCount}, a length  *)
(* table growing forward from the header (u16 per record, id order) and a  *)
(* data region growing backward from the end.  Payload and length entries  *)
(* are kept as bytes so that a cursor pointing at the wrong place, or a    *)
(* length entry overwritten by payload, shows up as a wrong read.  Runs of *)
(* CompressRange blocks are compressed into one blob (the contents are     *)
(* kept, the slots are marked), and pushed to the swap file by a task that *)
(* the shard's worker runs from its own queue.  Every operation is one     *)
(* step: the shard's worker runs them one at a time.                       *)
(***************************************************************************)
EXTENDS Integers, Sequences, FiniteSets, Functions

CONSTANTS
    BlockBytes,     \* m_blockByteCount (the Arena's regular limit, 65536)
    HeaderBytes,    \* sizeof(VarBlockHeader) = 6 (pack(1))
    CompressRange,  \* COMPRESS_RANGE (128)
    PushRange,      \* PUSH_RANGE: ranges pushed per task invocation (1024)
    InitBlocks,     \* MIN_BLOCK_LENGTH: blocks allocated by initialize() (100)
    MaxBlocks,      \* bound on m_blocks.size()
    BigMinId,       \* BIG_VAR_MIN_ID (0x8000)
    MaxSmallSets,   \* bound on the number of block records set
    MaxBigSets,     \* bound on the number of big values set
    FreshFirstId,   \* firstId read from a block that initialize() never wrote
    Lens,           \* lengths of the values passed to set(data)
    RewriteLens,    \* lengths of the values passed to set(id, data)
    Tags,           \* byte a value is made of (values differ by their bytes)
    SoftOutcomes,   \* outcomes of `m_used > varMemoryLimit()`
    HardOutcomes    \* outcomes of `m_used > varMemoryPushLimit()`

ASSUME /\ HeaderBytes = 6
       /\ BlockBytes > HeaderBytes + 2
       /\ CompressRange >= 2 /\ PushRange >= 1
       \* 100 preallocated blocks never span a whole compression range of 128
       /\ 1 <= InitBlocks /\ InitBlocks <= CompressRange
       /\ InitBlocks <= MaxBlocks
       /\ Tags \subseteq 1..255
       /\ SoftOutcomes \subseteq BOOLEAN /\ HardOutcomes \subseteq BOOLEAN

ERROR_ID == 0
MaxVarLength == BlockBytes - HeaderBytes - 2          \* MAX_VAR_LENGTH
Blocks == 0 .. MaxBlocks - 1
Offsets == 0 .. BlockBytes - 1
Bytes == 0 .. 255
BigIds == BigMinId .. BigMinId + MaxBigSets - 1
Values == [len : Lens \cup RewriteLens \cup {0}, tag : Tags]
NoBig == [len |-> -1, tag |-> 0]
Empty == [len |-> 0, tag |-> CHOOSE g \in Tags : TRUE]
\* the bytes of a value
ValueBytes(v) == [i \in 1 .. v.len |-> v.tag]
\* what get() hands back when the big-value path dereferences a length byte
\* as a pointer: the process faults instead of returning bytes
Crash == <<-1>>
ZeroBody == [o \in Offsets |-> 0]
\* a block image as the swap file holds it
Image == [fid : Nat, cnt : Nat, body : [Offsets -> Bytes]]
ZeroImage == [fid |-> 0, cnt |-> 0, body |-> ZeroBody]
\* m_dataCursor: a block and an offset; blk = -1 once that memory is recycled
Cursor == [blk : -1 .. MaxBlocks - 1, off : Int]

VARIABLES
    size,        \* m_blocks.size()
    slot,        \* m_blocks[i]: "live" block, "blob" (compressed run), "null"
    firstId,     \* header firstId of each block
    varCount,    \* header varCount of each block
    body,        \* bytes of each block (length table and data region)
    swap,        \* the swap file, in block-sized images by position
    readPos,     \* m_readPos
    writePos,    \* m_writePos
    headCursor,  \* m_headCursor, an offset in block writePos
    dataCursor,  \* m_dataCursor
    maxId,       \* m_maxId
    maxBigId,    \* m_maxBigId
    bigVars,     \* m_bigVars
    inPush,      \* m_inPush
    swapOpen,    \* m_swap != nullptr
    pushTask,    \* the ttPushBlock task waiting in the shard's queue
    overrun,     \* a write went past the block it was meant for
    held,        \* ids the callers hold, with the value they wrote (ghost)
    retired      \* ids a rewrite replaced by a new id (ghost)

store == <<size, slot, firstId, varCount, body, swap, readPos, writePos,
           headCursor, dataCursor, maxId, maxBigId, bigVars, inPush,
           swapOpen, pushTask, overrun>>
vars == <<store, held, retired>>

\* The store as one record, so that a handler that calls helpers in
\* sequence is a composition of functions on it.
S == [size |-> size, slot |-> slot, firstId |-> firstId,
      varCount |-> varCount, body |-> body, swap |-> swap,
      readPos |-> readPos, writePos |-> writePos, headCursor |-> headCursor,
      dataCursor |-> dataCursor, maxId |-> maxId, maxBigId |-> maxBigId,
      bigVars |-> bigVars, inPush |-> inPush, swapOpen |-> swapOpen,
      pushTask |-> pushTask, overrun |-> overrun]

\* F applied to the value v, which is evaluated once
Bind(v, F(_)) == CHOOSE r \in {F(x) : x \in {v}} : TRUE

Commit(t) ==
    /\ size' = t.size /\ slot' = t.slot /\ firstId' = t.firstId
    /\ varCount' = t.varCount /\ body' = t.body /\ swap' = t.swap
    /\ readPos' = t.readPos /\ writePos' = t.writePos
    /\ headCursor' = t.headCursor /\ dataCursor' = t.dataCursor
    /\ maxId' = t.maxId /\ maxBigId' = t.maxBigId /\ bigVars' = t.bigVars
    /\ inPush' = t.inPush /\ swapOpen' = t.swapOpen
    /\ pushTask' = t.pushTask /\ overrun' = t.overrun

-----------------------------------------------------------------------------
(* Bytes of a block.                                                       *)

\* a u16 stored little-endian
U16Bytes(n) == << n % 256, (n \div 256) % 256 >>
\* memcpy of bs to offset off; bytes outside the block are lost
Put(m, off, bs) ==
    [o \in Offsets |-> IF off <= o /\ o < off + Len(bs) THEN bs[o - off + 1]
                                                       ELSE m[o]]
\* the copy leaves the block's length table and data region
OutOfBlock(off, n) == n > 0 /\ (off < HeaderBytes \/ off + n > BlockBytes)
ByteAt(m, o) == IF o \in Offsets THEN m[o] ELSE 0
\* the k-th entry of a block's length table
LenAt(m, k) == ByteAt(m, HeaderBytes + 2 * k)
               + 256 * ByteAt(m, HeaderBytes + 2 * k + 1)
\* sum of the length entries with index in ks, as the u16 the code adds in
LenSum(m, ks) == SumFunctionOnSet([k \in ks |-> LenAt(m, k)], ks) % 65536

Header(t, x) ==
    IF t.slot[x] = "blob"
    THEN [fid |-> t.firstId[x],
          cnt |-> SumFunctionOnSet(t.varCount, x .. x + CompressRange - 1)
                  % 65536]
    ELSE [fid |-> t.firstId[x], cnt |-> t.varCount[x]]
\* m_blocks[x] is a non-null pointer
NonNull(t, x) == x \in 0 .. t.size - 1 /\ t.slot[x] # "null"
\* the memory of blocks xs goes back to the Arena; a cursor into it dangles
Free(t, xs) ==
    IF t.dataCursor.blk \in xs
    THEN [t EXCEPT !.dataCursor.blk = -1] ELSE t

-----------------------------------------------------------------------------
(* Growing, compressing and pushing blocks.                                *)

\* (mutant) the loop bound without the `- 1` that spares the last block
CompressibleAll(t) ==
    {i \in {k * CompressRange : k \in 0 .. MaxBlocks} :
        /\ i + CompressRange <= t.size
        /\ t.slot[i] # "null" /\ t.slot[i + 1] # "null"}

\* compressBlock(): every aligned run that is not the last one and is
\* neither pushed (first slot null) nor compressed (second slot null)
Compressible(t) ==
    {i \in {k * CompressRange : k \in 0 .. MaxBlocks} :
        /\ i + CompressRange <= t.size - 1
        /\ t.slot[i] # "null" /\ t.slot[i + 1] # "null"}

CompressBlock(t) ==
    LET runs == Compressible(t)
        inRun == {i + j : i \in runs, j \in 0 .. CompressRange - 1}
        t1 == [t EXCEPT !.slot = [x \in Blocks |->
                            IF x \in runs THEN "blob"
                            ELSE IF x \in inRun THEN "null" ELSE @[x]]]
    IN Free(t1, inRun)

\* preparePushBlock(): a new swap file and one ttPushBlock task
PreparePushBlock(t) ==
    IF t.inPush THEN t
    ELSE [t EXCEPT !.inPush = TRUE, !.swapOpen = TRUE,
                   !.swap = [x \in Blocks |-> ZeroImage],
                   !.pushTask = [on |-> TRUE, start |-> 0, total |-> t.size]]

\* assureNewBlock(): move to the next block, appending one at the end;
\* soft and hard are the outcomes of the two memory-limit tests
AssureNewBlock(t, soft, hard) ==
    LET w == t.writePos + 1
        fresh == w >= t.size
        t1 == [t EXCEPT !.writePos = w,
                        !.size = IF fresh THEN @ + 1 ELSE @,
                        !.slot[w] = IF fresh THEN "live" ELSE @,
                        !.firstId[w] = IF fresh THEN FreshFirstId ELSE @,
                        !.body[w] = IF fresh THEN ZeroBody ELSE @,
                        !.varCount[w] = 0,
                        !.headCursor = HeaderBytes,
                        !.dataCursor = [blk |-> w, off |-> BlockBytes]]
        t2 == IF soft THEN CompressBlock(t1) ELSE t1
    IN IF soft /\ hard THEN PreparePushBlock(t2) ELSE t2

\* the outcomes of `data.len > m_dataCursor - m_headCursor + 2`: when the
\* data cursor is in another block than the head cursor the difference of
\* the two pointers is that of two unrelated Arena nodes
GrowOutcomes(t, len) ==
    IF t.dataCursor.blk = t.writePos
    THEN {len > t.dataCursor.off - t.headCursor + 2}
    ELSE BOOLEAN

\* set(data) for data.len <= MAX_VAR_LENGTH, after the gap test chose grow
SetSmall(t, v, grow, soft, hard) ==
    LET t1 == IF grow THEN AssureNewBlock(t, soft, hard) ELSE t
        w == t1.writePos
        d == t1.dataCursor
        doff == d.off - v.len
        \* the length entry goes to the head cursor's block
        b1 == [t1.body EXCEPT ![w] = Put(@, t1.headCursor, U16Bytes(v.len))]
        \* the payload goes wherever the data cursor points
        live == d.blk # -1 /\ t1.slot[d.blk] = "live"
        b2 == IF live THEN [b1 EXCEPT ![d.blk] = Put(@, doff, ValueBytes(v))]
              ELSE b1
    IN [t1 EXCEPT
          !.firstId[w] = IF t1.varCount[w] = 0 THEN t1.maxId ELSE @,
          !.varCount[w] = @ + 1,
          !.body = b2,
          !.headCursor = @ + 2,
          !.dataCursor.off = doff,
          !.maxId = @ + 1,
          !.overrun = @ \/ OutOfBlock(t1.headCursor, 2)
                        \/ (live /\ OutOfBlock(doff, v.len))]

\* (mutant) the big value stored without advancing m_maxBigId

\* set(data) for data.len > MAX_VAR_LENGTH: a dedicated Arena node
SetBig(t, v) ==
    [t EXCEPT !.bigVars[t.maxBigId] = v, !.maxBigId = @ + 1]

\* the block images of x .. x + CompressRange - 1
RunImages(t, x) ==
    [j \in 0 .. CompressRange - 1 |->
        [fid |-> t.firstId[x + j], cnt |-> t.varCount[x + j],
         body |-> t.body[x + j]]]

\* SwapFile::write(pos, mem, len): the images land at block positions pos
\* onward.  The file is made (blocks - 1) blocks long, rounded up to the
\* 1 GiB view, so the bound check never fails; which view is mapped
\* around pos is left out.
SwapWrite(file, pos, img) ==
    [x \in Blocks |-> IF x - pos \in DOMAIN img THEN img[x - pos] ELSE file[x]]

\* SwapFile::read(pos, mem, len) of the image at block position y
SwapRead(file, y) == file[y]

\* pushBlock(): one range, compressed or not, written at block position pos
SpillRange(t, i, pos) ==
    LET run == i .. i + CompressRange - 1
        t1 == [t EXCEPT
                 !.swap = SwapWrite(t.swap, pos, RunImages(t, i)),
                 !.slot = [x \in Blocks |-> IF x \in run THEN "null" ELSE @[x]]]
    IN Free(t1, run)

\* the for loop of pushBlock(): pos advances only for a range it writes
RECURSIVE PushLoop(_, _, _, _)
PushLoop(t, i, pos, count) ==
    IF \/ i >= t.pushTask.total
       \/ i + CompressRange > t.pushTask.total - 1
       \/ count + 1 > PushRange
    THEN t
    ELSE LET pushed == t.slot[i] = "null"
         IN PushLoop(IF pushed THEN t ELSE SpillRange(t, i, pos),
                     i + CompressRange,
                     IF pushed THEN pos ELSE pos + CompressRange, count + 1)

\* `data->start += 1 >> (COMPRESS_RANGE_P + PUSH_RANGE_P)`
NextStart(start) == start + (1 \div 2 ^ (7 + 10))

\* pushBlock(data): end the push if the store was reset, else write ranges
\* and either finish or enqueue the task again
PushBlock(t) ==
    IF ~t.swapOpen
    THEN [t EXCEPT !.inPush = FALSE, !.pushTask.on = FALSE]
    ELSE LET t1 == PushLoop(t, t.pushTask.start,
                            t.pushTask.start, 0)
             st == NextStart(t.pushTask.start)
         IN IF st + CompressRange > t.pushTask.total - 1
            THEN [t1 EXCEPT !.inPush = FALSE, !.pushTask.on = FALSE]
            ELSE [t1 EXCEPT !.pushTask.start = st]

\* pullBlock(index): every position of the run is inside the swap file
\* (its size is rounded up to the 1 GiB view), so every tryRead succeeds
PullBlock(t, x) ==
    LET run == {y \in x .. x + CompressRange - 1 : y < t.size}
    IN [t EXCEPT
          !.slot = [y \in Blocks |-> IF y \in run THEN "live" ELSE @[y]],
          !.firstId = [y \in Blocks |-> IF y \in run THEN SwapRead(t.swap, y).fid ELSE @[y]],
          !.varCount = [y \in Blocks |-> IF y \in run THEN SwapRead(t.swap, y).cnt ELSE @[y]],
          !.body = [y \in Blocks |-> IF y \in run THEN SwapRead(t.swap, y).body ELSE @[y]]]

\* uncompressBlock(index): a blob comes back as its run.  Called on a live
\* block (its successor is null because it was pushed), the 4 bytes after
\* the header are taken as the compressed length and the decompression of
\* garbage yields nothing: the run's slots get new nodes of unknown bytes
\* (here zeros) and the live block is recycled.
UncompressBlock(t, x) ==
    LET run == {y \in x .. x + CompressRange - 1 : y < t.size}
    IN IF t.slot[x] = "blob"
       THEN [t EXCEPT
               !.slot = [y \in Blocks |-> IF y \in run THEN "live" ELSE @[y]]]
       ELSE Free([t EXCEPT
               !.slot = [y \in Blocks |-> IF y \in run THEN "live" ELSE @[y]],
               !.firstId = [y \in Blocks |-> IF y \in run THEN 0 ELSE @[y]],
               !.varCount = [y \in Blocks |-> IF y \in run THEN 0 ELSE @[y]],
               !.body = [y \in Blocks |-> IF y \in run THEN ZeroBody ELSE @[y]]],
               run)

-----------------------------------------------------------------------------
(* moveReadPosToId(id): binary search on firstId over m_blocks.            *)

\* the index m_blocks[rp] is read at, or -1 for a null pointer
CurOf(t, x) == IF NonNull(t, x) THEN x ELSE -1
\* C++ division of the int (begin + end) by 2 truncates toward zero
Mid(b, e) == IF b + e < 0 THEN 0 ELSE (b + e) \div 2

\* one turn of the while loop once curBlock is non-null (block c): the
\* store after it, the next bounds and current block, and whether the loop
\* ends with the id found
SearchTurn(t1, id, b, e, c) ==
    LET h == Header(t1, c)
        rp == t1.readPos
        compressed == rp < t1.size - 1 /\ t1.slot[rp + 1] = "null"
        hit == h.fid <= id /\ id < h.fid + h.cnt
        b2 == IF hit THEN rp
              ELSE IF h.fid > id THEN b
              ELSE IF compressed THEN rp + CompressRange ELSE rp + 1
        e2 == IF hit THEN rp + CompressRange - 1
              ELSE IF h.fid > id THEN rp - 1 ELSE e
    IN IF hit /\ ~compressed
       THEN [st |-> t1, b |-> b, e |-> e, cur |-> c, found |-> TRUE]
       ELSE Bind(IF hit THEN UncompressBlock(t1, rp) ELSE t1,
                 LAMBDA t2 : [st |-> [t2 EXCEPT !.readPos = Mid(b2, e2)],
                              b |-> b2, e |-> e2,
                              cur |-> CurOf(t2, Mid(b2, e2)), found |-> FALSE])

\* one turn of the while loop: a null current block is replaced by the
\* run's first slot, and the run is pulled from the swap file when that
\* slot is null too
SearchStep(t, id, b, e, cur) ==
    LET r0 == (t.readPos \div CompressRange) * CompressRange
    IN Bind(IF cur # -1 THEN t
            ELSE IF NonNull(t, r0) THEN [t EXCEPT !.readPos = r0]
            ELSE PullBlock(t, r0),
            LAMBDA t1 : SearchTurn(t1, id, b, e,
                                   IF cur # -1 THEN cur ELSE t1.readPos))

\* the while loop; the fuel only bounds the recursion, the search ends
\* well before it runs out
RECURSIVE SearchLoop(_, _, _, _, _, _)
SearchLoop(t, id, b, e, cur, fuel) ==
    IF b > e \/ fuel = 0 THEN [st |-> t, found |-> FALSE]
    ELSE Bind(SearchStep(t, id, b, e, cur),
              LAMBDA r : IF r.found THEN [st |-> r.st, found |-> TRUE]
                         ELSE SearchLoop(r.st, id, r.b, r.e, r.cur, fuel - 1))

MoveReadPosToId(t, id) ==
    LET r == SearchLoop(t, id, 0, t.size - 1, CurOf(t, t.readPos),
                        4 * MaxBlocks)
    IN IF r.found THEN r
       ELSE [r EXCEPT !.st.readPos = t.readPos]

-----------------------------------------------------------------------------
(* read, write and the public operations.                                  *)

\* read(id) in block m_readPos: add up the lengths from firstId to id
ReadVar(t, id) ==
    LET b == t.readPos
        m == t.body[b]
        k == id - t.firstId[b]
        offset == LenSum(m, 0 .. k)
        len == LenAt(m, k)
    IN IF t.firstId[b] > id \/ t.firstId[b] + t.varCount[b] <= id THEN <<>>
       ELSE [i \in 1 .. len |-> ByteAt(m, BlockBytes - offset + i - 1)]

\* get(id): the bytes handed back and the store after the search
Get(t, id) ==
    IF id >= BigMinId
    THEN [st |-> t,
          val |-> IF id \in DOMAIN t.bigVars /\ t.bigVars[id] # NoBig
                  THEN Crash ELSE <<>>]
    ELSE LET r == MoveReadPosToId(t, id)
         IN [st |-> r.st, val |-> IF r.found THEN ReadVar(r.st, id) ELSE <<>>]

\* set(data): the store after it and the id it returns
SetAny(t, v, grow, soft, hard) ==
    IF v.len > MaxVarLength THEN [st |-> SetBig(t, v), id |-> t.maxBigId]
    ELSE [st |-> SetSmall(t, v, grow, soft, hard), id |-> t.maxId]

\* write(id, data) in block m_readPos: rewrite in place, moving the records
\* after id, or hand the value to set(data) when the block cannot hold it
WriteVar(t, id, v, grow, soft, hard) ==
    LET b == t.readPos
        m == t.body[b]
        ks == 0 .. t.varCount[b] - 1
        k == id - t.firstId[b]
        oldLen == LenAt(m, k)
        totalLen == (LenSum(m, ks \ {k}) + v.len) % 65536
        afterLen == LenSum(m, {j \in ks : j > k})
        m1 == Put(m, HeaderBytes + 2 * k, U16Bytes(v.len))
        dataPtr == BlockBytes - (totalLen - v.len + oldLen)
        newDataPtr == BlockBytes - totalLen
        m2 == Put(m1, newDataPtr,
                  [i \in 1 .. afterLen |-> ByteAt(m1, dataPtr + i - 1)])
        cur == IF v.len > 0 THEN newDataPtr + afterLen ELSE newDataPtr
        m3 == IF v.len > 0 THEN Put(m2, cur, ValueBytes(v)) ELSE m2
    IN IF t.firstId[b] > id \/ t.firstId[b] + t.varCount[b] <= id
       THEN [st |-> t, id |-> ERROR_ID]
       ELSE IF totalLen + t.varCount[b] * 2 + HeaderBytes > BlockBytes
       THEN SetAny(t, v, grow, soft, hard)
       ELSE [st |-> [t EXCEPT !.body[b] = m3,
                              !.dataCursor = [blk |-> b, off |-> cur]],
             id |-> id]

\* set(id, data), and clear(id) for a small id
SetVarId(t, id, v, grow, soft, hard) ==
    IF id >= BigMinId
    THEN IF id \in DOMAIN t.bigVars /\ t.bigVars[id] # NoBig
         THEN [st |-> [t EXCEPT !.bigVars[id] = v], id |-> id]
         ELSE [st |-> t, id |-> ERROR_ID]
    ELSE LET r == MoveReadPosToId(t, id)
         IN IF r.found THEN WriteVar(r.st, id, v, grow, soft, hard)
            ELSE [st |-> r.st, id |-> ERROR_ID]

\* clear(id)
ClearVar(t, id, grow, soft, hard) ==
    IF id >= BigMinId
    THEN [t EXCEPT !.bigVars = [x \in DOMAIN @ |-> IF x = id THEN NoBig ELSE @[x]]]
    ELSE SetVarId(t, id, Empty, grow, soft, hard).st

\* (mutant) reset() without m_blocks.clear(): initialize() appends its
\* blocks after the old ones
ResetStoreNoClear(t) ==
    [t EXCEPT !.size = @ + InitBlocks,
              !.firstId = [x \in Blocks |-> FreshFirstId],
              !.varCount = [x \in Blocks |-> 0],
              !.body = [x \in Blocks |-> ZeroBody],
              !.readPos = 0, !.writePos = 0, !.maxId = 1,
              !.bigVars = [x \in BigIds |-> NoBig], !.maxBigId = BigMinId,
              !.swapOpen = FALSE,
              !.headCursor = HeaderBytes,
              !.dataCursor = [blk |-> 0, off |-> BlockBytes]]

\* reset() followed by initialize(); m_inPush is left as it was
ResetStore(t) ==
    [t EXCEPT !.size = InitBlocks,
              !.slot = [x \in Blocks |-> IF x < InitBlocks THEN "live" ELSE "null"],
              !.firstId = [x \in Blocks |-> FreshFirstId],
              !.varCount = [x \in Blocks |-> 0],
              !.body = [x \in Blocks |-> ZeroBody],
              !.readPos = 0, !.writePos = 0, !.maxId = 1,
              !.bigVars = [x \in BigIds |-> NoBig], !.maxBigId = BigMinId,
              !.swapOpen = FALSE,
              !.headCursor = HeaderBytes,
              !.dataCursor = [blk |-> 0, off |-> BlockBytes]]

-----------------------------------------------------------------------------
(* The specification.                                                      *)

Init ==
    /\ size = InitBlocks
    /\ slot = [x \in Blocks |-> IF x < InitBlocks THEN "live" ELSE "null"]
    /\ firstId = [x \in Blocks |-> FreshFirstId]
    /\ varCount = [x \in Blocks |-> 0]
    /\ body = [x \in Blocks |-> ZeroBody]
    /\ swap = [x \in Blocks |-> ZeroImage]
    /\ readPos = 0 /\ writePos = 0
    /\ headCursor = HeaderBytes
    /\ dataCursor = [blk |-> 0, off |-> BlockBytes]
    /\ maxId = 1 /\ maxBigId = BigMinId
    /\ bigVars = [x \in BigIds |-> NoBig]
    /\ inPush = FALSE /\ swapOpen = FALSE
    /\ pushTask = [on |-> FALSE, start |-> 0, total |-> 0]
    /\ overrun = FALSE
    /\ held = {} /\ retired = {}

\* the bounds: a set may mint one small or big id and append one block
CanSet(t, v, grow) ==
    IF v.len > MaxVarLength THEN t.maxBigId < BigMinId + MaxBigSets
    ELSE /\ t.maxId <= MaxSmallSets
         /\ grow => t.writePos + 1 < MaxBlocks

\* the bounds on the ids a step may mint
IdsBounded(t) ==
    t.maxId <= MaxSmallSets + 1 /\ t.maxBigId <= BigMinId + MaxBigSets

\* set(data): a new record, its id kept by the caller
Set(v, grow, soft, hard) ==
    /\ CanSet(S, v, grow)
    /\ grow \in GrowOutcomes(S, v.len)
    /\ LET r == SetAny(S, v, grow, soft, hard)
       IN /\ Commit(r.st)
          /\ held' = held \cup {[id |-> r.id, val |-> v]}
    /\ UNCHANGED retired

\* get(id) of an id a caller holds
GetId(h) ==
    /\ Commit(Get(S, h.id).st)
    /\ UNCHANGED <<held, retired>>

\* set(id, data): the caller keeps the id it returns (0 for ERROR_ID)
Rewrite(h, v, soft, hard) ==
    \E r0 \in {IF h.id >= BigMinId THEN S ELSE MoveReadPosToId(S, h.id).st} :
    \E grow \in GrowOutcomes(r0, v.len) :
       /\ grow => r0.writePos + 1 < MaxBlocks
       /\ \E r \in {SetVarId(S, h.id, v, grow, soft, hard)} :
          /\ IdsBounded(r.st)
          /\ Commit(r.st)
          /\ held' = (held \ {h}) \cup
                     (IF r.id = ERROR_ID THEN {} ELSE {[id |-> r.id, val |-> v]})
          /\ retired' = IF r.id # ERROR_ID /\ r.id # h.id
                        THEN retired \cup {h.id} ELSE retired

\* clear(id): the record's owner drops it (~SQLNormalRecord)
Clear(h) ==
    \E r0 \in {IF h.id >= BigMinId THEN S ELSE MoveReadPosToId(S, h.id).st} :
    \E grow \in GrowOutcomes(r0, 0) :
       /\ grow => r0.writePos + 1 < MaxBlocks
       /\ \E c \in {ClearVar(S, h.id, grow, FALSE, FALSE)} :
          /\ IdsBounded(c)
          /\ Commit(c)
          /\ held' = held \ {h}
          /\ UNCHANGED retired

\* the worker runs the ttPushBlock task (doPushBlock)
RunPushBlock ==
    /\ pushTask.on
    /\ Commit(PushBlock(S))
    /\ UNCHANGED <<held, retired>>

\* the worker runs a ttReset task (doReset); every cached id is dropped
Reset ==
    /\ Commit(ResetStore(S))
    /\ held' = {} /\ retired' = {}

Next ==
    \/ \E v \in [len : Lens, tag : Tags], grow \in BOOLEAN,
          soft \in SoftOutcomes, hard \in HardOutcomes :
          /\ soft \/ ~hard
          /\ Set(v, grow, soft, hard)
    \/ \E h \in held : GetId(h)
    \/ \E h \in held, v \in [len : RewriteLens, tag : Tags],
          soft \in SoftOutcomes, hard \in HardOutcomes :
          /\ soft \/ ~hard
          /\ Rewrite(h, v, soft, hard)
    \/ \E h \in held : Clear(h)
    \/ RunPushBlock
    \/ Reset

Spec == Init /\ [][Next]_vars

-----------------------------------------------------------------------------
(* Properties.                                                             *)

TypeOK ==
    /\ size \in InitBlocks .. MaxBlocks
    /\ slot \in [Blocks -> {"live", "blob", "null"}]
    /\ firstId \in [Blocks -> Nat] /\ varCount \in [Blocks -> Nat]
    /\ body \in [Blocks -> [Offsets -> Bytes]]
    /\ swap \in [Blocks -> Image]
    /\ readPos \in Blocks /\ writePos \in Blocks
    /\ headCursor \in HeaderBytes .. BlockBytes /\ dataCursor \in Cursor
    /\ maxId \in 1 .. MaxSmallSets + 1
    /\ maxBigId \in BigMinId .. BigMinId + MaxBigSets
    /\ bigVars \in [BigIds -> Values \cup {NoBig}]
    /\ inPush \in BOOLEAN /\ swapOpen \in BOOLEAN /\ overrun \in BOOLEAN
    /\ pushTask \in [on : BOOLEAN, start : Nat, total : Nat]
    /\ held \subseteq [id : Nat, val : Values]
    /\ retired \subseteq Nat

\* Round trip (spec 8): get(id) of every id a caller holds returns the bytes
\* last written under it by set(data), set(id, data), across the block
\* growth, compression, push and pull the store did in between.
RoundTrip == \A h \in held : Get(S, h.id).val = ValueBytes(h.val)

\* Compression skips the hot block (spec 4.2): the block the head cursor
\* appends to is never compressed, pushed or replaced by a decompression.
WriteBlockLive == slot[writePos] = "live" /\ writePos < size

\* Memory safety of set(data): the length entry at m_headCursor and the
\* payload below m_dataCursor both land inside the block header's block,
\* never on the header nor past the end (an Arena neighbour).
NoOverrun == ~overrun

=============================================================================
