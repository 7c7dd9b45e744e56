----------------------------- MODULE ArrayStore -----------------------------
(***************************************************************************)
(* The fixed-size record store of one shard (ArrayMemoryManager.cpp): the  *)
(* rows of the cached tables.  A block is a byte buffer: an 8-byte header  *)
(* {firstId u32, arrayCount u16, used u16}, a table of u16 lengths growing *)
(* forward from the header (one per id, 0 once recycled) and the records   *)
(* growing backward from the end.  The header is kept as bytes too, so a   *)
(* write through a wrong pointer or a wrong length shows up where it lands.*)
(* Callers reach a record through the single ArrayMemoryOperator, which    *)
(* caches the last id (m_lastId) and its address (m_data).                 *)
(*                                                                         *)
(* When m_used passes the configured limits, assureNewBlock compresses   *)
(* every aligned run of CompressRange blocks but the last into one blob   *)
(* (compressBlock) and queues a ttPushBlock task that writes runs to the  *)
(* swap file (pushBlock); the search brings them back (uncompressBlock,   *)
(* pullBlock).  A blob keeps its run's contents in body and is marked in  *)
(* slot, as VarStore does; the two limit tests are inputs, SoftOutcomes   *)
(* and HardOutcomes.  Records are rows, shorter than MAX_ARRAY_LENGTH, so *)
(* the big-array path does not run.                                        *)
(***************************************************************************)
EXTENDS Integers, Sequences, FiniteSets, Functions, SequencesExt

CONSTANTS
    BlockBytes,   \* m_blockByteCount (65519)
    HeaderBytes,  \* sizeof(ArrayBlockHeader) = 8 (pack(1))
    ReuseLimit,   \* REUSE_BYTE_LIMIT (4096)
    InitBlocks,   \* MIN_BLOCK_LENGTH: blocks allocated by initialize() (1000)
    MaxBlocks,    \* bound on m_blocks.size()
    MaxAllocs,    \* bound on the ids allocate() hands out between resets
    MaxResets,    \* bound on the ttReset tasks run
    Lens,         \* recordLength() of the cached tables
    Tags,         \* the byte a row is made of (rows differ by their bytes)
    CompressRange,  \* COMPRESS_RANGE (128)
    PushRange,      \* PUSH_RANGE: ranges pushed per task invocation (1024)
    SoftOutcomes,   \* outcomes of `m_used > arrayMemoryLimit()`
    HardOutcomes    \* outcomes of `m_used > arrayMemoryPushLimit()`

ASSUME /\ HeaderBytes = 8
       /\ BlockBytes > HeaderBytes + 2
       /\ Tags \subseteq 1 .. 255
       /\ \A l \in Lens : 0 < l /\ l <= BlockBytes - HeaderBytes - 2
       /\ CompressRange >= 2 /\ PushRange >= 1
       /\ SoftOutcomes \subseteq BOOLEAN /\ HardOutcomes \subseteq BOOLEAN

ERROR_ID == 0
Blocks == 0 .. MaxBlocks - 1
Offsets == 0 .. BlockBytes - 1
Bytes == 0 .. 255
ZeroBody == [o \in Offsets |-> 0]
\* m_data: a block and an offset; blk = -2 is nullptr, blk = -1 a node
\* the store gave back to the Arena
Null == [blk |-> -2, off |-> 0]
Pointer == [blk : -2 .. MaxBlocks - 1, off : Int]

VARIABLES
    size,        \* m_blocks.size()
    body,        \* the bytes of each block, header included
    readPos,     \* m_readPos
    writePos,    \* m_writePos
    headCursor,  \* m_headCursor, an offset in block writePos
    dataCursor,  \* m_dataCursor, an offset in block writePos
    maxId,       \* m_maxId
    reuse,       \* m_reuseBlocks
    slot,        \* m_blocks[i]: "live" block, "blob" (compressed run), "null"
    swap,        \* the swap file, in block images by position
    inPush,      \* m_inPush
    swapOpen,    \* m_swap != nullptr
    pushTask,    \* the ttPushBlock task waiting in the shard's queue
    lastId,      \* m_operator.m_lastId
    opData,      \* m_operator.m_data
    thrown,      \* setID threw MyException("id is invalid")
    wild,        \* the store touched memory it no longer owns
    held,        \* ghost: the rows callers hold: id, length, byte written
    resets       \* ghost: the resets run

store == <<size, body, readPos, writePos, headCursor, dataCursor, maxId,
           reuse, slot, swap, inPush, swapOpen, pushTask, lastId, opData,
           thrown, wild>>
vars == <<store, held, resets>>

\* The store as one record, so that a handler that calls helpers in
\* sequence is a composition of functions on it.
S == [size |-> size, body |-> body, readPos |-> readPos,
      writePos |-> writePos, headCursor |-> headCursor,
      dataCursor |-> dataCursor, maxId |-> maxId, reuse |-> reuse,
      slot |-> slot, swap |-> swap, inPush |-> inPush, swapOpen |-> swapOpen,
      pushTask |-> pushTask, lastId |-> lastId, opData |-> opData, thrown |-> thrown, wild |-> wild]

Commit(t) ==
    /\ size' = t.size /\ body' = t.body /\ readPos' = t.readPos
    /\ writePos' = t.writePos /\ headCursor' = t.headCursor
    /\ dataCursor' = t.dataCursor /\ maxId' = t.maxId /\ reuse' = t.reuse
    /\ slot' = t.slot /\ swap' = t.swap /\ inPush' = t.inPush
    /\ swapOpen' = t.swapOpen /\ pushTask' = t.pushTask
    /\ lastId' = t.lastId /\ opData' = t.opData /\ thrown' = t.thrown
    /\ wild' = t.wild

\* F of the value of v: v is evaluated once, and F gets the value
Bind(v, F(_)) == CHOOSE r \in {F(x) : x \in {v}} : TRUE

-----------------------------------------------------------------------------
(* Bytes of a block.                                                       *)

ByteAt(m, o) == IF o \in Offsets THEN m[o] ELSE 0
U16At(m, o) == ByteAt(m, o) + 256 * ByteAt(m, o + 1)
U32At(m, o) == U16At(m, o) + 65536 * U16At(m, o + 2)
\* one byte stored at offset o; a byte outside the block is lost (the caller
\* flags it): EXCEPT leaves a function alone outside its domain
PutByte(m, o, b) == [m EXCEPT ![o] = b]
\* memcpy of the sequence bs to offset off
RECURSIVE Put(_, _, _)
Put(m, off, bs) ==
    IF bs = << >> THEN m ELSE Put(PutByte(m, off, Head(bs)), off + 1, Tail(bs))
OutOfBlock(off, n) == n > 0 /\ (off < 0 \/ off + n > BlockBytes)
PutU16(m, o, n) == PutByte(PutByte(m, o, n % 256), o + 1, (n \div 256) % 256)
PutU32(m, o, n) == PutU16(PutU16(m, o, n % 65536), o + 2, (n \div 65536) % 65536)
\* memmove(dst, src, n) inside one block
Move(m, dst, src, n) == Put(m, dst, [i \in 1 .. n |-> ByteAt(m, src + i - 1)])

\* the ArrayBlockHeader fields
FirstIdOf(m) == U32At(m, 0)
CountOf(m) == U16At(m, 4)
UsedOf(m) == U16At(m, 6)
\* the k-th entry of the length table
LenAt(m, k) == U16At(m, HeaderBytes + 2 * k)
\* a sum of lengths in a uint16_t
LenSum(m, ks) == SumFunctionOnSet([k \in ks |-> LenAt(m, k)], ks) % 65536
\* id is one of the block's ids
Covers(m, id) == FirstIdOf(m) <= id /\ id < FirstIdOf(m) + CountOf(m)

Header(t, x) ==
    IF t.slot[x] = "blob"
    THEN [fid |-> FirstIdOf(t.body[x]),
          cnt |-> SumFunctionOnSet([y \in x .. x + CompressRange - 1 |->
                                      CountOf(t.body[y])],
                                   x .. x + CompressRange - 1) % 65536]
    ELSE [fid |-> FirstIdOf(t.body[x]), cnt |-> CountOf(t.body[x])]
\* m_blocks[x] is a non-null pointer
NonNull(t, x) == x \in 0 .. t.size - 1 /\ t.slot[x] # "null"
\* the memory of blocks xs goes back to the Arena; m_data into it dangles
Release(t, xs) ==
    IF t.opData.blk \in xs THEN [t EXCEPT !.opData.blk = -1] ELSE t

-----------------------------------------------------------------------------
(* Compressing and pushing blocks.                                         *)

\* compressBlock(): every aligned run that is not the last one and is
\* neither pushed (first slot null) nor compressed (second slot null)
Compressible(t) ==
    {i \in {k * CompressRange : k \in 0 .. MaxBlocks} :
        /\ i + CompressRange <= t.size - 1
        /\ t.slot[i] # "null" /\ t.slot[i + 1] # "null"}

\* ... then m_operator.setID(ERROR_ID), which returns early when m_lastId
\* is already 0
CompressBlock(t) ==
    LET runs == Compressible(t)
        inRun == {i + j : i \in runs, j \in 0 .. CompressRange - 1}
        t1 == Release([t EXCEPT !.slot = [x \in Blocks |->
                                 IF x \in runs THEN "blob"
                                 ELSE IF x \in inRun THEN "null" ELSE @[x]]],
                   inRun)
    IN IF t1.lastId = ERROR_ID THEN t1
       ELSE [t1 EXCEPT !.lastId = ERROR_ID, !.opData = Null]

\* preparePushBlock(): a new swap file and one ttPushBlock task of type 1
PreparePushBlock(t) ==
    IF t.inPush THEN t
    ELSE [t EXCEPT !.inPush = TRUE, !.swapOpen = TRUE,
                   !.swap = [x \in Blocks |-> ZeroBody],
                   !.pushTask = [on |-> TRUE, start |-> 0, total |-> t.size]]

\* SwapFile::write(pos, mem, len): the block images land at positions pos
\* onward (the file is sized to the block vector, rounded up to its 1 GiB
\* view, so the bound check passes)
SwapWrite(file, pos, img) ==
    [x \in Blocks |-> IF x - pos \in DOMAIN img THEN img[x - pos] ELSE file[x]]

\* pushBlock(): one range written at block position pos, a compressed one
\* after snappy::Uncompress of its blob; its blocks go back to the Arena
SpillRange(t, i, pos) ==
    LET run == i .. i + CompressRange - 1
        t1 == [t EXCEPT
                 !.swap = SwapWrite(t.swap, pos,
                                    [j \in 0 .. CompressRange - 1 |-> t.body[i + j]]),
                 !.slot = [x \in Blocks |-> IF x \in run THEN "null" ELSE @[x]]]
    IN Release(t1, run)

\* the for loop of pushBlock(): pos advances only over a range it writes
RECURSIVE PushLoop(_, _, _, _)
PushLoop(t, i, pos, count) ==
    IF \/ i >= t.pushTask.total
       \/ i + CompressRange > t.pushTask.total - 1
       \/ count + 1 > PushRange
    THEN t
    ELSE LET pushed == t.slot[i] = "null"
         IN PushLoop(IF pushed THEN t ELSE SpillRange(t, i, pos),
                     i + CompressRange,
                     IF pushed THEN pos ELSE pos + CompressRange, count + 1)

\* `data->start += 1 >> (COMPRESS_RANGE_P + PUSH_RANGE_P)`
NextStart(start) == start + (1 \div 2 ^ (7 + 10))

\* pushBlock(data): end the push if the store was reset, else write ranges
\* and either finish or queue the task again
PushBlock(t) ==
    IF ~t.swapOpen
    THEN [t EXCEPT !.inPush = FALSE, !.pushTask.on = FALSE]
    ELSE LET t1 == PushLoop(t, t.pushTask.start, t.pushTask.start, 0)
             st == NextStart(t.pushTask.start)
         IN IF st + CompressRange > t.pushTask.total - 1
            THEN [t1 EXCEPT !.inPush = FALSE, !.pushTask.on = FALSE]
            ELSE [t1 EXCEPT !.pushTask.start = st]

\* pullBlock(index): each block of the run read back from its position;
\* every tryRead passes, the file being rounded up to its view
PullBlock(t, x) ==
    LET run == {y \in x .. x + CompressRange - 1 : y < t.size}
    IN [t EXCEPT
          !.slot = [y \in Blocks |-> IF y \in run THEN "live" ELSE @[y]],
          !.body = [y \in Blocks |-> IF y \in run THEN t.swap[y] ELSE @[y]]]

\* uncompressBlock(index): a blob comes back as its run.  Called on a live
\* block whose successor is null because it was pushed, the 4 bytes at
\* offset 6 are taken as the compressed length and snappy::Uncompress of
\* garbage yields nothing: the run's slots get new nodes of unknown bytes
\* (here zeros) and the live block is recycled.
UncompressBlock(t, x) ==
    LET run == {y \in x .. x + CompressRange - 1 : y < t.size}
    IN IF t.slot[x] = "blob"
       THEN [t EXCEPT
               !.slot = [y \in Blocks |-> IF y \in run THEN "live" ELSE @[y]]]
       ELSE Release([t EXCEPT
               !.slot = [y \in Blocks |-> IF y \in run THEN "live" ELSE @[y]],
               !.body = [y \in Blocks |-> IF y \in run THEN ZeroBody ELSE @[y]]],
               run)

-----------------------------------------------------------------------------
(* moveReadPosToId(id) and the operator.                                   *)

\* C++ division of the int (begin + end) by 2 truncates toward zero
Mid(b, e) == IF b + e < 0 THEN 0 ELSE (b + e) \div 2

\* the index m_blocks[rp] is read at, or -1 for a null pointer
CurOf(t, x) == IF NonNull(t, x) THEN x ELSE -1

\* one turn of the while loop once curBlock is non-null (block c): the
\* store after it, the next bounds and current block, and whether the loop
\* ends with the id found
SearchTurn(t1, id, b, e, c) ==
    LET h == Header(t1, c)
        rp == t1.readPos
        compressed == rp < t1.size - 1 /\ t1.slot[rp + 1] = "null"
        hit == h.fid <= id /\ id < h.fid + h.cnt
        b2 == IF hit THEN rp
              ELSE IF h.fid > id THEN b
              ELSE IF compressed THEN rp + CompressRange ELSE rp + 1
        e2 == IF hit THEN rp + CompressRange - 1
              ELSE IF h.fid > id THEN rp - 1 ELSE e
    IN IF hit /\ ~compressed
       THEN [st |-> t1, b |-> b, e |-> e, cur |-> c, found |-> TRUE]
       ELSE Bind(IF hit THEN UncompressBlock(t1, rp) ELSE t1,
                 LAMBDA t2 : [st |-> [t2 EXCEPT !.readPos = Mid(b2, e2)],
                              b |-> b2, e |-> e2,
                              cur |-> CurOf(t2, Mid(b2, e2)), found |-> FALSE])

\* one turn of the while loop: a null current block is replaced by the
\* run's first slot, and the run is pulled from the swap file when that
\* slot is null too
SearchStep(t, id, b, e, cur) ==
    LET r0 == (t.readPos \div CompressRange) * CompressRange
    IN Bind(IF cur # -1 THEN t
            ELSE IF NonNull(t, r0) THEN [t EXCEPT !.readPos = r0]
            ELSE PullBlock(t, r0),
            LAMBDA t1 : SearchTurn(t1, id, b, e,
                                   IF cur # -1 THEN cur ELSE t1.readPos))

\* the while loop of moveReadPosToId; the fuel only bounds the recursion,
\* the search ends well before it runs out
RECURSIVE SearchLoop(_, _, _, _, _, _)
SearchLoop(t, id, b, e, cur, fuel) ==
    IF b > e \/ fuel = 0 THEN [st |-> t, found |-> FALSE]
    ELSE Bind(SearchStep(t, id, b, e, cur),
              LAMBDA r : IF r.found THEN [st |-> r.st, found |-> TRUE]
                         ELSE SearchLoop(r.st, id, r.b, r.e, r.cur, fuel - 1))

\* a failed search puts m_readPos back
MoveReadPosToId(t, id) ==
    LET r == SearchLoop(t, id, 0, t.size - 1, CurOf(t, t.readPos),
                        4 * MaxBlocks)
    IN IF r.found THEN r ELSE [r EXCEPT !.st.readPos = t.readPos]

\* dataPtr(id) in block m_readPos: the end of the block less the lengths of
\* firstId .. id, added up in a uint16_t
DataPtr(t, id) ==
    LET m == t.body[t.readPos] IN
    [blk |-> t.readPos,
     off |-> BlockBytes - LenSum(m, 0 .. id - FirstIdOf(m))]

\* ArrayMemoryOperator::setID(id), called by memoryOperator(id) for id > 0:
\* nothing to do for the cached id; otherwise search, and throw when the
\* id is not found (m_lastId is then left as it was)
SetID(t, id) ==
    IF t.lastId = id THEN t
    ELSE LET r == MoveReadPosToId([t EXCEPT !.opData = Null], id)
         IN IF r.found
            THEN [r.st EXCEPT !.opData = DataPtr(r.st, id), !.lastId = id]
            ELSE [r.st EXCEPT !.thrown = TRUE]

\* the len bytes at m_data, as getBytes(0, len) reads them; nullptr reads
\* as garbage
ReadData(t, len) ==
    IF t.opData.blk < 0 THEN <<-1>>
    ELSE [i \in 1 .. len |-> ByteAt(t.body[t.opData.blk], t.opData.off + i - 1)]

\* the setXxx calls that fill a row: len bytes of tag from m_data; a write
\* to nullptr or to a block the store gave back to the Arena is wild
WriteData(t, len, tag) ==
    IF t.opData.blk < 0 \/ t.opData.blk >= t.size THEN [t EXCEPT !.wild = TRUE]
    ELSE [t EXCEPT
            !.body[t.opData.blk] = Put(@, t.opData.off, [i \in 1 .. len |-> tag]),
            !.wild = @ \/ OutOfBlock(t.opData.off, len)]

-----------------------------------------------------------------------------
(* allocate(len).                                                          *)

\* assureNewBlock(): the next block, appended when there is none; its
\* header's used and arrayCount are cleared (firstId is not).  m_used
\* grows by a block: soft and hard are the outcomes of the two limit
\* tests, which compress and then prepare a push.  A preallocated block
\* that was compressed or pushed is written through its null pointer.
AssureNewBlock(t, soft, hard) ==
    LET w == t.writePos + 1
        fresh == w >= t.size
        t1 == [t EXCEPT !.writePos = w,
                        !.size = IF fresh THEN @ + 1 ELSE @,
                        !.slot[w] = IF fresh THEN "live" ELSE @,
                        !.body[w] = IF fresh \/ t.slot[w] = "live"
                                    THEN PutU16(PutU16(@, 6, 0), 4, 0) ELSE @,
                        !.wild = @ \/ ~(fresh \/ t.slot[w] = "live"),
                        !.headCursor = HeaderBytes,
                        !.dataCursor = BlockBytes]
        t2 == IF soft THEN CompressBlock(t1) ELSE t1
    IN IF soft /\ hard THEN PreparePushBlock(t2) ELSE t2

\* one turn of the loop of allocateInReuse over m_reuseBlocks, from the
\* back: a block with room and a zero length entry gets the records after
\* that entry moved by memmove(dataPtr, dataPtr - len, used - insertPos)
\* and used += len, and the loop stops; a block with room and no zero
\* entry leaves the list.  An index past m_blocks.size() (left from before
\* a reset) reads freed memory, and the model stops there; so it does for
\* a block compressed or pushed since it was listed: a null slot goes to
\* uncompressBlock, which reads the length at nullptr + 6, and a blob's
\* compressed bytes are taken for a length table and moved at block
\* offsets, past the blob's node.
ReuseStep(t, len, i) ==
    LET x == t.reuse[i]
        m == t.body[x]
        cnt == CountOf(m)
        used == UsedOf(m)
        avail == (BlockBytes - HeaderBytes - cnt * 2 - used) % 65536
        holes == {j \in 0 .. cnt - 1 : LenAt(m, j) = 0}
        j == CHOOSE j \in holes : \A k \in holes : j <= k
        insertPos == LenSum(m, 0 .. j - 1)
        dataPtr == BlockBytes - used
        n == used - insertPos
        erased == [t EXCEPT !.reuse = RemoveAt(@, i)]
        moved == [t EXCEPT
                    !.body[x] = PutU16(Move(m, dataPtr, dataPtr - len, n), 6,
                                       (used + len) % 65536),
                    !.wild = @ \/ OutOfBlock(dataPtr, n)
                               \/ OutOfBlock(dataPtr - len, n)]
    IN CASE x >= t.size \/ t.slot[x] # "live" ->
              [st |-> [t EXCEPT !.wild = TRUE], stop |-> TRUE]
         [] avail < len -> [st |-> t, stop |-> FALSE]
         [] holes = {} -> [st |-> erased, stop |-> FALSE]
         [] n < 0 -> [st |-> [t EXCEPT !.wild = TRUE], stop |-> TRUE]
         \* id = firstId + j is 0 only for a block whose firstId is 0: the
         \* block then leaves the list too and the loop goes on
         [] FirstIdOf(m) + j = 0 ->
              [st |-> [moved EXCEPT !.reuse = RemoveAt(@, i)], stop |-> FALSE]
         [] OTHER -> [st |-> moved, stop |-> TRUE]

RECURSIVE ReuseLoop(_, _, _)
ReuseLoop(t, len, i) ==
    IF i < 1 THEN t
    ELSE LET r == ReuseStep(t, len, i)
         IN IF r.stop THEN r.st ELSE ReuseLoop(r.st, len, i - 1)

\* allocateInReuse(len): it always returns 0, whatever the loop did
AllocateInReuse(t, len) == ReuseLoop(t, len, Len(t.reuse))

\* the gap test of allocate()
NeedsBlock(t, len) == len > t.dataCursor - t.headCursor + 2

\* mutant: the first allocate in a block does not set its firstId
AllocateNoFirstId(t, len, soft, hard) ==
    LET Reuse == IF len < ReuseLimit /\ Len(t.reuse) > 0
                 THEN AllocateInReuse(t, len) ELSE t
        Block(t1) == IF NeedsBlock(t1, len) THEN AssureNewBlock(t1, soft, hard)
                     ELSE t1
        Row(t2) ==
          LET w == t2.writePos
              m == t2.body[w]
              m2 == PutU16(PutU16(m, 4, CountOf(m) + 1), 6,
                           (UsedOf(m) + len) % 65536)
          IN [t2 EXCEPT !.body[w] = PutU16(m2, t2.headCursor, len),
                        !.headCursor = @ + 2,
                        !.dataCursor = @ - len,
                        !.maxId = @ + 1]
    IN Bind(Bind(Reuse, Block), Row)

\* allocate(len) for len <= MAX_ARRAY_LENGTH: the store after it, and the
\* id it returns (m_maxId); soft and hard decide what assureNewBlock does
Allocate(t, len, soft, hard) ==
    LET Reuse == IF len < ReuseLimit /\ Len(t.reuse) > 0
                 THEN AllocateInReuse(t, len) ELSE t
        Block(t1) == IF NeedsBlock(t1, len) THEN AssureNewBlock(t1, soft, hard)
                     ELSE t1
        Row(t2) ==
          LET w == t2.writePos
              m == t2.body[w]
              m1 == IF CountOf(m) = 0 THEN PutU32(m, 0, t2.maxId) ELSE m
              m2 == PutU16(PutU16(m1, 4, CountOf(m1) + 1), 6,
                           (UsedOf(m1) + len) % 65536)
          IN [t2 EXCEPT !.body[w] = PutU16(m2, t2.headCursor, len),
                        !.headCursor = @ + 2,
                        !.dataCursor = @ - len,
                        !.maxId = @ + 1]
    IN Bind(Bind(Reuse, Block), Row)

-----------------------------------------------------------------------------
(* recycle(id) and reset().                                                *)

\* addReuseBlock(index): appended unless already listed
AddReuseBlock(t, x) ==
    IF \E i \in 1 .. Len(t.reuse) : t.reuse[i] = x THEN t
    ELSE [t EXCEPT !.reuse = Append(@, x)]

\* recycle(id) for id < BIG_ARRAY_MIN_ID: its length entry becomes 0, the
\* records after it move up by its length, and a block before m_writePos
\* with REUSE_BYTE_LIMIT bytes free joins m_reuseBlocks
Recycle(t, id) ==
    LET Free(t1) ==
          LET x == t1.readPos
              m == t1.body[x]
              k == id - FirstIdOf(m)
              dataLen == LenAt(m, k)
              afterLen == LenSum(m, k + 1 .. CountOf(m) - 1)
              dataPtr == BlockBytes - UsedOf(m)
              m1 == PutU16(m, HeaderBytes + 2 * k, 0)
          IN IF ~Covers(m, id) THEN t1
             ELSE IF dataLen = 0 THEN [t1 EXCEPT !.body[x] = m1]
             ELSE [t1 EXCEPT
                     !.body[x] = PutU16(Move(m1, dataPtr + dataLen, dataPtr,
                                             afterLen),
                                        6, (UsedOf(m) - dataLen) % 65536),
                     !.wild = @ \/ OutOfBlock(dataPtr, afterLen)
                                \/ OutOfBlock(dataPtr + dataLen, afterLen)]
        \* a block behind m_writePos with REUSE_BYTE_LIMIT bytes free
        Listed(t2) ==
          LET m == t2.body[t2.readPos]
              avail == (BlockBytes - (CountOf(m) * 2 + UsedOf(m))) % 65536
          IN IF Covers(m, id) /\ t2.readPos < t2.writePos
                /\ avail >= ReuseLimit
             THEN AddReuseBlock(t2, t2.readPos) ELSE t2
    IN Bind(Bind(MoveReadPosToId(t, id).st, Free), Listed)

\* the blocks reset() gives back to the Arena, run by run: a pushed run
\* (null first slot) is skipped, a compressed one gives back its blob (a
\* node of another size class), and a run whose second slot is null, or
\* lies past m_blocks.size(), gives back its first block only
Recycled(t) ==
    UNION {IF ~NonNull(t, i) \/ t.slot[i] = "blob" THEN {}
           ELSE IF i + 1 >= t.size \/ t.slot[i + 1] = "null" THEN {i}
           ELSE {y \in i .. i + CompressRange - 1 : NonNull(t, y)} :
           i \in {k * CompressRange : k \in 0 .. MaxBlocks} \cap 0 .. t.size - 1}

\* where the memory of block b is after reset(): the blocks go back to the
\* Arena in order and its free list is LIFO, so initialize() and the
\* blocks appended later get them back last first
Reborn(t, b) == Cardinality({y \in Recycled(t) : y > b})

\* mutant: reset() leaves m_writePos where it was
ResetKeepWritePos(t) ==
    [t EXCEPT !.size = InitBlocks, !.readPos = 0, !.maxId = 1,
              !.headCursor = HeaderBytes, !.dataCursor = BlockBytes]

\* reset(), run by the ttReset task after every table is destroyed: the
\* blocks go back, the swap file is deleted and initialize() takes
\* MIN_BLOCK_LENGTH blocks, clearing used and arrayCount; m_reuseBlocks,
\* m_inPush and the operator (m_lastId, m_data) are left as they were
Reset(t) ==
    LET rec == Recycled(t)
        Old(x) == IF x < Cardinality(rec)
                  THEN t.body[CHOOSE b \in rec : Reborn(t, b) = x]
                  ELSE t.body[x]
    IN [t EXCEPT
          !.body = [x \in Blocks |->
                      IF x < InitBlocks THEN PutU16(PutU16(Old(x), 6, 0), 4, 0)
                      ELSE Old(x)],
          !.slot = [x \in Blocks |-> IF x < InitBlocks THEN "live" ELSE "null"],
          !.swapOpen = FALSE,
          !.size = InitBlocks,
          !.readPos = 0,
          !.writePos = 0,
          !.maxId = 1,
          !.headCursor = HeaderBytes,
          !.dataCursor = BlockBytes,
          !.opData = IF @.blk >= 0 THEN [@ EXCEPT !.blk = Reborn(t, @)] ELSE @]

-----------------------------------------------------------------------------
(* The callers: the rows of the cached tables (SQLNormalRecord).           *)

\* the static array store starts zeroed; initialize() runs in the
\* constructor
Init ==
    /\ size = InitBlocks
    /\ body = [x \in Blocks |-> ZeroBody]
    /\ readPos = 0
    /\ writePos = 0
    /\ headCursor = HeaderBytes
    /\ dataCursor = BlockBytes
    /\ maxId = 1
    /\ reuse = << >>
    /\ slot = [x \in Blocks |-> IF x < InitBlocks THEN "live" ELSE "null"]
    /\ swap = [x \in Blocks |-> ZeroBody]
    /\ inPush = FALSE /\ swapOpen = FALSE
    /\ pushTask = [on |-> FALSE, start |-> 0, total |-> 0]
    /\ lastId = 0
    /\ opData = Null
    /\ thrown = FALSE
    /\ wild = FALSE
    /\ held = {}
    /\ resets = 0

\* an uncaught MyException ends the worker thread
Running == ~thrown

\* SQLNormalRecord(table): m_dataId = allocate(recordLength()); the push
\* limit is tested only when the soft one was passed
NewRecord ==
    /\ Running
    /\ maxId <= MaxAllocs
    /\ \E len \in Lens, soft \in SoftOutcomes, hard \in HardOutcomes :
         /\ soft \/ ~hard
         /\ ~(NeedsBlock(S, len) /\ writePos + 1 >= MaxBlocks)
         /\ \E t \in {Allocate(S, len, soft, hard)} : Commit(t)
         /\ held' = held \cup {[id |-> maxId, len |-> len, tag |-> 0]}
    /\ UNCHANGED resets

\* setValue on the fields of a row: memoryOperator(m_dataId), then the
\* setXxx calls write the row's bytes
SetValue ==
    /\ Running
    /\ \E r \in held, tag \in Tags : \E t \in {SetID(S, r.id)} :
         IF t.thrown THEN Commit(t) /\ UNCHANGED held
         ELSE /\ Commit(WriteData(t, r.len, tag))
              /\ held' = (held \ {r}) \cup {[r EXCEPT !.tag = tag]}
    /\ UNCHANGED resets

\* read(): memoryOperator(m_dataId), then the getXxx calls
ReadRecord ==
    /\ Running
    /\ \E r \in held : Commit(SetID(S, r.id))
    /\ UNCHANGED <<held, resets>>

\* ~SQLNormalRecord(): memoryOperator(m_dataId), then recycle(m_dataId)
FreeRecord ==
    /\ Running
    /\ \E r \in held : \E t \in {SetID(S, r.id)} :
         IF t.thrown THEN Commit(t) /\ UNCHANGED held
         ELSE /\ Commit(Recycle(t, r.id))
              /\ held' = held \ {r}
    /\ UNCHANGED resets

\* the ttReset task (SQLContext::doReset): the tables are gone, then
\* arrayMemory().reset()
ResetStore ==
    /\ Running
    /\ held = {}
    /\ resets < MaxResets
    /\ Commit(Reset(S))
    /\ resets' = resets + 1
    /\ UNCHANGED held

\* the worker runs the ttPushBlock task of type 1 (doPushBlock)
RunPushBlock ==
    /\ Running
    /\ pushTask.on
    /\ Commit(PushBlock(S))
    /\ UNCHANGED <<held, resets>>

Next == NewRecord \/ SetValue \/ ReadRecord \/ FreeRecord \/ ResetStore
        \/ RunPushBlock

Spec == Init /\ [][Next]_vars

-----------------------------------------------------------------------------
(* Properties.                                                             *)

TypeOK ==
    /\ size \in 1 .. MaxBlocks
    /\ body \in [Blocks -> [Offsets -> Bytes]]
    /\ readPos \in 0 .. size - 1
    /\ writePos \in 0 .. size - 1
    /\ headCursor \in HeaderBytes .. BlockBytes
    /\ dataCursor \in HeaderBytes .. BlockBytes
    /\ maxId \in 1 .. MaxAllocs + 1
    /\ reuse \in Seq(Blocks)
    /\ slot \in [Blocks -> {"live", "blob", "null"}]
    /\ swap \in [Blocks -> [Offsets -> Bytes]]
    /\ inPush \in BOOLEAN /\ swapOpen \in BOOLEAN
    /\ pushTask \in [on : BOOLEAN, start : Nat, total : Nat]
    /\ lastId \in 0 .. MaxAllocs
    /\ opData \in Pointer
    /\ thrown \in BOOLEAN
    /\ wild \in BOOLEAN
    /\ held \subseteq [id : 1 .. MaxAllocs, len : Lens, tag : {0} \cup Tags]
    /\ resets \in 0 .. MaxResets

RoundTrip ==
    \A r \in held :
        r.tag # 0 =>
            ReadData(SetID(S, r.id), r.len) = [i \in 1 .. r.len |-> r.tag]

====
