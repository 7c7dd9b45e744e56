--------------------------- MODULE TableContainer ---------------------------
(***************************************************************************)
(* The cached result tables of one shard (SQLTableContainer.cpp) with the  *)
(* schema vertex that maps a query's parameters to a table id             *)
(* (SQLSchemaVertex in SQLGraph.cpp) and the select path that finds or     *)
(* creates a table and saves it (SQLContext::doSelect, SQLTable::save).    *)
(*                                                                         *)
(* m_tables is a sequence of slots indexed by table id: a live table (its  *)
(* parameter key stands for the object), nullptr, the blob of a compressed *)
(* range (in the range's first slot; it keeps the serialized key of each   *)
(* of the range's tables, or "removed" for the -1 byte written for a null  *)
(* slot), or a pointer to memory already given back to the Arena.          *)
(* m_isCompress and m_visitCounts have one entry per COMPRESS_RANGE ids.   *)
(* The byte counts in m_used only decide the two memory-limit tests and    *)
(* the stop test of freeTables(); the model chooses their outcomes.       *)
(* A null or freed pointer dereferenced by the code stops the process:     *)
(* crashed is set and no step follows.                                     *)
(***************************************************************************)
EXTENDS Integers, Sequences, FiniteSets, SequencesExt, PredicateIndex

CONSTANTS
    CompressRangeP,  \* COMPRESS_RANGE_P (7)
    MaxTables,       \* bound on m_tables.size()
    MaxVisits,       \* bound on a visit counter
    MaxResets,       \* bound on the ttReset tasks run
    Keys,            \* parameter tuples of the cached query (std::map order)
    SoftOutcomes,    \* outcomes of `m_used > tableMemoryLimit()`
    HardOutcomes,    \* outcomes of `m_used > tableMemoryPushLimit()`
    IndexOp,         \* operator of the vertex's index condition
    KeyParams,       \* the parameters (MyVariants) of each key
    Values           \* values of the indexed field in a changed row

ASSUME /\ CompressRangeP \in 1 .. 7
       /\ MaxTables \in 1 .. 16 /\ MaxVisits >= 1 /\ MaxResets >= 0
       /\ Keys \subseteq 1 .. 9
       /\ SoftOutcomes \subseteq BOOLEAN /\ HardOutcomes \subseteq BOOLEAN
       /\ IndexOp \in Ops
       /\ Values \subseteq [t : mvtInt8 .. mvtNull, v : Int]
       /\ KeyParams \in [Keys -> Seq([t : mvtInt8 .. mvtNull, v : Int])]

\* the parameters a key may bind
ParamValues == UNION {{KeyParams[k][i] : i \in DOMAIN KeyParams[k]} : k \in Keys}

\* COMPRESS_RANGE
CompressRange == 2 ^ CompressRangeP
\* id >> COMPRESS_RANGE_P: the range an id is in
RangeOf(id) == id \div CompressRange
\* (id >> COMPRESS_RANGE_P) << COMPRESS_RANGE_P: the first id of its range
StartOf(id) == RangeOf(id) * CompressRange
Removed == 0                 \* the -1 kind byte of a null slot in a blob
NoId == -1                   \* the vertex has no table for the key
NullSlot == [k |-> "null"]
Live(key) == [k |-> "live", key |-> key]
Blob(es) == [k |-> "blob", es |-> es]
Freed == [k |-> "freed"]     \* a pointer into recycled Arena memory
Slots == {NullSlot, Freed} \cup [k : {"live"}, key : Keys]
         \cup [k : {"blob"}, es : [1 .. CompressRange -> Keys \cup {Removed}]]

VARIABLES
    tables,      \* m_tables
    isCompress,  \* m_isCompress
    visits,      \* m_visitCounts
    lastId,      \* m_lastId
    oob,         \* getTable() wrote m_visitCounts past its end
    crashed,     \* the shard's thread dereferenced a null or freed pointer
    vertex,      \* SQLSchemaVertex::m_tables: key -> table id
    vindex,      \* the vertex's SQLTableIndex (SQLSchemaVertex::m_index)
    op,          \* ghost: the last step's operation
    resets       \* ghost: the resets run

store == <<tables, isCompress, visits, lastId, oob, crashed>>
vars == <<store, vertex, vindex, op, resets>>

\* The container as one record, so that a handler that calls helpers in
\* sequence is a composition of functions on it.
S == [tables |-> tables, isCompress |-> isCompress, visits |-> visits,
      lastId |-> lastId, oob |-> oob, crashed |-> crashed]

Commit(t) ==
    /\ tables' = t.tables /\ isCompress' = t.isCompress /\ visits' = t.visits
    /\ lastId' = t.lastId /\ oob' = t.oob /\ crashed' = t.crashed

\* F of the value of v: v is evaluated once, and F gets the value
Bind(v, F(_)) == CHOOSE r \in {F(x) : x \in {v}} : TRUE

\* m_tables[id], m_isCompress[r] and m_visitCounts[r] (vectors from 0)
Slot(t, id) == t.tables[id + 1]
SetSlot(ts, id, v) == [ts EXCEPT ![id + 1] = v]
Compressed(t, r) == t.isCompress[r + 1]
Size(t) == Len(t.tables)
RangeIds(t, r) == {id \in r * CompressRange .. r * CompressRange + CompressRange - 1 : id < Size(t)}
\* the process faults
Crash(t) == [t EXCEPT !.crashed = TRUE]

-----------------------------------------------------------------------------
(* Compression.                                                            *)

\* the blob of range r: tbl->unload(out) of each live table, -1 for null
Pack(t, r) ==
    [j \in 1 .. CompressRange |->
        IF Slot(t, r * CompressRange + j - 1).k = "live"
        THEN Slot(t, r * CompressRange + j - 1).key ELSE Removed]

\* compressTables(): every range but the one holding the last id (the loop
\* breaks at i + COMPRESS_RANGE >= size) that is not compressed yet; the
\* tables are unloaded and their slots nulled (the objects are not
\* deleted), the blob goes to the range's first slot.  Unloading a freed
\* pointer is a call through recycled memory.
CompressTables(t) ==
    LET rs == {r \in 0 .. Len(t.isCompress) - 1 :
                 (r + 1) * CompressRange < Size(t) /\ ~Compressed(t, r)}
        ids == UNION {RangeIds(t, r) : r \in rs}
    IN IF \E id \in ids : Slot(t, id).k = "freed" THEN Crash(t)
       ELSE [t EXCEPT
               !.tables = [x \in DOMAIN @ |->
                             IF x - 1 \notin ids THEN @[x]
                             ELSE IF (x - 1) % CompressRange = 0
                             THEN Blob(Pack(t, RangeOf(x - 1)))
                             ELSE NullSlot],
               !.isCompress = [x \in DOMAIN @ |-> @[x] \/ x - 1 \in rs]]

\* uncompressTables(index): the blob's memory is recycled and each table it
\* holds is loaded into its slot; a -1 entry leaves its slot as it was,
\* so when the first table of the range had been removed m_tables[index]
\* keeps the recycled blob pointer.  A null blob is dereferenced.
UncompressTables(t, index) ==
    IF Slot(t, index).k # "blob" THEN Crash(t)
    ELSE LET es == Slot(t, index).es
         IN [t EXCEPT
               !.tables = [x \in DOMAIN @ |->
                   IF x - 1 \in index .. index + CompressRange - 1
                      /\ es[x - index] # Removed
                   THEN Live(es[x - index])
                   ELSE IF x - 1 = index THEN Freed ELSE @[x]],
               !.isCompress[RangeOf(index) + 1] = FALSE]

\* assureTable(id): a compressed range is loaded back first
AssureTable(t, id) ==
    IF Compressed(t, RangeOf(id)) THEN UncompressTables(t, StartOf(id))
    ELSE t

-----------------------------------------------------------------------------
(* Eviction.                                                               *)

\* the ids the inner loop of freeTables() visits from index: `index += j`
\* for j = 0 .. COMPRESS_RANGE - 1 gives index, index+1, index+3, ...,
\* and the loop stops at the first one past the end
FreeIds(t, index) ==
    {index + (j * (j + 1)) \div 2 : j \in 0 .. CompressRange - 1}
      \cap 0 .. Size(t) - 1

\* the orders std::sort can leave the (range, visit count) pairs in: by
\* count, ties in any order
VisitOrders(t) ==
    {o \in SetToSeqs(0 .. Len(t.visits) - 1) :
        \A i \in 1 .. Len(o) - 1 : t.visits[o[i] + 1] <= t.visits[o[i + 1] + 1]}

\* FreeTurn without the test that spares the range of m_lastId
FreeTurnNoSkip(t, order, brk, i) ==
    LET index == order[i] \div CompressRange
        ids == FreeIds(t, index)
        freed ==
          IF Compressed(t, index) THEN Slot(t, index).k = "blob"
          ELSE \E id \in ids : Slot(t, id).k = "live"
    IN IF Compressed(t, index) /\ Slot(t, index).k # "blob"
       THEN [st |-> Crash(t), stop |-> TRUE]
       ELSE IF ~Compressed(t, index)
               /\ \E id \in ids : Slot(t, id).k \in {"blob", "freed"}
       THEN [st |-> Crash(t), stop |-> TRUE]
       ELSE [st |-> [t EXCEPT !.tables =
                       [x \in DOMAIN @ |->
                          IF x - 1 = index
                             \/ (~Compressed(t, index) /\ x - 1 \in ids)
                          THEN NullSlot ELSE @[x]]],
             stop |-> freed /\ brk[i]]

\* One turn of the loop of freeTables() on the pair order[i].  index is
\* the pair's range shifted right by COMPRESS_RANGE_P once more; it is
\* used as a range index for m_isCompress and as a table id for m_tables.
\* A compressed range's blob is recycled and its slot nulled while the
\* flag stays set; reading the length of a null or non-blob slot faults.
\* Otherwise the visited tables are deleted; deleting a blob or a freed
\* pointer faults.  brk[i]: m_used <= oldUsed >> 1, which can hold only
\* once something was freed.
FreeTurn(t, order, brk, i) ==
    LET index == order[i] \div CompressRange
        ids == FreeIds(t, index)
        freed ==
          IF Compressed(t, index) THEN Slot(t, index).k = "blob"
          ELSE \E id \in ids : Slot(t, id).k = "live"
    IN IF index = RangeOf(t.lastId) THEN [st |-> t, stop |-> FALSE]
       ELSE IF Compressed(t, index) /\ Slot(t, index).k # "blob"
       THEN [st |-> Crash(t), stop |-> TRUE]
       ELSE IF ~Compressed(t, index)
               /\ \E id \in ids : Slot(t, id).k \in {"blob", "freed"}
       THEN [st |-> Crash(t), stop |-> TRUE]
       ELSE [st |-> [t EXCEPT !.tables =
                       [x \in DOMAIN @ |->
                          IF x - 1 = index
                             \/ (~Compressed(t, index) /\ x - 1 \in ids)
                          THEN NullSlot ELSE @[x]]],
             stop |-> freed /\ brk[i]]

RECURSIVE FreeLoop(_, _, _, _)
FreeLoop(t, order, brk, i) ==
    IF i > Len(order) THEN t
    ELSE Bind(FreeTurn(t, order, brk, i),
              LAMBDA r : IF r.stop THEN r.st
                         ELSE FreeLoop(r.st, order, brk, i + 1))

\* freeTables(): the loop, then every visit count is zeroed
FreeTables(t, order, brk) ==
    Bind(FreeLoop(t, order, brk, 1),
         LAMBDA r : IF r.crashed THEN r
                    ELSE [r EXCEPT !.visits = [x \in DOMAIN @ |-> 0]])

\* addMemoryUsed(mu) after a save: over the soft limit the container
\* compresses, and still over the push limit it frees
AddMemoryUsed(t, soft, hard, order, brk) ==
    IF ~soft THEN t
    ELSE Bind(CompressTables(t),
              LAMBDA c : IF c.crashed \/ ~hard THEN c
                         ELSE FreeTables(c, order, brk))

-----------------------------------------------------------------------------
(* Table ids.                                                              *)

\* NewTable that opens a flag and a visit count for every id
NewTableEveryId(t, key) ==
    [t EXCEPT !.tables = Append(@, Live(key)), !.lastId = Size(t),
              !.isCompress = Append(@, FALSE), !.visits = Append(@, 1)]

\* newTable(): the table is appended and becomes the last id; the first
\* id of a range opens the range's flag and visit count
NewTable(t, key) ==
    LET id == Size(t)
    IN [t EXCEPT !.tables = Append(@, Live(key)), !.lastId = id,
                 !.isCompress = IF id % CompressRange = 0 THEN Append(@, FALSE) ELSE @,
                 !.visits = IF id % CompressRange = 0 THEN Append(@, 1) ELSE @]

\* getTable(id): m_lastId is set and m_visitCounts is indexed by the first
\* table id of the range (not the range index); past the vector's end the
\* increment writes outside it
GetTable(t, id) ==
    IF id >= Size(t) THEN t
    ELSE AssureTable(
           [t EXCEPT !.lastId = id,
              !.visits = IF StartOf(id) < Len(@)
                         THEN [@ EXCEPT ![StartOf(id) + 1] = @ + 1] ELSE @,
              !.oob = @ \/ StartOf(id) >= Len(t.visits)],
           id)

\* removeTable(id): the table, loaded back if compressed, is deleted and
\* its slot nulled; deleting a freed pointer or a blob faults
RemoveTable(t, id) ==
    IF id >= Size(t) THEN t
    ELSE Bind(AssureTable(t, id),
              LAMBDA a : IF a.crashed THEN a
                         ELSE IF Slot(a, id).k \in {"blob", "freed"}
                         THEN Crash(a)
                         ELSE [a EXCEPT !.tables = SetSlot(@, id, NullSlot)])

\* reset(): each compressed range is loaded back, then every slot is
\* deleted and the vectors cleared; m_lastId is left as it was.  A range
\* whose first table had been removed is loaded back with the recycled
\* blob in its first slot, and deleting that faults.
ResetContainer(t) ==
    LET bad(r) ==
          IF Compressed(t, r)
          THEN Slot(t, r * CompressRange).k # "blob"
               \/ Slot(t, r * CompressRange).es[1] = Removed
               \/ \E id \in RangeIds(t, r) \ {r * CompressRange} :
                     Slot(t, id).k \in {"blob", "freed"}
          ELSE \E id \in RangeIds(t, r) : Slot(t, id).k \in {"blob", "freed"}
    IN IF \E r \in 0 .. Len(t.isCompress) - 1 : bad(r) THEN Crash(t)
       ELSE [t EXCEPT !.tables = <<>>, !.isCompress = <<>>, !.visits = <<>>]

-----------------------------------------------------------------------------
(* The schema vertex of the cached query.                                  *)

\* SQLSchemaVertex::findTable(key): the table of the key, through
\* getTable(); a null result erases the key from m_tables
FindTable(t, vx, key) ==
    IF vx[key] = NoId THEN [st |-> t, vx |-> vx, tbl |-> NullSlot, added |-> NoId]
    ELSE Bind(GetTable(t, vx[key]),
              LAMBDA g :
                LET tbl == IF g.crashed \/ vx[key] >= Size(g) THEN NullSlot
                           ELSE Slot(g, vx[key])
                IN [st |-> g, tbl |-> tbl, added |-> NoId,
                    vx |-> IF ~g.crashed /\ tbl = NullSlot
                           THEN [vx EXCEPT ![key] = NoId] ELSE vx])

\* SQLContext::selectCacheTable(): a hit is returned; on a miss
\* addCacheTable() creates the table with newTable() and
\* SQLSchemaVertex::addTable() maps the key to its id
SelectCacheTable(t, vx, key) ==
    Bind(FindTable(t, vx, key),
         LAMBDA f :
           IF f.st.crashed \/ f.tbl # NullSlot THEN f
           ELSE [st |-> NewTable(f.st, key), tbl |-> Live(key),
                 vx |-> [f.vx EXCEPT ![key] = Size(f.st)], added |-> Size(f.st)])

\* the ids of m_tables in the order of its keys
MappedIds(vx) ==
    LET ks == SetToSortSeq({k \in Keys : vx[k] # NoId}, <)
    IN [i \in DOMAIN ks |-> vx[ks[i]]]

\* clearTable(): removeTable() of every mapped id in key order (the map
\* and the index are then cleared by the caller's step)
RECURSIVE ClearLoop(_, _)
ClearLoop(t, ids) ==
    IF ids = <<>> \/ t.crashed THEN t
    ELSE ClearLoop(RemoveTable(t, Head(ids)), Tail(ids))

\* findTable(rec) with an index condition: getTable() of each id the index
\* returned, in its order, and m_where->match() on the table's params;
\* matching through a freed pointer faults.  The rows themselves are not
\* modelled, so only the container's side of the scan is kept.
RECURSIVE ScanIds(_, _)
ScanIds(t, ids) ==
    IF ids = <<>> \/ t.crashed THEN t
    ELSE ScanIds(Bind(GetTable(t, Head(ids)),
                      LAMBDA g :
                        IF Head(ids) < Size(g)
                           /\ Slot(g, Head(ids)).k \in {"blob", "freed"}
                        THEN Crash(g) ELSE g),
                 Tail(ids))

\* updateRecords->forEach(): findTable(rec) for each changed row whose
\* indexed field has the value vs[i]; the stores each order of the index
\* results can leave
RECURSIVE ScanRows(_, _, _)
ScanRows(t, ix, vs) ==
    IF vs = <<>> \/ t.crashed THEN {t}
    ELSE LET f == IndexFind(IndexOp, ix, Head(vs))
         IN UNION {ScanRows(IF f.oob THEN Crash(t) ELSE ScanIds(t, o), ix, Tail(vs)) :
                   o \in f.orders}

-----------------------------------------------------------------------------
(* The shard's steps.                                                      *)

Init ==
    /\ tables = <<>> /\ isCompress = <<>> /\ visits = <<>>
    \* m_lastId is not initialised, and it is not read before newTable()
    \* or getTable() sets it
    /\ lastId = 0
    /\ oob = FALSE /\ crashed = FALSE
    /\ vertex = [key \in Keys |-> NoId] /\ vindex = EmptyIndex
    /\ op = "init" /\ resets = 0

\* SQLContext::doSelect() of the cached query with parameters key: the
\* table is found or created and filled, then SQLTable::save() writes it
\* and calls addMemoryUsed(), which may compress and free.  Saving through
\* a freed pointer faults.
Select ==
    /\ ~crashed
    /\ \E key \in Keys :
       \E f \in {SelectCacheTable(S, vertex, key)} :
         /\ Size(f.st) <= MaxTables
         /\ vertex' = f.vx
         \* addTable(): addTableToIndex() of the new table
         /\ vindex' = IF f.added = NoId THEN vindex
                      ELSE IndexAdd(IndexOp, vindex, KeyParams[key], f.added)
         /\ IF f.st.crashed \/ f.tbl.k # "live" THEN Commit(Crash(f.st))
            ELSE \E soft \in SoftOutcomes, hard \in HardOutcomes :
                 LET evict == soft /\ hard
                     n == Len(f.st.visits)
                 IN \E order \in IF evict THEN VisitOrders(f.st) ELSE {<<>>},
                       brk \in IF evict THEN [1 .. n -> BOOLEAN]
                               ELSE {<<>>} :
                    \E r \in {AddMemoryUsed(f.st, soft, hard, order, brk)} :
                      /\ \A x \in DOMAIN r.visits : r.visits[x] <= MaxVisits
                      /\ Commit(r)
    /\ op' = "select" /\ UNCHANGED resets

\* SQLContext::updateAffectedCacheTable() for a umAll update of the
\* query's table: SQLSchemaVertex::clearTable()
ClearTable ==
    /\ ~crashed
    /\ \E key \in Keys : vertex[key] # NoId
    /\ Commit(ClearLoop(S, MappedIds(vertex)))
    /\ vertex' = [key \in Keys |-> NoId] /\ vindex' = EmptyIndex
    /\ op' = "clear" /\ UNCHANGED resets

\* SQLContext::updateAffectedCacheTable() for an insert, a delete or an
\* update of one or two rows: insertUpdateRecords(),
\* deleteUpdateRecords() or updateUpdateRecords() scan the rows once; an
\* update of the where field deletes with the old values, then inserts
\* with the new ones (the second value of the pair)
UpdateCache ==
    /\ ~crashed
    /\ \E vs \in {<<v>> : v \in Values} \cup (Values \X Values) :
       \E r \in ScanRows(S, vindex, vs) :
         /\ \A x \in DOMAIN r.visits : r.visits[x] <= MaxVisits
         /\ Commit(r)
    /\ op' = "update" /\ UNCHANGED <<vertex, vindex, resets>>

\* Reset that keeps the old graph and its vertices
ResetKeepGraph ==
    /\ ~crashed
    /\ resets < MaxResets
    /\ Commit(ResetContainer(S))
    /\ op' = "reset" /\ resets' = resets + 1 /\ UNCHANGED <<vertex, vindex>>

\* SQLContext::doReset(): the graph and its vertices are deleted, then
\* the container is reset (the array and var stores are VarStore's and
\* ArrayStore's)
Reset ==
    /\ ~crashed
    /\ resets < MaxResets
    /\ Commit(ResetContainer(S))
    /\ vertex' = [key \in Keys |-> NoId] /\ vindex' = EmptyIndex
    /\ op' = "reset" /\ resets' = resets + 1

Next == Select \/ UpdateCache \/ ClearTable \/ Reset

Spec == Init /\ [][Next]_vars

-----------------------------------------------------------------------------
(* Properties.                                                             *)

TypeOK ==
    /\ tables \in Seq(Slots) /\ Len(tables) <= MaxTables
    /\ isCompress \in Seq(BOOLEAN) /\ visits \in Seq(0 .. MaxVisits)
    /\ Len(isCompress) = (Len(tables) + CompressRange - 1) \div CompressRange
    /\ Len(visits) = Len(isCompress)
    /\ lastId \in Nat /\ oob \in BOOLEAN /\ crashed \in BOOLEAN
    /\ vertex \in [Keys -> {NoId} \cup 0 .. MaxTables - 1]
    /\ vindex.eq \in [DOMAIN vindex.eq -> Seq(0 .. MaxTables - 1)]
    /\ DOMAIN vindex.eq \subseteq ParamValues
    /\ \A h \in {"low", "high"} :
          vindex[h] \in Seq([key : ParamValues, ids : Seq(0 .. MaxTables - 1)])
    /\ op \in {"init", "select", "update", "clear", "reset"}
    /\ resets \in 0 .. MaxResets

\* Table id has key k's results: the live table, or its entry in the blob
\* of its compressed range; or it is gone: nulled or Removed by
\* freeTables(), or in a range whose blob freeTables() recycled.
Holds(t, id, k) ==
    LET first == Slot(t, StartOf(id))
    IN IF Compressed(t, RangeOf(id))
       THEN first = NullSlot
            \/ (first.k = "blob"
                /\ first.es[id - StartOf(id) + 1] \in {k, Removed})
       ELSE Slot(t, id) \in {Live(k), NullSlot}

\* The table id the schema vertex maps a key to names a table of that key
\* (or one freed since, whose null slot makes findTable() miss) however
\* the range was compressed, loaded back and evicted since: a select
\* never answers a query with another query's results.  It rests on
\* compressTables() and uncompressTables() keeping each table at its id.
KeyStable ==
    ~crashed =>
      \A k \in Keys : vertex[k] # NoId =>
         vertex[k] < Len(tables) /\ Holds(S, vertex[k], k)

\* A table with results: live, or an entry of its range's blob.
Present(t, id) ==
    id < Size(t)
    /\ IF Compressed(t, RangeOf(id))
       THEN /\ Slot(t, StartOf(id)).k = "blob"
            /\ Slot(t, StartOf(id)).es[id - StartOf(id) + 1] # Removed
       ELSE Slot(t, id).k = "live"

\* freeTables() never frees a table of the range that holds m_lastId, the
\* table the select just used (the comment above its loop): a select step
\* that does not fault keeps every table of that range it found present.
HotRangeKeptStep ==
    (op' = "select" /\ ~crashed') =>
        \A id \in RangeIds(S', RangeOf(lastId')) :
            Present(S, id) => Present(S', id)
\* freeTables() keeps the hot range at every select step.
HotRangeKept == [][HotRangeKeptStep]_vars

\* Index/scan equivalence (spec section 8), the half findTable(rec) relies
\* on: every table the vertex maps, whose parameters a changed row with
\* indexed value v matches, is among the ids the index returns for v, in
\* every order it may return them; otherwise insertUpdateRecords() and
\* deleteUpdateRecords() skip a cached table the row changes.
IndexComplete ==
    ~crashed =>
      \A v \in Values, k \in Keys :
        vertex[k] # NoId /\ Match(IndexOp, v, KeyParams[k]) =>
          \A o \in IndexFind(IndexOp, vindex, v).orders : vertex[k] \in ToSet(o)

====
