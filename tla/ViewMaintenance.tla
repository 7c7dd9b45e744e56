-------------------------- MODULE ViewMaintenance ---------------------------
(***************************************************************************)
(* Incremental maintenance of the cached results of one query shape,      *)
(*     SELECT * FROM t WHERE w = ?                                         *)
(* with an equality index on w (SQLContext.cpp, SQLTable.cpp).            *)
(*                                                                         *)
(* The write server runs each write against the database (doInsert,       *)
(* doRemove, doUpdate) and replies with the rows it changed; the read     *)
(* server's syncWrite() turns the reply into an update-cache task, and    *)
(* the shard applies the tasks in order with updateAffectedCacheTable().  *)
(* The write server handles one command at a time and the replies come   *)
(* back in order on one connection, so the shard sees the writes' events  *)
(* in database order, each some time after its write.  A select on the    *)
(* shard may load a missed instance from the database at any point        *)
(* between, and the table container may drop an instance.                 *)
(*                                                                         *)
(* A row is its primary key and the values of w and b; a cached instance  *)
(* is the rows it holds by primary key (SQLNormalTable::m_pkHash).        *)
(***************************************************************************)
EXTENDS Integers, Sequences, FiniteSets

CONSTANTS
    Pks,             \* auto-increment primary keys, 1 .. n
    WVals,           \* values of the where field w, and the bound params
    BVals,           \* values of the projected field b
    UpdateFields,    \* the fields an UPDATE statement may set
    Parsed,          \* whether the listener understands a statement
    LongFieldName,   \* w's name is no shorter than UPDATE_EXPR_SUFFIX
    MaxWrites

ASSUME Pks = 1 .. Cardinality(Pks) /\ WVals \cup BVals \subseteq Nat /\ UpdateFields \subseteq {"w", "b"}
       /\ Parsed \subseteq BOOLEAN /\ Parsed # {} /\ LongFieldName \in BOOLEAN

\* no row under a primary key: a row shape with values no field takes
Absent == [w |-> -1, b |-> -1]
\* no instance bound to a parameter (the function on no keys)
NoTable == <<>>
\* MyVariant(), the value of a name no field has: equal to no parameter
Null == -1

Rows == [w : WVals, b : BVals]
Table == [Pks -> Rows \cup {Absent}]

\* a WHERE clause of a write: one field compared with a value
Preds == {[f |-> "w", v |-> x] : x \in WVals} \cup {[f |-> "b", v |-> x] : x \in BVals}

VARIABLES
    db,        \* the database table t
    nextPk,    \* its AUTO_INCREMENT counter
    cache,     \* cache[k]: the instance bound to k, or NoTable
    pending,   \* the update-cache tasks not yet run by the shard
    writes

vars == <<db, nextPk, cache, pending, writes>>

\* the query's result for parameter k
Result(d, k) == [p \in Pks |-> IF d[p] # Absent /\ d[p].w = k THEN d[p] ELSE Absent]

\* the rows a WHERE clause selects
Selected(pr) == {p \in Pks : db[p] # Absent /\ db[p][pr.f] = pr.v}

\* a changed row as the write server sends it: for umModify the updated
\* field carries the new value and old the value before
Rec(p, row, old) == [pk |-> p, w |-> row.w, b |-> row.b, old |-> old]
RowOf(r) == [w |-> r.w, b |-> r.b]

-----------------------------------------------------------------------------
(* The shard's side: updateAffectedCacheTable() on one instance.          *)

InsertRecsNoMatch(t, k, recs) ==
    [p \in Pks |-> IF t[p] = Absent /\ \E r \in recs : r.pk = p
                   THEN RowOf(CHOOSE r \in recs : r.pk = p) ELSE t[p]]

\* insertUpdateRecords(): findTable(rec) gives the instances rec's w
\* matches, and SQLNormalTable::insert() copies the row; append() keeps
\* the row already held under the same primary key
InsertRecs(t, k, recs) ==
    [p \in Pks |-> IF t[p] = Absent /\ \E r \in recs : r.pk = p /\ r.w = k
                   THEN RowOf(CHOOSE r \in recs : r.pk = p) ELSE t[p]]

\* the value of w an SQLExtendRecord mapped by addMapFields(name,
\* name.substr(0, name.length() - UPDATE_EXPR_SUFFIX.length())) reads:
\* a prefix of w's name names no field and reads null; a name no longer
\* than the suffix maps to itself and reads the new value
ERecW(r) == IF LongFieldName THEN Null ELSE r.w

\* deleteUpdateRecords(): the instances the row's w matches drop the row
\* by primary key; w is read through the extend record eRec when given
DeleteRecs(t, k, recs, viaERec) ==
    [p \in Pks |-> IF \E r \in recs : r.pk = p /\ (IF viaERec THEN ERecW(r) ELSE r.w) = k
                   THEN Absent ELSE t[p]]

\* updateUpdateRecords(): SQLNormalTable::update() sets the updated field
\* of the row held under the primary key, if any
UpdateRecs(t, k, recs, f) ==
    [p \in Pks |-> IF t[p] # Absent /\ \E r \in recs : r.pk = p /\ r.w = k
                   THEN [t[p] EXCEPT ![f] = (CHOOSE r \in recs : r.pk = p)[f]]
                   ELSE t[p]]

\* one task: umAll clears the schema's instances; a umModify of the where
\* field deletes through the extend record, then inserts
ApplyTask(t, k, e) ==
    CASE e.mode = "all"    -> NoTable
      [] e.mode = "insert" -> InsertRecs(t, k, e.recs)
      [] e.mode = "delete" -> DeleteRecs(t, k, e.recs, FALSE)
      [] e.field = "w"     -> InsertRecs(DeleteRecs(t, k, e.recs, TRUE), k, e.recs)
      [] OTHER             -> UpdateRecs(t, k, e.recs, e.field)

-----------------------------------------------------------------------------
(* Steps.                                                                  *)

Init ==
    /\ db = [p \in Pks |-> Absent] /\ nextPk = 1
    /\ cache = [k \in WVals |-> NoTable]
    /\ pending = <<>> /\ writes = 0

\* the task a write's reply becomes: a statement the listener could not
\* read is sent as umAll (flushAllTableCache); syncWrite() queues a task
\* only when updateCount > 0
Reply(parsed, e, count) ==
    pending' = IF count = 0 THEN pending
               ELSE Append(pending, IF parsed THEN e ELSE [mode |-> "all"])

\* doInsert(): one row; the connector's insert returns the new
\* AUTO_INCREMENT id and the row is sent with it
DoInsert ==
    /\ writes < MaxWrites /\ nextPk \in Pks
    /\ \E row \in Rows, parsed \in Parsed :
         /\ db' = [db EXCEPT ![nextPk] = row]
         /\ Reply(parsed, [mode |-> "insert", recs |-> {Rec(nextPk, row, row.w)}], 1)
    /\ nextPk' = nextPk + 1 /\ writes' = writes + 1
    /\ UNCHANGED cache

\* doRemove(): SELECT * with the statement's WHERE into resultTable, then
\* DELETE ... WHERE pk IN (...); nothing selected, nothing is done.  An
\* unreadable statement runs as is and is flushed.
DoRemove ==
    /\ writes < MaxWrites
    /\ \E pr \in Preds, parsed \in Parsed :
         LET sel == Selected(pr)
         IN /\ sel # {}
            /\ db' = [p \in Pks |-> IF p \in sel THEN Absent ELSE db[p]]
            /\ Reply(parsed, [mode |-> "delete",
                              recs |-> {Rec(p, db[p], db[p].w) : p \in sel}],
                     Cardinality(sel))
    /\ writes' = writes + 1
    /\ UNCHANGED <<nextPk, cache>>

\* doUpdate(): SELECT *, ? AS f_new with the WHERE, then UPDATE ... SET
\* f = x WHERE pk IN (...); updateCount is MySQL's count of rows whose
\* value changed; exchangeUpdateFields() swaps f and f_new in the rows
\* sent, so f is the new value and old the value before
DoUpdate ==
    /\ writes < MaxWrites
    /\ \E f \in UpdateFields, pr \in Preds, parsed \in Parsed :
       \E x \in IF f = "w" THEN WVals ELSE BVals :
         LET sel == Selected(pr)
             new(p) == [db[p] EXCEPT ![f] = x]
         IN /\ sel # {}
            /\ db' = [p \in Pks |-> IF p \in sel THEN new(p) ELSE db[p]]
            /\ Reply(parsed, [mode |-> "modify", field |-> f,
                              recs |-> {Rec(p, new(p), db[p][f]) : p \in sel}],
                     Cardinality({p \in sel : db[p][f] # x}))
    /\ writes' = writes + 1
    /\ UNCHANGED <<nextPk, cache>>

\* doSelect() of parameter k on a miss: addCacheTable() fills the new
\* instance from the database
Select ==
    /\ \E k \in WVals :
         /\ cache[k] = NoTable
         /\ cache' = [cache EXCEPT ![k] = Result(db, k)]
    /\ UNCHANGED <<db, nextPk, pending, writes>>

\* freeTables() drops an instance; findTable() then misses
Evict ==
    /\ \E k \in WVals :
         /\ cache[k] # NoTable
         /\ cache' = [cache EXCEPT ![k] = NoTable]
    /\ UNCHANGED <<db, nextPk, pending, writes>>

\* doUpdateCache(): the shard runs the oldest task on every instance
ApplyUpdate ==
    /\ pending # <<>>
    /\ cache' = [k \in WVals |-> IF cache[k] = NoTable THEN NoTable
                                 ELSE ApplyTask(cache[k], k, Head(pending))]
    /\ pending' = Tail(pending)
    /\ UNCHANGED <<db, nextPk, writes>>

Next == DoInsert \/ DoRemove \/ DoUpdate \/ Select \/ Evict \/ ApplyUpdate

Spec == Init /\ [][Next]_vars

-----------------------------------------------------------------------------
(* Properties.                                                             *)

TypeOK ==
    /\ db \in Table /\ nextPk \in 1 .. Cardinality(Pks) + 1
    /\ cache \in [WVals -> Table \cup {NoTable}]
    /\ Len(pending) <= writes /\ writes \in 0 .. MaxWrites

\* The cache is correct once the shard has run every update task: each
\* cached instance holds exactly the rows the query returns for its
\* parameter (spec sections 1 and 8, the update scenarios), whatever
\* selects loaded and the container dropped in between.
CacheCoherent ==
    pending = <<>> =>
      \A k \in WVals : cache[k] # NoTable => cache[k] = Result(db, k)

====
