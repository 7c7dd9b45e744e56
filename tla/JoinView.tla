------------------------------ MODULE JoinView -------------------------------
(***************************************************************************)
(* Incremental maintenance of the cached results of a two-table join,     *)
(*     SELECT * FROM L, R WHERE L.fk = R.id [AND L.w = ?]                  *)
(* (SQLContext.cpp, SQLTable.cpp, SQLGraph.cpp).                           *)
(*                                                                         *)
(* A cached instance is an SQLJoinTable: a normal table of L records and  *)
(* one of R records, each keyed by primary key, and the join records,     *)
(* each pointing at one L and one R record, filed under the L key in      *)
(* m_leftJoinHash and under the R key in m_rightJoinHash.  A join record  *)
(* is modelled by what it points at: a record held by the instance's      *)
(* table under that key (Held), or a copy the table does not hold (the    *)
(* row it was made from).  Each hash maps a key to a bag of join records: *)
(* JOINPKSet holds pointers, so two records with equal contents are two   *)
(* members.                                                                *)
(*                                                                         *)
(* Writes run on the database and queue update tasks as in               *)
(* ViewMaintenance; the shard applies each task to every cached instance. *)
(* With Indexed the query has the constant condition L.w = ?, one         *)
(* instance per parameter and an equality index on L.w; without it there  *)
(* is one instance (key 0) holding the whole join.                        *)
(***************************************************************************)
EXTENDS Integers, Sequences, FiniteSets, Bags, BagsExt

CONSTANTS
    LPks, RPks,      \* auto-increment primary keys of L and R, 1 .. n
    WVals,           \* values of L.w, and the bound parameters
    BVals,           \* values of R.b
    Indexed,         \* the query has the condition L.w = ?
    Parsed,          \* whether the listener understands a statement
    LongFieldName,   \* w's name is no shorter than UPDATE_EXPR_SUFFIX
    MaxWrites

ASSUME LPks = 1 .. Cardinality(LPks) /\ RPks = 1 .. Cardinality(RPks)
       /\ WVals \subseteq Nat \ {0} /\ Indexed \in BOOLEAN
       /\ Parsed \subseteq BOOLEAN /\ Parsed # {} /\ LongFieldName \in BOOLEAN

Absent == [absent |-> TRUE]
NoTable == <<>>
Null == -1
Held == [held |-> TRUE]

Tabs == {"L", "R"}
Pks(T) == IF T = "L" THEN LPks ELSE RPks
Rows(T) == IF T = "L" THEN [w : WVals, fk : RPks] ELSE [b : BVals]
Fields(T) == IF T = "L" THEN {"w", "fk"} ELSE {"b"}
Other(T) == IF T = "L" THEN "R" ELSE "L"
\* the fields with a where edge to the join's schema vertex (addFieldVtx
\* with isWhere for the condition's fields): L.w, L.fk and R.id
WhereFields == {"w", "fk"}
Keys == IF Indexed THEN WVals ELSE {0}

VARIABLES
    db,        \* db[T][pk]: the database tables
    nextPk,    \* their AUTO_INCREMENT counters
    cache,     \* cache[k]: the instance bound to k, or NoTable
    pending,   \* the update-cache tasks not yet run by the shard
    writes

vars == <<db, nextPk, cache, pending, writes>>

\* the join's rows for parameter k: L key, L row, R key, R row
Result(d, k) ==
    LET ps == {p \in LPks : d.L[p] # Absent /\ d.R[d.L[p].fk] # Absent
                            /\ (~Indexed \/ d.L[p].w = k)}
    IN {<<p, d.L[p], d.L[p].fk, d.R[d.L[p].fk]>> : p \in ps}

\* a join record; which side's pointer is which follows SQLJoinRecord::add()
JRec(T, p, pref, q, qref) ==
    IF T = "L" THEN [l |-> p, lref |-> pref, r |-> q, rref |-> qref]
    ELSE [l |-> q, lref |-> qref, r |-> p, rref |-> pref]

\* the row forEach() yields for join record j of instance t
Val(t, j) ==
    <<j.l, IF j.lref = Held THEN t.L[j.l] ELSE j.lref,
      j.r, IF j.rref = Held THEN t.R[j.r] ELSE j.rref>>

-----------------------------------------------------------------------------
(* SQLJoinTable.                                                           *)

\* the join records of js filed under key p of a hash by their key f
FiledUnder(js, f, p) == SetToBag({j \in js : j[f] = p})

\* addJoin(): the record goes into m_leftJoinHash under its L record's
\* pk and into m_rightJoinHash under its R record's pk
AddJoinsSwapped(t, js) ==
    [t EXCEPT !.lh = [p \in LPks |-> @[p] (+) FiledUnder(js, "r", p)],
              !.rh = [q \in RPks |-> @[q] (+) FiledUnder(js, "l", q)]]

AddJoins(t, js) ==
    [t EXCEPT !.lh = [p \in LPks |-> @[p] (+) FiledUnder(js, "l", p)],
              !.rh = [q \in RPks |-> @[q] (+) FiledUnder(js, "r", q)]]

\* the other side's key of join record j, on the side isLeft names
OtherKey(j, isLeft) == IF isLeft THEN j.r ELSE j.l

\* the records of bag b whose other side's key is q, with their copies
OtherKeyed(b, isLeft, q) == [j \in {i \in BagToSet(b) : OtherKey(i, isLeft) = q} |-> b[j]]

RemoveJoinSamePk(t, pk, isLeft) ==
    LET src == IF isLeft THEN t.lh ELSE t.rh
        dst == IF isLeft THEN t.rh ELSE t.lh
        dst2 == [dst EXCEPT ![pk] = @ (-) src[pk]]
        src2 == [src EXCEPT ![pk] = EmptyBag]
    IN IF isLeft THEN [t EXCEPT !.lh = src2, !.rh = dst2]
       ELSE [t EXCEPT !.rh = src2, !.lh = dst2]

\* removeJoin(pk, isLeft): every join record filed under pk on its side
\* is erased from the other side's hash, under the pk of the record it
\* points at there, and freed; then pk is erased from its side's hash
RemoveJoin(t, pk, isLeft) ==
    LET src == IF isLeft THEN t.lh ELSE t.rh
        dst == IF isLeft THEN t.rh ELSE t.lh
        dst2 == [q \in DOMAIN dst |-> dst[q] (-) OtherKeyed(src[pk], isLeft, q)]
        src2 == [src EXCEPT ![pk] = EmptyBag]
    IN IF isLeft THEN [t EXCEPT !.lh = src2, !.rh = dst2]
       ELSE [t EXCEPT !.rh = src2, !.lh = dst2]

RemoveSwapped(t, T, rec) ==
    [RemoveJoin(t, rec.pk, T = "R") EXCEPT ![T][rec.pk] = Absent]

\* remove(tableName, rec): removeJoin() on the record's side, then
\* SQLNormalTable::remove() frees the held record under its key
Remove(t, T, rec) ==
    [RemoveJoin(t, rec.pk, T = "L") EXCEPT ![T][rec.pk] = Absent]

\* update(tableName, rec, fields): SQLNormalTable::update() sets the
\* field of the record held under the key, if any
Update(t, T, rec, f) ==
    IF t[T][rec.pk] = Absent THEN t
    ELSE [t EXCEPT ![T][rec.pk][f] = rec.row[f]]

\* the rows of the other table the match select of insertJoinTableRecord()
\* returns: the condition's toString() writes TRUE for the record's own
\* table's constant and the record's value for its side of L.fk = R.id;
\* it runs on the database as the shard finds it
MatchRows(d, T, rec, k) ==
    IF T = "L" THEN {q \in RPks : d.R[q] # Absent /\ q = rec.row.fk}
    ELSE {q \in LPks : d.L[q] # Absent /\ d.L[q].fk = rec.pk
                       /\ (~Indexed \/ d.L[q].w = k)}

\* MySQLConnector::select() into a table: each row read is appended, and
\* append() returns the record already held under its key, if any
LoadKeep(d, t, O, ms) ==
    [t EXCEPT ![O] = [q \in Pks(O) |-> IF q \in ms /\ @[q] = Absent THEN d[O][q] ELSE @[q]]]

\* insertJoinTableRecord(): the matches are read into the other table,
\* which keeps a record it already holds (MySQLConnector::select); if
\* there are any, SQLNormalTable::insert() copies the record, and append()
\* keeps the one already held, so the join records point at the copy
InsertJoin(d, t, T, rec, k) ==
    LET ms == MatchRows(d, T, rec, k)
        ref == IF t[T][rec.pk] = Absent THEN Held ELSE rec.row
        loaded == LoadKeep(d, t, Other(T), ms)
    IN IF ms = {} THEN loaded
       ELSE AddJoins([loaded EXCEPT ![T][rec.pk] =
                                    IF @ = Absent THEN rec.row ELSE @],
                     {JRec(T, rec.pk, ref, q, Held) : q \in ms})

-----------------------------------------------------------------------------
(* The shard's side: updateAffectedCacheTable() on one instance.          *)

\* findTable(rec) on the join's schema vertex: with the index, the
\* instances under the record's w (an R record has no w and reads null);
\* without, every instance, since FieldCondition::match() of two tables
\* is true
Hit(k, w) == ~Indexed \/ w = k

RecW(T, rec) == IF T = "L" THEN rec.row.w ELSE Null

\* w as the extend record of a where update reads it (see ViewMaintenance)
ERecW(T, rec, f) == IF T = "L" /\ f = "w" /\ LongFieldName THEN Null ELSE RecW(T, rec)

ApplyTask(d, t, k, e) ==
    LET T == e.table
        rec == e.rec
    IN CASE e.mode = "all" -> NoTable
         [] e.mode = "insert" ->
              IF Hit(k, RecW(T, rec)) THEN InsertJoin(d, t, T, rec, k) ELSE t
         [] e.mode = "delete" ->
              IF Hit(k, RecW(T, rec)) THEN Remove(t, T, rec) ELSE t
         [] e.field \in WhereFields ->
              LET t1 == IF Hit(k, ERecW(T, rec, e.field)) THEN Remove(t, T, rec) ELSE t
              IN IF Hit(k, RecW(T, rec)) THEN InsertJoin(d, t1, T, rec, k) ELSE t1
         [] OTHER ->
              IF Hit(k, RecW(T, rec)) THEN Update(t, T, rec, e.field) ELSE t

-----------------------------------------------------------------------------
(* Steps.                                                                  *)

Init ==
    /\ db = [T \in Tabs |-> [p \in Pks(T) |-> Absent]]
    /\ nextPk = [T \in Tabs |-> 1]
    /\ cache = [k \in Keys |-> NoTable]
    /\ pending = <<>> /\ writes = 0

\* syncWrite() queues a task only when updateCount > 0; a statement the
\* listener could not read is sent as umAll (flushAllTableCache)
Reply(parsed, e, count) ==
    pending' = IF count = 0 THEN pending
               ELSE Append(pending, IF parsed THEN e ELSE [mode |-> "all"])

\* the changed row as the write server sends it: new values, and for a
\* umModify the old value of the updated field
Rec(p, row, old) == [pk |-> p, row |-> row, old |-> old]

\* doInsert(): one row under the next AUTO_INCREMENT key
DoInsert(T) ==
    /\ writes < MaxWrites /\ nextPk[T] \in Pks(T)
    /\ \E row \in Rows(T), parsed \in Parsed :
         /\ db' = [db EXCEPT ![T][nextPk[T]] = row]
         /\ Reply(parsed, [mode |-> "insert", table |-> T,
                           rec |-> Rec(nextPk[T], row, Null)], 1)
    /\ nextPk' = [nextPk EXCEPT ![T] = @ + 1] /\ writes' = writes + 1
    /\ UNCHANGED cache

\* doRemove() of DELETE FROM T WHERE id = p: the select finds the row or
\* nothing, and nothing selected is nothing done
DoRemove(T) ==
    /\ writes < MaxWrites
    /\ \E p \in Pks(T), parsed \in Parsed :
         /\ db[T][p] # Absent
         /\ db' = [db EXCEPT ![T][p] = Absent]
         /\ Reply(parsed, [mode |-> "delete", table |-> T,
                           rec |-> Rec(p, db[T][p], Null)], 1)
    /\ writes' = writes + 1
    /\ UNCHANGED <<nextPk, cache>>

\* doUpdate() of UPDATE T SET f = x WHERE id = p; updateCount counts the
\* row only if its value changed
DoUpdate(T) ==
    /\ writes < MaxWrites
    /\ \E p \in Pks(T), f \in Fields(T), parsed \in Parsed :
       \E x \in {r[f] : r \in Rows(T)} :
         LET new == [db[T][p] EXCEPT ![f] = x]
         IN /\ db[T][p] # Absent
            /\ db' = [db EXCEPT ![T][p] = new]
            /\ Reply(parsed, [mode |-> "modify", table |-> T, field |-> f,
                              rec |-> Rec(p, new, db[T][p][f])],
                     IF db[T][p][f] = x THEN 0 ELSE 1)
    /\ writes' = writes + 1
    /\ UNCHANGED <<nextPk, cache>>

\* selectCacheTable() on a miss: SQLJoinRecord::read() files each row of
\* the join under the L and R records, reusing one already read
Select ==
    /\ \E k \in Keys :
         LET rs == Result(db, k)
             tab(T, i) == [p \in Pks(T) |->
                            IF \E x \in rs : x[i] = p THEN db[T][p] ELSE Absent]
             js == {[l |-> x[1], lref |-> Held, r |-> x[3], rref |-> Held] : x \in rs}
         IN /\ cache[k] = NoTable
            /\ cache' = [cache EXCEPT ![k] = [L |-> tab("L", 1), R |-> tab("R", 3),
                                               lh |-> [p \in LPks |-> FiledUnder(js, "l", p)],
                                               rh |-> [q \in RPks |-> FiledUnder(js, "r", q)]]]
    /\ UNCHANGED <<db, nextPk, pending, writes>>

\* freeTables() drops an instance
Evict ==
    /\ \E k \in Keys : cache[k] # NoTable /\ cache' = [cache EXCEPT ![k] = NoTable]
    /\ UNCHANGED <<db, nextPk, pending, writes>>

\* doUpdateCache(): the oldest task on every cached instance
ApplyUpdate ==
    /\ pending # <<>>
    /\ cache' = [k \in Keys |-> IF cache[k] = NoTable THEN NoTable
                                 ELSE ApplyTask(db, cache[k], k, Head(pending))]
    /\ pending' = Tail(pending)
    /\ UNCHANGED <<db, nextPk, writes>>

Next ==
    \/ \E T \in Tabs : DoInsert(T) \/ DoRemove(T) \/ DoUpdate(T)
    \/ Select \/ Evict \/ ApplyUpdate

Spec == Init /\ [][Next]_vars

-----------------------------------------------------------------------------
(* Properties.                                                             *)

JRecs == [l : LPks, lref : Rows("L") \cup {Held}, r : RPks, rref : Rows("R") \cup {Held}]

IsInstance(t) ==
    /\ DOMAIN t = {"L", "R", "lh", "rh"}
    /\ \A T \in Tabs : t[T] \in [Pks(T) -> Rows(T) \cup {Absent}]
    /\ DOMAIN t.lh = LPks /\ DOMAIN t.rh = RPks
    \* each join record filed under its own record's key on each side
    /\ \A p \in LPks : IsABag(t.lh[p]) /\ BagToSet(t.lh[p]) \subseteq {j \in JRecs : j.l = p}
    /\ \A q \in RPks : IsABag(t.rh[q]) /\ BagToSet(t.rh[q]) \subseteq {j \in JRecs : j.r = q}

TypeOK ==
    /\ \A T \in Tabs : db[T] \in [Pks(T) -> Rows(T) \cup {Absent}]
                     /\ nextPk[T] \in 1 .. Cardinality(Pks(T)) + 1
    /\ \A k \in Keys : cache[k] = NoTable \/ IsInstance(cache[k])
    /\ Len(pending) <= writes /\ writes \in 0 .. MaxWrites

\* the join records filed in hash h, each under its key f, with their
\* copies
Joins(h, f) == [j \in UNION {BagToSet(h[p]) : p \in DOMAIN h} |-> h[j[f]][j]]

\* SQLJoinTable's two hashes file the same join records: addJoin() puts a
\* record in both and removeJoin() erases each record of the removed key
\* from the other side's hash under the pk of the record it points at
\* there, so forEach() over m_leftJoinHash never meets a record the other
\* side has freed, nor the other side one forEach() has dropped.
HashesAgree ==
    \A k \in Keys : cache[k] # NoTable => Joins(cache[k].lh, "l") = Joins(cache[k].rh, "r")

\* A join record never points at a freed record: whatever removes an L or
\* R record from a cached join (a delete, or the delete half of a where
\* update) first removes the join records filed under its key.
NoDangling ==
    \A k \in Keys : cache[k] # NoTable =>
      \A j \in BagToSet(Joins(cache[k].lh, "l")) :
        /\ j.lref = Held => cache[k].L[j.l] # Absent
        /\ j.rref = Held => cache[k].R[j.r] # Absent

\* Once the shard has run every update task, each cached join yields
\* every row of the query's result exactly once and no other row (spec
\* section 1: an INSERT adds the row to every matching instance,
\* re-running the JOIN companion-row lookup).
JoinCoherent ==
    pending = <<>> =>
      \A k \in Keys : cache[k] # NoTable =>
        LET t == cache[k]
        IN /\ {Val(t, j) : j \in BagToSet(Joins(t.lh, "l"))} = Result(db, k)
           /\ BagCardinality(Joins(t.lh, "l")) = Cardinality(Result(db, k))

====
