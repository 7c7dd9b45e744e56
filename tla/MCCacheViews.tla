----------------------------- MODULE MCCacheViews -----------------------------
(***************************************************************************)
(* The two ways a write reaches cached query results, checked side by     *)
(* side: ViewMaintenance (a query over one table t) and JoinView (a join  *)
(* of L and R).  kind says which one a behaviour follows; the variables   *)
(* are the database, the AUTO_INCREMENT counters, the shard's cache, its  *)
(* pending update-cache tasks and the write budget in both.               *)
(***************************************************************************)
EXTENDS Integers

VARIABLES db, nextPk, cache, pending, writes, kind

\* three keys of t, so that a row can leave one instance for the other and
\* two instances are cached side by side; updates set only the projected
\* field b
VM == INSTANCE ViewMaintenance WITH
        Pks <- 1 .. 3, WVals <- {1, 2}, BVals <- {1, 2}, UpdateFields <- {"b"},
        Parsed <- {FALSE, TRUE}, LongFieldName <- TRUE, MaxWrites <- 5

\* two keys in each of L and R, so that an R row joins two L rows and an L
\* row can move between R rows; the query has no index condition
JV == INSTANCE JoinView WITH
        LPks <- 1 .. 2, RPks <- 1 .. 2, WVals <- {1, 2}, BVals <- {1, 2},
        Indexed <- FALSE, Parsed <- {FALSE, TRUE}, LongFieldName <- TRUE,
        MaxWrites <- 4

MCInit == \/ kind = "view" /\ VM!Init
          \/ kind = "join" /\ JV!Init
MCNext == /\ \/ kind = "view" /\ VM!Next
             \/ kind = "join" /\ JV!Next
          /\ UNCHANGED kind
MCSpec == MCInit /\ [][MCNext]_<<db, nextPk, cache, pending, writes, kind>>

\* Type correctness of both models.
TypeOK == /\ kind \in {"view", "join"}
          /\ kind = "view" => VM!TypeOK
          /\ kind = "join" => JV!TypeOK

\* Every cached instance of the single-table query equals the query's
\* result once the shard has run its update-cache tasks (doInsert,
\* doRemove, doUpdate, select and the update-cache task).
CacheCoherent == kind = "view" => VM!CacheCoherent

\* A cached SQLJoinTable's two hashes hold the same join records
\* (insertJoinTableRecord, removeJoinTableRecord, SQLJoinTable::remove).
HashesAgree == kind = "join" => JV!HashesAgree

\* No join record points at a record its table has freed (the record
\* tables and the join's hashes under deletes and updates of L and R).
NoDangling == kind = "join" => JV!NoDangling
====
