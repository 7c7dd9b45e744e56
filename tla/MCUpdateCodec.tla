---------------------------- MODULE MCUpdateCodec ----------------------------
(***************************************************************************)
(* Two update tables of one table t: the insert/delete one, on t's normal *)
(* schema, and the update one, on the extend schema doUpdate builds.  kind *)
(* says which one a behaviour follows.  kind "stream" follows an insert   *)
(* table of t on its way from the write server to the read server, in the *)
(* answer to the write (SyncWrite).                                        *)
(***************************************************************************)
EXTENDS Integers, Sequences

VARIABLES rows, varMem, sent, phase, out, temp, kind,
          wire, unsent, sentLog, hasBuffer, buffer, bufferLen, finished,
          inputs, crashed

codecVars == <<rows, varMem, sent, phase, out, temp>>
streamVars == <<wire, unsent, sentLog, hasBuffer, buffer, bufferLen, finished,
                inputs, crashed>>
allVars == <<codecVars, streamVars, kind>>

\* the table name "t"
MCTableName == <<116>>
\* -1 and 300 need every byte of the width and the sign
MCIntVals == {-1, 300}
\* "" (var id 0) and "ab"
MCStrVals == {<<>>, <<97, 98>>}

\* INSERT into / DELETE from t(id INT, name VARCHAR, flag BOOLEAN,
\* n SMALLINT, data BLOB)
Ins == INSTANCE UpdateCodec WITH
         BaseTypes <- <<3, 7, 1, 2, 8>>, ExtOf <- <<>>, ExtNames <- <<>>,
         TableName <- MCTableName, IntVals <- MCIntVals, StrVals <- MCStrVals,
         MaxRows <- 2

\* UPDATE t SET w = ?, name = ? on t(id INT, name VARCHAR, w INT): extend
\* fields for w and name, named with the suffix ("_new" here; its value is
\* defined outside the repository)
Upd == INSTANCE UpdateCodec WITH
         BaseTypes <- <<3, 7, 3>>, ExtOf <- <<3, 2>>,
         ExtNames <- << <<119, 95, 110, 101, 119>>, <<110, 97, 109, 101, 95, 110, 101, 119>> >>,
         TableName <- MCTableName, IntVals <- MCIntVals, StrVals <- MCStrVals,
         MaxRows <- 2

\* kind "stream": the answers of two writes on one connection to the read
\* server.  One changed no rows; the other inserted a row of t and carries
\* its update table.
OtherAnswer == [ptr |-> 1, errorCode |-> 0, updateCount |-> 0, thIndex |-> 0,
                update |-> <<>>]

\* the row (300, "ab", TRUE, NULL, "") as MySQLConnector::select reads it
StreamRow == << <<300>>, << <<97, 98>> >>, <<TRUE>>, <<>>, << <<>> >> >>
StreamRecord == Ins!read([m |-> [i \in 1 .. Ins!recordLength |-> 0], vm |-> <<>>], 0, StreamRow)

\* execUpdate's answer around writeUpdateTable's bytes: one changed row,
\* the waiting thread 1 and its WriteTaskData 2
TableAnswer == [ptr |-> 2, errorCode |-> 0, updateCount |-> 1, thIndex |-> 1,
                update |-> Ins!writeUpdateTable(Ins!umInsert, <<StreamRecord.m>>, StreamRecord.vm)]

SW == INSTANCE SyncWrite WITH Answers <- {OtherAnswer, TableAnswer}, Ptrs <- {1, 2}

\* the insert and the update kinds leave the stream at its start, the
\* stream kind leaves the tables at theirs
MCInit == \/ kind = "insert" /\ Ins!Init /\ SW!Init
          \/ kind = "update" /\ Upd!Init /\ SW!Init
          \/ kind = "stream" /\ Ins!Init /\ SW!Init
MCNext == /\ \/ kind = "insert" /\ Ins!Next /\ UNCHANGED streamVars
             \/ kind = "update" /\ Upd!Next /\ UNCHANGED streamVars
             \/ kind = "stream" /\ SW!Next /\ UNCHANGED codecVars
          /\ UNCHANGED kind

\* on_read_cb runs whenever the connection has bytes to read
ReceiveChunk == kind = "stream" /\ SW!Receive /\ UNCHANGED <<codecVars, kind>>

MCSpec == MCInit /\ [][MCNext]_allVars /\ WF_allVars(ReceiveChunk)

\* Type correctness of both tables.
MCTypeOK == /\ kind \in {"insert", "update", "stream"}
            /\ SW!TypeOK
            /\ kind = "insert" => Ins!TypeOK
            /\ kind = "update" => Upd!TypeOK

\* The write server's records hold what the select returned, exchanged
\* for the update table (SQLNormalRecord readField/setValue/value and
\* exchangeUpdateFields).
MCRecordsHold == /\ kind = "insert" => Ins!RecordsHold
                 /\ kind = "update" => Upd!RecordsHold

\* An insert or delete table reaches the read server's SQLTempRecords
\* value for value (writeUpdateTable against readUpdateTable).
InsertRoundTrip == kind = "insert" => Ins!RoundTrip

\* An update table reaches the read server value for value: the new values
\* in the base fields and the old ones in the extend fields.
UpdateRoundTrip == kind = "update" => Upd!RoundTrip

\* syncWrite, whatever the chunks, wakes the tasks of the first answers
\* sent with their own errorCode and updateCount and queues their update
\* tables byte for byte, in order.
Reassembled == kind = "stream" => SW!Reassembled

\* Every answer sent, the one carrying the update table included, wakes
\* its waiting client unless the read server died in syncWrite.
Delivered == SW!Delivered

\* The read server survives every split of the answers: syncWrite never
\* takes the length from a chunk shorter than 4 bytes.
NoOverRead == SW!NoOverRead
====
