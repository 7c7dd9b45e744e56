----------------------------- MODULE UpdateCodec -----------------------------
(***************************************************************************)
(* The byte codec of an update table, from the write server's result      *)
(* table to the read server's SQLTempTable (SQLTable.cpp,                  *)
(* SQLTableSchema.cpp, SQLContext.cpp, WriteBuffer.cpp, InputStream.cpp,  *)
(* ByteArray.cpp).                                                         *)
(*                                                                         *)
(* doInsert, doRemove and doUpdate build an SQLNormalTable of the changed *)
(* rows; for an UPDATE its schema is an SQLExtendTableSchema that adds    *)
(* one field per updated field, and exchangeUpdateFields() leaves the new *)
(* value in the base field and the old one in the extend field.           *)
(* writeUpdateTable() serializes the table, the read server's             *)
(* addUpdateCacheTask() strips the mode byte and the length, and          *)
(* readUpdateTable() parses the rest into SQLTempRecords that read their  *)
(* fields in place.                                                        *)
(*                                                                         *)
(* A record's memory is its bytes in the array store; a string or blob    *)
(* field holds the id of its bytes in the var store (0 for empty).  Field *)
(* k of the schema is numbered from 0, base fields first, as the code's   *)
(* field index.  A value is <<>> for NULL and <<x>> otherwise.  Only the  *)
(* types whose width TLC's 32-bit integers hold are modelled: boolean,    *)
(* smallint, int, string and blob (bigint and double take the 8-byte path *)
(* of int's 4-byte one).                                                  *)
(***************************************************************************)
EXTENDS Integers, Sequences, SequencesExt

CONSTANTS
    BaseTypes,   \* DataType codes of the table's fields, in schema order
    ExtOf,       \* for each extend field, the base field it belongs to
    TableName,   \* bytes of the table name
    ExtNames,    \* bytes of each extend field's name (name + suffix)
    IntVals,     \* values of smallint and int fields
    StrVals,     \* values of string and blob fields, as bytes
    MaxRows

dtBoolean == 1
dtSmallInt == 2
dtInt == 3
dtString == 7
dtBlob == 8
umModify == 0
umInsert == 1

ASSUME /\ BaseTypes \in Seq({dtBoolean, dtSmallInt, dtInt, dtString, dtBlob})
       /\ Len(BaseTypes) > 0
       /\ ExtOf \in Seq(1 .. Len(BaseTypes)) /\ Len(ExtNames) = Len(ExtOf)

NB == Len(BaseTypes)
NE == Len(ExtOf)
FC == NB + NE
Fields == 0 .. FC - 1
\* data type of field k: an extend field has its base field's type
FT(k) == IF k < NB THEN BaseTypes[k + 1] ELSE BaseTypes[ExtOf[k - NB + 1]]

\* (n - 1) / 8 + 1: bytes of null bits for n fields
NullBytes(n) == (n - 1) \div 8 + 1

dataSize(t) == CASE t = dtBoolean -> 1 [] t = dtSmallInt -> 2
                  [] t = dtInt -> 4 [] OTHER -> 4

\* SQLNormalTableSchema::compile and SQLExtendTableSchema::compile: the
\* null bits, then the base fields; the extend null bits, then the extend
\* fields after the base record.
RECURSIVE SizeSum(_, _)
SizeSum(from, to) == IF from >= to THEN 0 ELSE dataSize(FT(from)) + SizeSum(from + 1, to)
BaseLength == NullBytes(NB) + SizeSum(0, NB)
dataOffSetNoExtNull(k) ==
    IF k < NB THEN NullBytes(NB) + SizeSum(0, k)
    ELSE BaseLength + SizeSum(NB, k)
dataOffSet(k) ==
    IF k < NB THEN NullBytes(NB) + SizeSum(0, k)
    ELSE BaseLength + NullBytes(NE) + SizeSum(NB, k)
recordLength == IF NE = 0 THEN BaseLength ELSE dataOffSet(FC - 1) + dataSize(FT(FC - 1))
extendOffSet == BaseLength

(***************************************************************************)
(* Bytes.  A byte sequence is 1-based; offset o of the code is index o+1. *)
(***************************************************************************)
Bit(b, i) == (b \div 2 ^ i) % 2
WithBit(b, i, v) == b + (v - Bit(b, i)) * 2 ^ i
\* big-endian n bytes of x modulo 2^(8n) (WriteBuffer::writeShort/writeInt)
Enc(x, n) == [i \in 1 .. n |-> (x \div 2 ^ (8 * (n - i))) % 256]
\* ByteArrayImpl::getInt16/getInt32: big-endian, signed
\* A read past the end of the buffer is undefined; it is taken to read 0.
At(d, i) == IF i \in DOMAIN d THEN d[i] ELSE 0
RECURSIVE DecU(_, _, _)
DecU(d, o, n) == IF n = 0 THEN 0 ELSE DecU(d, o, n - 1) * 256 + At(d, o + n)
DecS(d, o, n) == (IF At(d, o + 1) >= 128 THEN At(d, o + 1) - 256 ELSE At(d, o + 1)) * 2 ^ (8 * (n - 1))
                  + DecU(d, o + 1, n - 1)
Put(m, o, bs) == [i \in DOMAIN m |-> IF i - o \in DOMAIN bs THEN bs[i - o] ELSE m[i]]
Slice(d, o, n) == [i \in 1 .. n |-> At(d, o + i)]

VARIABLES
    rows,     \* memory of the result table's records, in append order
    varMem,   \* the var store: id i holds varMem[i]
    sent,     \* the values each record holds, field by field
    phase,    \* "select", "exchanged", "written", "read"
    out,      \* the bytes writeUpdateTable() produced
    temp      \* per SQLTempRecord its m_offsets, once read

vars == <<rows, varMem, sent, phase, out, temp>>

(***************************************************************************)
(* The write server's record (SQLNormalRecord).                           *)
(***************************************************************************)
\* setNull / isNull: base fields in the bytes before the base data, extend
\* fields in the bytes before the extend data (extendOffSet())
NullPos(k) ==
    IF k < NB THEN [byte |-> k \div 8, bit |-> k % 8]
    ELSE [byte |-> extendOffSet + (k - NB) \div 8, bit |-> (k - NB) % 8]
setNull(m, k, v) == [m EXCEPT ![NullPos(k).byte + 1] = WithBit(@, NullPos(k).bit, v)]
isNull(m, k) == Bit(m[NullPos(k).byte + 1], NullPos(k).bit) = 1

\* setValue / readField on r = [m |-> memory, vm |-> var store]: a NULL sets
\* the bit and leaves the data; a non-empty string or blob goes to the var
\* store under a new id, an empty one is id 0.
setValue(r, k, val) ==
    IF val = <<>> THEN [r EXCEPT !.m = setNull(@, k, 1)]
    ELSE LET m == setNull(r.m, k, 0)
             x == val[1]
             o == dataOffSet(k)
         IN CASE FT(k) = dtBoolean -> [r EXCEPT !.m = Put(m, o, <<IF x THEN 1 ELSE 0>>)]
              [] FT(k) = dtSmallInt -> [r EXCEPT !.m = Put(m, o, Enc(x, 2))]
              [] FT(k) = dtInt -> [r EXCEPT !.m = Put(m, o, Enc(x, 4))]
              [] x = <<>> -> [r EXCEPT !.m = Put(m, o, Enc(0, 4))]
              [] OTHER -> [m |-> Put(m, o, Enc(Len(r.vm) + 1, 4)), vm |-> Append(r.vm, x)]

\* SQLNormalRecord::value
value(m, vm, k) ==
    IF isNull(m, k) THEN <<>>
    ELSE LET o == dataOffSet(k) IN
         CASE FT(k) = dtBoolean -> <<m[o + 1] = 1>>
           [] FT(k) = dtSmallInt -> <<DecS(m, o, 2)>>
           [] FT(k) = dtInt -> <<DecS(m, o, 4)>>
           [] OTHER -> <<IF DecU(m, o, 4) = 0 THEN <<>> ELSE vm[DecU(m, o, 4)]>>

\* SQLNormalRecord::read: readField for every field, in schema order
RECURSIVE read(_, _, _)
read(r, k, v) == IF k = FC THEN r ELSE read(setValue(r, k, v[k + 1]), k + 1, v)

\* exchangeUpdateFields for extend field j of one record
Exchange1(r, j) ==
    LET b == ExtOf[j] - 1
        e == NB + j - 1
        old == value(r.m, r.vm, b)
    IN setValue(setValue(r, b, value(r.m, r.vm, e)), e, old)

(***************************************************************************)
(* writeUpdateTable: SQLNormalRecord::save is writeNullBit then           *)
(* writeField for each field.                                              *)
(***************************************************************************)
writeString(s) == Enc(Len(s), 2) \o SubSeq(s, 1, Len(s) % 65536)
\* writeNullBit: the extend branch assigns the base null bytes to bitBytes,
\* which reallocates it to their length, so only those bytes are written
\* (the extend bits are set past its end).
writeNullBit(m) == Slice(m, 0, IF NE = 0 THEN NullBytes(FC) ELSE NullBytes(NB))
writeField(m, vm, k) ==
    LET o == dataOffSet(k)
        id == DecU(m, o, 4)
    IN CASE FT(k) \in {dtBoolean, dtSmallInt, dtInt} -> Slice(m, o, dataSize(FT(k)))
         [] FT(k) = dtString -> IF id = 0 THEN Enc(0, 2) ELSE writeString(vm[id])
         [] OTHER -> IF id = 0 THEN Enc(0, 4) ELSE Enc(Len(vm[id]), 4) \o vm[id]
save(m, vm) == writeNullBit(m) \o FlattenSeq([k \in 1 .. FC |-> writeField(m, vm, k - 1)])

writeUpdateTable(mode, rs, vm) ==
    LET head == writeString(TableName)
                \o IF NE = 0 THEN <<0>>
                   ELSE <<NE>> \o FlattenSeq([j \in 1 .. NE |-> writeString(ExtNames[j]) \o <<FT(NB + j - 1)>>])
        body == Enc(Len(rs), 4) \o FlattenSeq([i \in DOMAIN rs |-> save(rs[i], vm)])
    IN <<mode>> \o Enc(Len(head \o body), 4) \o head \o body

(***************************************************************************)
(* The read server: readUpdateTable, SQLTempRecord::load and value.  d is *)
(* the task's rawData, the bytes after the mode and the length.            *)
(***************************************************************************)
\* the position after the extend field names and types
RECURSIVE SkipFields(_, _, _)
SkipFields(d, pos, n) == IF n = 0 THEN pos ELSE SkipFields(d, pos + 2 + DecU(d, pos, 2) + 1, n - 1)

\* SQLTempRecord::load from field k on: in.pos() is pos, the running
\* offset is offset; the extend null bytes are skipped in the stream only.
RECURSIVE loadFields(_, _, _, _, _)
loadFields(d, k, pos, offset, offs) ==
    IF k = FC THEN [pos |-> pos, offs |-> offs]
    ELSE LET p == IF k = NB THEN pos + NullBytes(FC - NB) ELSE pos
             w == CASE FT(k) = dtString -> 2 + DecU(d, p, 2)
                    [] FT(k) = dtBlob -> 4 + DecS(d, p, 4)
                    [] OTHER -> dataSize(FT(k))
         IN loadFields(d, k + 1, p + w, offset + w, Append(offs, offset))
loadOffsetAtNulls(d, pos) == loadFields(d, 0, pos + NullBytes(NB), pos, <<>>)
load(d, pos) == loadFields(d, 0, pos + NullBytes(NB), pos + NullBytes(NB), <<>>)

RECURSIVE loadRecords(_, _, _)
loadRecords(d, pos, n) ==
    IF n = 0 THEN <<>>
    ELSE LET r == load(d, pos) IN <<r.offs>> \o loadRecords(d, r.pos, n - 1)

readUpdateTable(d) ==
    LET p0 == 2 + DecU(d, 0, 2)
        n == At(d, p0 + 1)
        p == IF n > 0 THEN SkipFields(d, p0 + 1, n) ELSE p0 + 1
    IN loadRecords(d, p + 4, DecU(d, p, 4))

\* SQLTempRecord::isNull: base bits just before the record's first field,
\* extend bits at extendOffSet() of the whole buffer
tempNullPos(offs, k) ==
    IF k < NB THEN [byte |-> offs[1] - NullBytes(NB) + k \div 8, bit |-> k % 8]
    ELSE [byte |-> extendOffSet + (k - NB) \div 8, bit |-> (k - NB) % 8]

\* SQLTempRecord::value
tempValue(d, offs, k) ==
    IF Bit(At(d, tempNullPos(offs, k).byte + 1), tempNullPos(offs, k).bit) = 1 THEN <<>>
    ELSE LET o == offs[k + 1] IN
         CASE FT(k) = dtBoolean -> <<At(d, o + 1) = 1>>
           [] FT(k) = dtSmallInt -> <<DecS(d, o, 2)>>
           [] FT(k) = dtInt -> <<DecS(d, o, 4)>>
           [] FT(k) = dtString -> <<Slice(d, o + 2, DecU(d, o, 2))>>
           [] OTHER -> <<Slice(d, o + 4, DecS(d, o, 4))>>

(***************************************************************************)
(* Steps.                                                                  *)
(***************************************************************************)
ValsOf(t) == CASE t = dtBoolean -> BOOLEAN
               [] t \in {dtSmallInt, dtInt} -> IntVals
               [] OTHER -> StrVals
FieldVals(k) == {<<>>} \cup {<<x>> : x \in ValsOf(FT(k))}
\* the rows a select may return: value k+1 is field k's
RECURSIVE RowsFrom(_)
RowsFrom(k) == IF k = FC THEN {<<>>} ELSE {<<x>> \o r : x \in FieldVals(k), r \in RowsFrom(k + 1)}
RowValues == RowsFrom(0)

\* the base fields' swap of exchangeUpdateFields, as values
Swapped(v) ==
    [i \in 1 .. FC |->
        IF i > NB THEN v[ExtOf[i - NB]]
        ELSE IF \E j \in 1 .. NE : ExtOf[j] = i
             THEN v[NB + (CHOOSE j \in 1 .. NE : ExtOf[j] = i)]
             ELSE v[i]]

\* exchangeUpdateFields: for each extend field, for each record
RECURSIVE ExchangeAll(_, _, _)
ExchangeAll(st, j, i) ==
    IF j > NE THEN st
    ELSE IF i > Len(st.rs) THEN ExchangeAll(st, j + 1, 1)
    ELSE LET r == Exchange1([m |-> st.rs[i], vm |-> st.vm], j)
         IN ExchangeAll([rs |-> [st.rs EXCEPT ![i] = r.m], vm |-> r.vm], j, i + 1)

Init ==
    /\ rows = <<>>
    /\ varMem = <<>>
    /\ sent = <<>>
    /\ phase = "select"
    /\ out = <<>>
    /\ temp = <<>>

\* MySQLConnector::select appends one result row (newRecord, read, append);
\* a fresh record's memory is taken to be zero.  doUpdate's select reads
\* the new values as "? AS name_suffix", the same in every row.
SelectRow ==
    /\ phase = "select" /\ Len(rows) < MaxRows
    /\ \E v \in RowValues :
      /\ \A i \in DOMAIN sent : SubSeq(sent[i], NB + 1, FC) = SubSeq(v, NB + 1, FC)
      /\ LET r == read([m |-> [i \in 1 .. recordLength |-> 0], vm |-> varMem], 0, v)
         IN /\ rows' = Append(rows, r.m)
            /\ varMem' = r.vm
            /\ sent' = Append(sent, v)
    /\ UNCHANGED <<phase, out, temp>>

\* doUpdate after the UPDATE succeeded: exchangeUpdateFields
Exchange ==
    /\ phase = "select" /\ NE > 0 /\ rows # <<>>
    /\ LET st == ExchangeAll([rs |-> rows, vm |-> varMem], 1, 1)
       IN rows' = st.rs /\ varMem' = st.vm
    /\ sent' = [i \in DOMAIN sent |-> Swapped(sent[i])]
    /\ phase' = "exchanged"
    /\ UNCHANGED <<out, temp>>

\* writeUpdateTable: umInsert/umDelete for a normal schema, umModify after
\* the exchange
Write ==
    /\ \/ phase = "select" /\ NE = 0 /\ rows # <<>>
       \/ phase = "exchanged"
    /\ out' = writeUpdateTable(IF NE = 0 THEN umInsert ELSE umModify, rows, varMem)
    /\ phase' = "written"
    /\ UNCHANGED <<rows, varMem, sent, temp>>

\* addUpdateCacheTask keeps the bytes after the mode and the length, and
\* prepareUpdateCacheTaskData runs readUpdateTable on them
Read ==
    /\ phase = "written"
    /\ temp' = readUpdateTable(SubSeq(out, 6, Len(out)))
    /\ phase' = "read"
    /\ UNCHANGED <<rows, varMem, sent, out>>

Next == SelectRow \/ Exchange \/ Write \/ Read

Spec == Init /\ [][Next]_vars

(***************************************************************************)
(* Properties.                                                             *)
(***************************************************************************)
Bytes(s) == \A i \in DOMAIN s : s[i] \in 0 .. 255

TypeOK ==
    /\ phase \in {"select", "exchanged", "written", "read"}
    /\ Len(rows) = Len(sent) /\ Len(rows) <= MaxRows
    /\ \A i \in DOMAIN rows : Len(rows[i]) = recordLength /\ Bytes(rows[i])
    /\ \A i \in DOMAIN sent : Len(sent[i]) = FC /\ \A k \in Fields : sent[i][k + 1] \in FieldVals(k)
    /\ \A i \in DOMAIN varMem : varMem[i] \in StrVals
    /\ Bytes(out)

\* After each step of the write server, its records give back the values
\* the select returned, with the new and old values exchanged once
\* exchangeUpdateFields ran (readField/setValue/value and the null bits of
\* the base and the extend area, setNull/isNull).
RecordsHold == \A i \in DOMAIN rows, k \in Fields : value(rows[i], varMem, k) = sent[i][k + 1]

\* Once the read server has parsed an update table, it holds one
\* SQLTempRecord per row the write server sent, and each gives, field by
\* field, the value the write server's record held: for an insert or a
\* delete the row, for an update the new values in the base fields and the
\* old ones in the extend fields (save/writeNullBit/writeField against
\* readUpdateTable/SQLTempRecord::load/isNull/value).
RoundTrip ==
    phase = "read" =>
        LET d == SubSeq(out, 6, Len(out))
        IN /\ Len(temp) = Len(sent)
           /\ \A i \in DOMAIN sent, k \in Fields : tempValue(d, temp[i], k) = sent[i][k + 1]
====
