------------------------------ MODULE SyncWrite ------------------------------
(***************************************************************************)
(* The answers of the write server as the main read server receives them  *)
(* (SQLContext::syncWrite, SQLContext.cpp).  The write server frames each *)
(* answer in execUpdate: a 4-byte length, then errorCode (1 byte),        *)
(* updateCount (4), the read server's thread index (1) and WriteTaskData  *)
(* pointer (8), and the update table the write produced.  The frames go   *)
(* down one TCP connection; on the read server libevent's on_read_cb      *)
(* hands processCommand whatever bufferevent_read returns, any number of  *)
(* bytes, and processCommand passes it to syncWrite, which assembles the  *)
(* frame in m_buffer, wakes the waiting client (setTaskFinish) and queues *)
(* the update data (addUpdateCacheTask).  Integers are big-endian, as     *)
(* OutputStream::writeInt and ByteArrayImpl::getInt32 make them.           *)
(***************************************************************************)
EXTENDS Integers, Sequences, SequencesExt, FiniteSets

CONSTANTS
    Answers,   \* answers the write server sends, each once, in any order
    Ptrs       \* the WriteTaskData pointers the answers carry

VARIABLES
    wire,       \* bytes sent and not yet read by bufferevent_read
    unsent,     \* answers of Answers not yet sent
    sentLog,    \* every answer sent, in the order of the stream
    hasBuffer,  \* m_buffer is not null
    buffer,     \* m_buffer's bytes
    bufferLen,  \* m_bufferLen
    finished,   \* [ptr, errorCode, updateCount, thIndex] of each setTaskFinish
    inputs,     \* the inputs of addUpdateCacheTask, in order
    crashed     \* the read server died in syncWrite

swVars == <<wire, unsent, sentLog, hasBuffer, buffer, bufferLen, finished, inputs, crashed>>

Bytes == 0 .. 255

\* big-endian integers: OutputStream::writeInt/writeLong, getInt32/getInt64
RECURSIVE Enc(_, _)
Enc(x, n) == IF n = 0 THEN <<>> ELSE Enc(x \div 256, n - 1) \o <<x % 256>>
RECURSIVE getUint(_, _, _)
getUint(d, o, n) == IF n = 0 THEN 0 ELSE getUint(d, o, n - 1) * 256 + d[o + n]
getInt32(d, o) == (IF d[o + 1] >= 128 THEN d[o + 1] - 256 ELSE d[o + 1]) * 2 ^ 24
                  + getUint(d, o + 1, 3)

\* execUpdate on the write server: writeUInt(0), errorCode, updateCount and
\* the extInfo (thread index, pointer) the read server sent, then the
\* update data; the length is patched to byteLength() - 4 at the end.
Frame(a) ==
    LET body == <<a.errorCode>> \o Enc(a.updateCount, 4) \o <<a.thIndex>>
                \o Enc(a.ptr, 8) \o a.update
    IN Enc(Len(body), 4) \o body

Result(a) == [ptr |-> a.ptr, errorCode |-> a.errorCode,
              updateCount |-> a.updateCount, thIndex |-> a.thIndex]

\* ByteArrayImpl::assign(other, pos): memcpy of other at pos
Assign(b, d, pos) == [i \in DOMAIN b |-> IF i - pos \in DOMAIN d THEN d[i - pos] ELSE b[i]]

\* a - b in uint32_t: below zero it wraps to 2^32 - (b - a), more than
\* any chunk holds, which TLC's integers stand for by their largest value.
SubU32(a, b) == IF a >= b THEN a - b ELSE 2147483647

\* the syncWrite state as one record, for the recursion
S == [has |-> hasBuffer, buf |-> buffer, len |-> bufferLen, fin |-> finished,
      in |-> inputs, crashed |-> crashed]

\* Complete keeping one header byte too few off the update data.
CompleteSlice13(s) ==
    LET r == [ptr |-> getUint(s.buf, 6, 8), errorCode |-> s.buf[1],
              updateCount |-> getInt32(s.buf, 1), thIndex |-> s.buf[6]]
    IN [s EXCEPT !.has = FALSE, !.buf = <<>>, !.fin = @ \cup {r},
                 !.in = IF r.updateCount > 0
                        THEN Append(@, SubSeq(s.buf, 14, Len(s.buf))) ELSE @]

\* Complete waking the client only when the write changed rows.
CompleteFinishOnUpdate(s) ==
    LET r == [ptr |-> getUint(s.buf, 6, 8), errorCode |-> s.buf[1],
              updateCount |-> getInt32(s.buf, 1), thIndex |-> s.buf[6]]
    IN [s EXCEPT !.has = FALSE, !.buf = <<>>,
                 !.fin = IF r.updateCount > 0 THEN @ \cup {r} ELSE @,
                 !.in = IF r.updateCount > 0
                        THEN Append(@, SubSeq(s.buf, 15, Len(s.buf))) ELSE @]

\* m_bufferLen == m_buffer->byteLength(): read the header the frame starts
\* with, queue the update data if the write changed rows, reset m_buffer
\* and wake the thread waiting on the task.
Complete(s) ==
    LET r == [ptr |-> getUint(s.buf, 6, 8), errorCode |-> s.buf[1],
              updateCount |-> getInt32(s.buf, 1), thIndex |-> s.buf[6]]
    IN [s EXCEPT !.has = FALSE, !.buf = <<>>, !.fin = @ \cup {r},
                 !.in = IF r.updateCount > 0
                        THEN Append(@, SubSeq(s.buf, 15, Len(s.buf))) ELSE @]

\* syncWrite(data).  With m_buffer null it takes the length from the
\* first 4 bytes and slices them off: a chunk of fewer than 4 bytes is read
\* past its end by readUInt, and slice(4) computes its length as
\* byteLength() - 4 in uint32_t, so ByteArray::from copies about 4 GiB
\* from the heap and the process dies.  Otherwise it copies what fits in
\* m_buffer, completes the frame when full, and calls itself on the rest.
RECURSIVE syncWrite(_, _)
\* syncWrite adding the whole chunk to m_bufferLen when only toRead bytes
\* of it fit.
syncWriteLenAll(st, data) ==
    IF ~st.has /\ Len(data) < 4 THEN [st EXCEPT !.crashed = TRUE]
    ELSE
      LET s1 == IF st.has THEN st
                ELSE [st EXCEPT !.has = TRUE, !.len = 0,
                                !.buf = [i \in 1 .. getUint(data, 0, 4) |-> 0]]
          d1 == IF st.has THEN data ELSE SubSeq(data, 5, Len(data))
          toRead == SubU32(Len(s1.buf), s1.len)
          s2 == IF Len(d1) <= toRead
                THEN [s1 EXCEPT !.buf = Assign(@, d1, s1.len), !.len = @ + Len(d1)]
                ELSE [s1 EXCEPT !.buf = Assign(@, SubSeq(d1, 1, toRead), s1.len),
                                !.len = @ + Len(d1)]
          rest == IF Len(d1) <= toRead THEN <<>> ELSE SubSeq(d1, toRead + 1, Len(d1))
          s3 == IF s2.len = Len(s2.buf) THEN Complete(s2) ELSE s2
      IN IF rest # <<>> THEN syncWrite(s3, rest) ELSE s3

syncWrite(st, data) ==
    IF ~st.has /\ Len(data) < 4 THEN [st EXCEPT !.crashed = TRUE]
    ELSE
      LET s1 == IF st.has THEN st
                ELSE [st EXCEPT !.has = TRUE, !.len = 0,
                                !.buf = [i \in 1 .. getUint(data, 0, 4) |-> 0]]
          d1 == IF st.has THEN data ELSE SubSeq(data, 5, Len(data))
          toRead == SubU32(Len(s1.buf), s1.len)
          s2 == IF Len(d1) <= toRead
                THEN [s1 EXCEPT !.buf = Assign(@, d1, s1.len), !.len = @ + Len(d1)]
                ELSE [s1 EXCEPT !.buf = Assign(@, SubSeq(d1, 1, toRead), s1.len),
                                !.len = Len(s1.buf)]
          rest == IF Len(d1) <= toRead THEN <<>> ELSE SubSeq(d1, toRead + 1, Len(d1))
          s3 == IF s2.len = Len(s2.buf) THEN Complete(s2) ELSE s2
      IN IF rest # <<>> THEN syncWrite(s3, rest) ELSE s3

Init ==
    /\ wire = <<>>
    /\ unsent = Answers
    /\ sentLog = <<>>
    /\ hasBuffer = FALSE
    /\ buffer = <<>>
    /\ bufferLen = 0
    /\ finished = {}
    /\ inputs = <<>>
    /\ crashed = FALSE

\* The write server's CacheServer::doProcessCommand writes answer a to the
\* connection (bufferevent_write of the framed buffer).
Send(a) ==
    /\ wire' = wire \o Frame(a)
    /\ sentLog' = Append(sentLog, a)
    /\ UNCHANGED <<hasBuffer, buffer, bufferLen, finished, inputs, crashed>>

SendAnswer ==
    \E a \in unsent : Send(a) /\ unsent' = unsent \ {a}

\* on_read_cb: bufferevent_read returns the first n bytes of the stream,
\* and processCommand, the connection being m_sendBuff, calls syncWrite.
Receive ==
    /\ ~crashed /\ wire # <<>>
    /\ \E n \in 1 .. Len(wire) :
         LET st == syncWrite(S, SubSeq(wire, 1, n))
         IN /\ wire' = SubSeq(wire, n + 1, Len(wire))
            /\ hasBuffer' = st.has /\ buffer' = st.buf /\ bufferLen' = st.len
            /\ finished' = st.fin /\ inputs' = st.in /\ crashed' = st.crashed
    /\ UNCHANGED <<unsent, sentLog>>

Next == SendAnswer \/ Receive

\* libevent calls on_read_cb whenever the connection has bytes to read.
Spec == Init /\ [][Next]_swVars /\ WF_swVars(Receive)

(***************************************************************************)
(* Properties.                                                             *)
(***************************************************************************)
TypeOK ==
    /\ \A i \in DOMAIN wire : wire[i] \in Bytes
    /\ unsent \subseteq Answers
    /\ hasBuffer \in BOOLEAN /\ crashed \in BOOLEAN
    /\ \A i \in DOMAIN buffer : buffer[i] \in Bytes
    /\ bufferLen \in Nat /\ (hasBuffer => bufferLen <= Len(buffer))
    /\ \A r \in finished : r.ptr \in Ptrs

\* Whatever chunks the stream is read in, syncWrite has completed exactly
\* the first answers sent, waking each task with the errorCode and
\* updateCount the write server sent it and queueing the update data of
\* those that changed rows, in order; a frame in assembly holds the start
\* of the next answer (the m_bufferLen/toRead arithmetic, the m_buffer
\* reset and the recursion on the rest of a chunk).
Reassembled ==
    LET m == Cardinality(finished)
        done == SubSeq(sentLog, 1, m)
    IN /\ m <= Len(sentLog)
       /\ finished = {Result(done[i]) : i \in 1 .. m}
       /\ inputs = [i \in 1 .. Len(SelectSeq(done, LAMBDA a : a.updateCount > 0)) |->
                      SelectSeq(done, LAMBDA a : a.updateCount > 0)[i].update]
       /\ hasBuffer =>
            /\ m < Len(sentLog)
            /\ SubSeq(buffer, 1, bufferLen) = SubSeq(Frame(sentLog[m + 1]), 5, bufferLen + 4)

\* Every answer sent wakes the client waiting on it, unless the read
\* server has died (setTaskFinish after the last byte of the frame).
Delivered ==
    \A p \in Ptrs :
        (\E i \in DOMAIN sentLog : sentLog[i].ptr = p) ~>
            (crashed \/ \E r \in finished : r.ptr = p)

\* syncWrite never reads the 4-byte length from a chunk that holds fewer
\* bytes, so the read server survives every way TCP splits the answers.
NoOverRead == ~crashed
====
