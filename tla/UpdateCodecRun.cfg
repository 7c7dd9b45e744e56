\* The insert and the update table of t, each sent in the answer to its
\* write beside another answer and read back in chunks of every size.
SPECIFICATION MCSpec
INVARIANT MCTypeOK MCRecordsHold InsertRoundTrip Reassembled
PROPERTY Delivered
\* a behaviour ends when the table is parsed and the stream drained, or
\* when the read server died in syncWrite
CHECK_DEADLOCK FALSE
