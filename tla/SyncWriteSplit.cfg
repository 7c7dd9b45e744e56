\* The answers of two writes read in chunks of every size: a chunk that
\* ends inside a frame's 4-byte length kills the read server.
SPECIFICATION MCSpec
INVARIANT NoOverRead
CHECK_DEADLOCK FALSE
