\* kind "pool": two shards, two clients of two requests each (selects of a
\* sql of either hash, or writes in read mode), one broadcast, a ring of
\* four slots (wrapped by five tasks), and one replacement thread.
\* kind "table": COMPRESS_RANGE is 2, so six tables make three ranges, and
\* the eviction index (range >> COMPRESS_RANGE_P) takes two values; three
\* parameter keys of the one cached query, an equal index.
CONSTANTS
    ShardCount = 2
    Clients = {c1, c2}
    QueueSize = 4
    Requests = 2
    MaxThreads = 3
    MaxUpdates = 1
    NoHolder = NoHolder
    ReadMode = TRUE
    SqlHashes = {0, 1}
    CompressRangeP = 1
    MaxTables = 6
    MaxVisits = 3
    MaxResets = 1
    SoftOutcomes = {FALSE, TRUE}
    HardOutcomes = {FALSE, TRUE}
    IndexOp = "="
    DoubleMaxCast = "INT64_MAX"
SPECIFICATION MCSpec
SYMMETRY ClientSymmetry
INVARIANT TypeOK RefCountMatches AnsweredOnce KeyStable IndexComplete
PROPERTY TakeOnce HotRangeKept
\* a behaviour ends when every request is answered, or when the
\* container's bounds are reached
CHECK_DEADLOCK FALSE
