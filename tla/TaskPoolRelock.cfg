\* Two shards, one client issuing one select of a sql that hashes to
\* shard 0, one replacement thread.
CONSTANTS
    ShardCount = 2
    Clients = {c1}
    QueueSize = 2
    Requests = 1
    MaxThreads = 3
    MaxUpdates = 0
    NoHolder = NoHolder
    ReadMode = FALSE
    SqlHashes = {0}
SPECIFICATION Spec
PROPERTY SelectReturns
CHECK_DEADLOCK FALSE
