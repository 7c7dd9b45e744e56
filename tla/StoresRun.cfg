\* A shard's arena and both record stores, with the bounds of MCStores.
\* The array store's behaviours end at its bounds on allocations and resets.
CONSTANT Nil = Nil
SPECIFICATION MCSpec
INVARIANT TypeOK WriteBlockLive   FreeChain ClassFits
CHECK_DEADLOCK FALSE
