CONSTANTS
    Pks <- MCPks
    WVals = {1, 2}
    BVals = {1, 2}
    UpdateFields = {"w", "b"}
    Parsed = {TRUE}
    LongFieldName = TRUE
    MaxWrites = 3
SPECIFICATION Spec
INVARIANT CacheCoherent
