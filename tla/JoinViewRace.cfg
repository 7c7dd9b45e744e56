CONSTANTS
    LPks <- MCLPks
    RPks <- MCRPks
    WVals = {1, 2}
    BVals = {1, 2}
    Indexed = TRUE
    Parsed = {TRUE}
    LongFieldName = TRUE
    MaxWrites = 4
SPECIFICATION Spec
INVARIANT JoinCoherent
