\* Blocks of 20 bytes hold two 4-byte rows each (8 header bytes, 2 per
\* length entry), so rows spread over three blocks; a block with one row
\* recycled has 12 bytes free and joins the reuse list (limit 5).  Two
\* kinds of content, five ids between resets, no reset.
CONSTANTS
    BlockBytes = 20
    HeaderBytes = 8
    ReuseLimit = 5
    InitBlocks = 1
    MaxBlocks = 3
    MaxAllocs = 5
    MaxResets = 0
    Lens = {4}
    Tags = {1, 2}
    CompressRange = 2
    PushRange = 4
    SoftOutcomes = {FALSE}
    HardOutcomes = {FALSE}
SPECIFICATION Spec
INVARIANT RoundTrip
CHECK_DEADLOCK FALSE
