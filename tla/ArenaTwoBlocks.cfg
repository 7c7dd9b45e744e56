\* Two blocks of two nodes per class, one small and one big request size:
\* enough allocations for prepare() to link a second block in front of a
\* held first node.
CONSTANTS
    RequestSizes = {15, 65520}
    NodesPerBlock = 2
    MaxBlocks = 2
    MaxBig = 1
    Nil = Nil
SPECIFICATION Spec
INVARIANT FreeChain
