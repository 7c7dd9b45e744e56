------------------------------- MODULE Arena -------------------------------
(***************************************************************************)
(* MemoryManager (src/MySQLCache/Memory/MemoryManager.cpp): one shard's    *)
(* arena.  Each regular size class keeps one doubly linked list of nodes,  *)
(* the free ones at the front (the comment on MemoryList: allocate takes   *)
(* first and moves it to last, so first is always free) and the held ones  *)
(* behind them.  A class with no idle node carves a new block of nodes.    *)
(* Big requests are malloc'ed and kept on the last list.                   *)
(*                                                                         *)
(* A node is <<list, block, k>>: the k-th node of the block-th block of    *)
(* that list, or <<BigList, j, 0>> for the j-th malloc address.  The       *)
(* list fields are functions of the node, as in MemoryNodeHeader.          *)
(***************************************************************************)
EXTENDS Integers, Sequences, FiniteSets, Functions

CONSTANTS
    RequestSizes,   \* the sizes callers pass to allocate()
    NodesPerBlock,  \* MIN_NODE_SIZE (256)
    MaxBlocks,      \* bound on prepare() calls per class
    MaxBig,         \* bound on distinct malloc addresses for big requests
    Nil             \* nullptr

MAX_REGULAR_POWER_NUMBER == 16
MAX_REGULAR_SIZE == 65536
MEMORY_LIST_SIZE == 15
HeaderSize == 17                      \* sizeof(MemoryNodeHeader), pack(1)
BigList == MEMORY_LIST_SIZE - 1

regularMemoryLimit == MAX_REGULAR_SIZE - HeaderSize

\* Mutant: the loop leaves the node header out of the comparison.
RECURSIVE PowerLoopNoHeader(_, _, _)
PowerLoopNoHeader(size, powerValue, curValue) ==
    IF curValue < size
    THEN PowerLoopNoHeader(size, powerValue + 1, curValue * 2)
    ELSE powerValue

\* The loop of allocate(): the smallest p with 2^p >= size + header.
RECURSIVE PowerLoop(_, _, _)
PowerLoop(size, powerValue, curValue) ==
    IF curValue < size + HeaderSize
    THEN PowerLoop(size, powerValue + 1, curValue * 2)
    ELSE powerValue

ClassOf(size) ==
    LET p == PowerLoop(size, 0, 1) IN (IF p <= 3 THEN 3 ELSE p) - 3

nodeSize(scaleIndex) == 2 ^ (3 + scaleIndex) + HeaderSize - 1

Classes == {ClassOf(s) : s \in {r \in RequestSizes : r <= regularMemoryLimit}}
HasBig == \E s \in RequestSizes : s > regularMemoryLimit
Lists == Classes \cup {BigList}

BlockNodes(c, b) == {<<c, b, k>> : k \in 0 .. NodesPerBlock - 1}
RegularNodes == UNION {BlockNodes(c, b) : c \in Classes, b \in 0 .. MaxBlocks - 1}
BigNodes == {<<BigList, j, 0>> : j \in 1 .. MaxBig}
Nodes == RegularNodes \cup BigNodes

\* The size byte of a node header: 3 + scaleIndex, or 17 for a big node.
SizeByte(n) ==
    IF n[1] = BigList THEN MAX_REGULAR_POWER_NUMBER + 1 ELSE 3 + n[1]

VARIABLES
    first, last,    \* MemoryList.first / .last of every list
    prev, next,     \* MemoryNodeHeader.prev / .next of every node
    idle, total,    \* MemoryList.idle / .total
    blocks,         \* the length of the firstBlock .. lastBlock chain
    inUse,          \* ghost: the nodes handed out and not recycled
    asked           \* ghost: asked[n], the size the holder of n requested

vars == <<first, last, prev, next, idle, total, blocks, inUse, asked>>

\* The arena as one record, so that a call chain is a composition of
\* functions from record to record.
A == [first |-> first, last |-> last, prev |-> prev, next |-> next,
      idle |-> idle, total |-> total, blocks |-> blocks]

Commit(a) ==
    /\ first' = a.first
    /\ last' = a.last
    /\ prev' = a.prev
    /\ next' = a.next
    /\ idle' = a.idle
    /\ total' = a.total
    /\ blocks' = a.blocks

\* node->prev->next = v, skipped when the pointer is null.
SetNext(a, n, v) == IF n = Nil THEN a ELSE [a EXCEPT !.next[n] = v]
SetPrev(a, n, v) == IF n = Nil THEN a ELSE [a EXCEPT !.prev[n] = v]

\* Mutant: listRemove forgets to advance mm.first.
listRemoveKeepFirst(a, l, n) ==
    LET a1 == SetNext(a, a.prev[n], a.next[n])
        a2 == SetPrev(a1, a1.next[n], a1.prev[n])
        a4 == IF n = a2.last[l] THEN [a2 EXCEPT !.last[l] = a2.prev[n]] ELSE a2
    IN  [a4 EXCEPT !.prev[n] = Nil, !.next[n] = Nil]

listRemove(a, l, n) ==
    LET a1 == SetNext(a, a.prev[n], a.next[n])
        a2 == SetPrev(a1, a1.next[n], a1.prev[n])
        a3 == IF n = a2.first[l] THEN [a2 EXCEPT !.first[l] = a2.next[n]] ELSE a2
        a4 == IF n = a3.last[l] THEN [a3 EXCEPT !.last[l] = a3.prev[n]] ELSE a3
    IN  [a4 EXCEPT !.prev[n] = Nil, !.next[n] = Nil]

listInsertFirst(a, l, n) ==
    LET oldFirst == a.first[l]
        a1 == [a EXCEPT !.first[l] = n, !.next[n] = oldFirst]
    IN  SetPrev(a1, oldFirst, n)

listInsertLast(a, l, n) ==
    LET oldLast == a.last[l]
        a1 == [a EXCEPT !.last[l] = n, !.prev[n] = oldLast]
    IN  SetNext(a1, oldLast, n)

\* prepare(scaleIndex): a block of nodes chained prev/next, put in front.
prepare(a, c) ==
    LET b == a.blocks[c]
        Node(k) == <<c, b, k>>
        newFirst == Node(0)
        newLast == Node(NodesPerBlock - 1)
        a1 == [a EXCEPT
                !.prev = [n \in DOMAIN a.prev |->
                            IF n \in BlockNodes(c, b)
                            THEN IF n[3] = 0 THEN Nil ELSE Node(n[3] - 1)
                            ELSE a.prev[n]],
                !.next = [n \in DOMAIN a.next |->
                            IF n \in BlockNodes(c, b)
                            THEN IF n[3] = NodesPerBlock - 1 THEN Nil
                                 ELSE Node(n[3] + 1)
                            ELSE a.next[n]],
                !.idle[c] = @ + NodesPerBlock,
                !.total[c] = @ + NodesPerBlock]
        a2 == SetPrev(a1, a1.first[c], newLast)
        a3 == [a2 EXCEPT !.first[c] = newFirst, !.blocks[c] = @ + 1]
    IN  IF a3.last[c] = Nil THEN [a3 EXCEPT !.last[c] = newLast] ELSE a3

\* Mutant: allocate() forgets --objMM.idle.
AllocateRegularKeepIdle(a, c) ==
    LET a1 == IF a.idle[c] = 0 THEN prepare(a, c) ELSE a
        node == a1.first[c]
    IN  [node |-> node, arena |-> listInsertLast(listRemove(a1, c, node), c, node)]

\* The regular branch of allocate(): the node it returns and the arena.
AllocateRegular(a, c) ==
    LET a1 == IF a.idle[c] = 0 THEN prepare(a, c) ELSE a
        node == a1.first[c]
        a2 == listInsertLast(listRemove(a1, c, node), c, node)
    IN  [node |-> node, arena |-> [a2 EXCEPT !.idle[c] = @ - 1]]

\* The big branch: a malloc'ed node appended to the last list.
AllocateBig(a, node) ==
    LET a1 == [a EXCEPT !.prev[node] = Nil, !.next[node] = Nil]
        a2 == listInsertLast(a1, BigList, node)
    IN  [a2 EXCEPT !.total[BigList] = @ + 1]

\* Mutant: freeNode() forgets --mm.total.
freeNodeKeepTotal(a, l, n) == listRemove(a, l, n)

freeNode(a, l, n) == [listRemove(a, l, n) EXCEPT !.total[l] = @ - 1]

recycleNode(a, l, n) ==
    [listInsertFirst(listRemove(a, l, n), l, n) EXCEPT !.idle[l] = @ + 1]

RecycleNode(a, n) ==
    IF SizeByte(n) > MAX_REGULAR_POWER_NUMBER
    THEN freeNode(a, BigList, n)
    ELSE recycleNode(a, SizeByte(n) - 3, n)

-----------------------------------------------------------------------------

\* init(): m_mms zeroed.
Init ==
    /\ first = [l \in Lists |-> Nil]
    /\ last = [l \in Lists |-> Nil]
    /\ prev = [n \in Nodes |-> Nil]
    /\ next = [n \in Nodes |-> Nil]
    /\ idle = [l \in Lists |-> 0]
    /\ total = [l \in Lists |-> 0]
    /\ blocks = [l \in Lists |-> 0]
    /\ inUse = {}
    /\ asked = [n \in Nodes |-> 0]

\* allocate(size).  prepare() beyond MaxBlocks blocks is outside the model.
Allocate(size) ==
    IF size > regularMemoryLimit
    THEN \E node \in BigNodes \ inUse :
            /\ Commit(AllocateBig(A, node))
            /\ inUse' = inUse \cup {node}
            /\ asked' = [asked EXCEPT ![node] = size]
    ELSE LET c == ClassOf(size)
             r == AllocateRegular(A, c)
         IN  /\ idle[c] = 0 => blocks[c] < MaxBlocks
             /\ Commit(r.arena)
             /\ inUse' = inUse \cup {r.node}
             /\ asked' = [asked EXCEPT ![r.node] = size]

\* recycle(mem) of memory a caller holds.
Recycle(n) ==
    /\ Commit(RecycleNode(A, n))
    /\ inUse' = inUse \ {n}
    /\ UNCHANGED asked

Next ==
    \/ \E size \in RequestSizes : Allocate(size)
    \/ \E n \in inUse : Recycle(n)

Spec == Init /\ [][Next]_vars

-----------------------------------------------------------------------------

TypeOK ==
    /\ first \in [Lists -> Nodes \cup {Nil}]
    /\ last \in [Lists -> Nodes \cup {Nil}]
    /\ prev \in [Nodes -> Nodes \cup {Nil}]
    /\ next \in [Nodes -> Nodes \cup {Nil}]
    /\ idle \in [Lists -> 0 .. MaxBlocks * NodesPerBlock]
    /\ total \in [Lists -> 0 .. MaxBlocks * NodesPerBlock + MaxBig]
    /\ inUse \subseteq Nodes
    /\ asked \in [Nodes -> RequestSizes \cup {0}]

\* The first k nodes reached from n along next (fewer if null comes first).
RECURSIVE Walk(_, _)
Walk(n, k) ==
    IF k = 0 \/ n = Nil THEN <<>> ELSE <<n>> \o Walk(next[n], k - 1)

Prepared(c) == UNION {BlockNodes(c, b) : b \in 0 .. blocks[c] - 1}

FreePrefix(c) == Range(Walk(first[c], idle[c]))

\* allocate() takes first and moves it to last, recycle() moves a node to
\* first; prepare() links a new block in front when idle is 0.  Across any
\* sequence of these, the first idle nodes along next must be exactly the
\* prepared nodes of the class that no caller holds, each once: otherwise
\* allocate() hands out a held node, or follows null.
FreeChain ==
    \A c \in Classes :
        LET w == Walk(first[c], idle[c]) IN
        /\ Len(w) = idle[c]
        /\ IsInjective(w)
        /\ Range(w) = Prepared(c) \ inUse

\* The size-class loop of allocate() gives every holder of a regular node
\* a node of a list that exists (0 .. 13) whose data part holds the size
\* it asked for, from the smallest class with 2^(3+c) >= size + header.
ClassFits ==
    \A n \in inUse \ BigNodes :
        LET c == n[1] IN
        /\ c \in 0 .. MEMORY_LIST_SIZE - 2
        /\ nodeSize(c) - HeaderSize >= asked[n]
        /\ 2 ^ (3 + c) >= asked[n] + HeaderSize
        /\ c > 0 => 2 ^ (2 + c) < asked[n] + HeaderSize

\* The arena implements ArenaSpec: the free set of a class is the free
\* prefix of its list, the held set is what callers hold.
AS == INSTANCE ArenaSpec WITH
        free <- [c \in Classes |-> FreePrefix(c)],
        held <- inUse,
        blocks <- [c \in Classes |-> blocks[c]]

\* Every step of allocate() and recycle() is a step of the abstract
\* allocator: a regular node comes from the free nodes of its class, a new
\* block only when none is free, and no held node is handed out again.
ArenaRefines == AS!Spec

====
