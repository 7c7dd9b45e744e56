----------------------------- MODULE ArenaSpec -----------------------------
(***************************************************************************)
(* What one shard's MemoryManager promises its callers, without the        *)
(* intrusive lists: a node handed out by allocate() is one nobody else     *)
(* holds, a regular node comes from the free nodes of its size class (a    *)
(* new block of nodes is carved out only when the class has none free),   *)
(* and recycle() gives a held node back.  Arena refines this module.       *)
(***************************************************************************)
EXTENDS Naturals, FiniteSets

CONSTANTS
    Classes,        \* size-class indexes that the requests reach
    NodesPerBlock,  \* nodes carved out of one block (MIN_NODE_SIZE)
    MaxBlocks,      \* bound on the blocks prepared per class
    BigNodes,       \* addresses malloc can return for a big request
    HasBig          \* whether some request exceeds the regular limit

VARIABLES
    free,    \* free[c]: the nodes of class c that allocate may return
    held,    \* the nodes handed out and not yet recycled
    blocks   \* blocks[c]: the blocks prepared for class c

vars == <<free, held, blocks>>

BlockNodes(c, b) == {<<c, b, k>> : k \in 0 .. NodesPerBlock - 1}

Prepared(c) == UNION {BlockNodes(c, b) : b \in 0 .. blocks[c] - 1}

TypeOK ==
    /\ blocks \in [Classes -> 0 .. MaxBlocks]
    /\ \A c \in Classes : free[c] \subseteq Prepared(c)
    /\ held \subseteq BigNodes \cup UNION {Prepared(c) : c \in Classes}

Init ==
    /\ free = [c \in Classes |-> {}]
    /\ held = {}
    /\ blocks = [c \in Classes |-> 0]

\* A regular request of class c: a free node, or one of a new block.
AllocateRegular(c) ==
    \/ /\ free[c] # {}
       /\ \E n \in free[c] :
            /\ free' = [free EXCEPT ![c] = @ \ {n}]
            /\ held' = held \cup {n}
       /\ UNCHANGED blocks
    \/ /\ free[c] = {}
       /\ blocks[c] < MaxBlocks
       /\ \E n \in BlockNodes(c, blocks[c]) :
            /\ free' = [free EXCEPT ![c] = BlockNodes(c, blocks[c]) \ {n}]
            /\ held' = held \cup {n}
       /\ blocks' = [blocks EXCEPT ![c] = @ + 1]

\* A big request: memory that is not held.
AllocateBig ==
    /\ HasBig
    /\ \E n \in BigNodes \ held : held' = held \cup {n}
    /\ UNCHANGED <<free, blocks>>

Release(n) ==
    /\ n \in held
    /\ held' = held \ {n}
    /\ free' = IF n \in BigNodes THEN free
               ELSE [free EXCEPT ![n[1]] = @ \cup {n}]
    /\ UNCHANGED blocks

Next ==
    \/ \E c \in Classes : AllocateRegular(c)
    \/ AllocateBig
    \/ \E n \in held : Release(n)

Spec == Init /\ [][Next]_vars

\* No node is both free and held.
Disjoint == \A c \in Classes : free[c] \cap held = {}

====
