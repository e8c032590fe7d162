--------------------------- MODULE TwoAllocators ----------------------------
(***************************************************************************)
(* Two allocators in one process, each with a list and an sbrk provider of *)
(* its own: the global one, and the one that a test constructs beside it   *)
(* (src/test/unittest_malloc.cpp, BestFitTest).  They share what a process *)
(* has once: the program break and the memory.                             *)
(*                                                                         *)
(* As in the test one thread uses them in turn.  Every definition of       *)
(* Allocator is taken as it is, once for each of them.                     *)
(***************************************************************************)
EXTENDS Naturals, Sequences

CONSTANTS MaxBreak, BrkMayFail, Thread, NoThread, Request

ASSUME SharedAssumption ==
    /\ MaxBreak \in Nat \ {0}
    /\ BrkMayFail \in BOOLEAN
    /\ NoThread \notin Thread
    /\ Request \subseteq Nat \ {0}

VARIABLES
    sysBreak, size, inuse,      \* shared: the break and the memory
    heapStart1, curBreak1, freeList1, locker1, phase1, node1, alloc1, asked1,
    heapStart2, curBreak2, freeList2, locker2, phase2, node2, alloc2, asked2,
    constructed                 \* whether the second one exists

Global == INSTANCE Allocator WITH
    Strategy <- "FirstFit",
    heapStart <- heapStart1, curBreak <- curBreak1, freeList <- freeList1,
    locker <- locker1, phase <- phase1, node <- node1, alloc <- alloc1,
    asked <- asked1

Second == INSTANCE Allocator WITH
    Strategy <- "BestFit",
    heapStart <- heapStart2, curBreak <- curBreak2, freeList <- freeList2,
    locker <- locker2, phase <- phase2, node <- node2, alloc <- alloc2,
    asked <- asked2

own1 == <<heapStart1, curBreak1, freeList1, locker1, phase1, node1, alloc1, asked1>>
own2 == <<heapStart2, curBreak2, freeList2, locker2, phase2, node2, alloc2, asked2>>
vars == <<sysBreak, size, inuse, own1, own2, constructed>>

Init ==
    /\ Global!AllocatorInit
    /\ Second!AllocatorInit
    /\ constructed = FALSE

\* The second provider is constructed while the first one is in use: its heap
\* starts where the break is now.
Construct ==
    /\ ~ constructed
    /\ locker1 = NoThread
    /\ heapStart2' = sysBreak
    /\ curBreak2' = sysBreak
    /\ constructed' = TRUE
    /\ UNCHANGED <<sysBreak, size, inuse, own1>>
    /\ UNCHANGED <<freeList2, locker2, phase2, node2, alloc2, asked2>>

\* The thread is in one call at a time.
Next ==
    \/ Construct
    \/ /\ locker2 = NoThread
       /\ Global!AllocatorNext
       /\ UNCHANGED <<own2, constructed>>
    \/ /\ constructed
       /\ locker1 = NoThread
       /\ Second!AllocatorNext
       /\ UNCHANGED <<own1, constructed>>

Spec == Init /\ [][Next]_vars

-----------------------------------------------------------------------------
(* Properties                                                              *)

\* The blocks of both allocators together still tile the space below the
\* break: neither hands out, merges or releases memory of the other, although
\* both lists' blocks lie side by side (free merges with blocks of its own
\* list only, allocator.cpp 137-160; the break is asked for, memory.cpp 55).
JointlyTiled ==
    Global!Tiled(Global!Blocks \union Second!Blocks, size, 0, sysBreak)

\* Neither writes a header into a block that the other has handed out.
OthersUntouched ==
    [][\A a \in Global!Addr : size'[a] # size[a] \/ inuse'[a] # inuse[a] =>
         /\ \A b \in alloc1 \intersect alloc1' : ~ Global!Inside(a, b)
         /\ \A b \in alloc2 \intersect alloc2' : ~ Second!Inside(a, b)]_vars

\* Each cached break stays above all blocks that its allocator handed out, and
\* their flags stay set, although the other one moves the real break and writes
\* headers beside them (memory.cpp 36, 64): so free of the global allocator,
\* whose heap starts at the bottom, accepts all of them.
KeepsUnderBreak ==
    /\ \A b \in alloc1 : Global!Accepts(b)
    /\ \A b \in alloc2 : b < curBreak2 /\ inuse[b]

\* The comment on the provider's constructor (memory.cpp 24-25): all blocks
\* requested from then on lie between the start and the cached break, which is
\* what free checks; and that on the test (unittest_malloc.cpp 352): the two
\* allocators do not disturb each other.  So the second one's free accepts each
\* block that it handed out.
AcceptsOwnBlocks == \A b \in alloc2 : Second!Accepts(b)

=============================================================================
