------------------------- MODULE TwoAllocatorsProofs -------------------------
(***************************************************************************)
(* Two allocators over one break and one memory keep out of each other's   *)
(* blocks.  What AllocatorProofs shows of one allocator beside any other   *)
(* blocks (Beside) is taken once for each of the two, with the blocks of   *)
(* the other one as those.                                                 *)
(***************************************************************************)
EXTENDS TwoAllocators, TLAPS

G == INSTANCE AllocatorProofs WITH
    Strategy <- "FirstFit",
    heapStart <- heapStart1, curBreak <- curBreak1, freeList <- freeList1,
    locker <- locker1, phase <- phase1, node <- node1, alloc <- alloc1,
    asked <- asked1

S == INSTANCE AllocatorProofs WITH
    Strategy <- "BestFit",
    heapStart <- heapStart2, curBreak <- curBreak2, freeList <- freeList2,
    locker <- locker2, phase <- phase2, node <- node2, alloc <- alloc2,
    asked <- asked2

-----------------------------------------------------------------------------
(* The instances of Allocator in TwoAllocators are those of AllocatorProofs *)

\* Each action of the global allocator is the action the lemmas are about.
LEMMA GlobalNext == Global!AllocatorNext => G!AllocatorNext
<1>1. ASSUME NEW need, Global!MallocReuse(need)
      PROVE  G!MallocReuse(need)
  BY <1>1 DEF Global!MallocReuse, G!MallocReuse, Global!Found, G!Found,
              Global!FirstFit, G!FirstFit, Global!BestFit, G!BestFit,
              Global!Fits, G!Fits, Global!Splits, G!Splits, Global!Total,
              G!Total, Global!HeaderUnits, G!HeaderUnits, Global!RemoveAt,
              G!RemoveAt, Global!Cons, G!Cons, Global!memVars, G!memVars
<1>2. ASSUME NEW need, Global!MallocExtend(need)
      PROVE  G!MallocExtend(need)
  BY <1>2 DEF Global!MallocExtend, G!MallocExtend, Global!NothingFits,
              G!NothingFits, Global!Fits, G!Fits, Global!Allocate,
              G!Allocate, Global!Total, G!Total, Global!HeaderUnits,
              G!HeaderUnits
<1>3. ASSUME NEW need, Global!MallocFails(need)
      PROVE  G!MallocFails(need)
  BY <1>3 DEF Global!MallocFails, G!MallocFails, Global!NothingFits,
              G!NothingFits, Global!Fits, G!Fits, Global!AllocateFails,
              G!AllocateFails, Global!memVars, G!memVars
<1>4. ASSUME NEW t, NEW b, Global!FreeBegin(t, b)
      PROVE  G!FreeBegin(t, b)
  BY <1>4 DEF Global!FreeBegin, G!FreeBegin, Global!Accepts, G!Accepts,
              Global!OwnsAddress, G!OwnsAddress, Global!heapVars, G!heapVars,
              Global!memVars, G!memVars
<1>5. ASSUME NEW t, Global!MergeNext(t)
      PROVE  G!MergeNext(t)
  BY <1>5 DEF Global!MergeNext, G!MergeNext, Global!NextPhys, G!NextPhys,
              Global!End, G!End, Global!Total, G!Total, Global!HeaderUnits,
              G!HeaderUnits, Global!RemoveAt, G!RemoveAt, Global!memVars,
              G!memVars
<1>6. ASSUME NEW t, Global!MergePrev(t)
      PROVE  G!MergePrev(t)
  BY <1>6 DEF Global!MergePrev, G!MergePrev, Global!PrevPhys, G!PrevPhys,
              Global!End, G!End, Global!Total, G!Total, Global!HeaderUnits,
              G!HeaderUnits, Global!RemoveAt, G!RemoveAt, Global!memVars,
              G!memVars
<1>7. ASSUME NEW t, Global!ReleaseToMemory(t)
      PROVE  G!ReleaseToMemory(t)
  BY <1>7 DEF Global!ReleaseToMemory, G!ReleaseToMemory, Global!ReleaseBlock,
              G!ReleaseBlock, Global!AtBreak, G!AtBreak, Global!PrevPhys,
              G!PrevPhys, Global!End, G!End, Global!Total, G!Total,
              Global!HeaderUnits, G!HeaderUnits, Global!RemoveAt, G!RemoveAt,
              Global!Unlock, G!Unlock
<1>8. ASSUME NEW t, Global!ReleaseToList(t)
      PROVE  G!ReleaseToList(t)
  BY <1>8 DEF Global!ReleaseToList, G!ReleaseToList,
              Global!ReleaseBlockFails, G!ReleaseBlockFails, Global!AtBreak,
              G!AtBreak, Global!Total, G!Total, Global!HeaderUnits,
              G!HeaderUnits, Global!Cons, G!Cons, Global!Unlock, G!Unlock,
              Global!memVars, G!memVars
<1> QED
  BY <1>1, <1>2, <1>3, <1>4, <1>5, <1>6, <1>7, <1>8 DEF Global!AllocatorNext, G!AllocatorNext, Global!Malloc, G!Malloc, Global!FreeStep, G!FreeStep

\* And each action of the second one.
LEMMA SecondNext == Second!AllocatorNext => S!AllocatorNext
<1>1. ASSUME NEW need, Second!MallocReuse(need)
      PROVE  S!MallocReuse(need)
  BY <1>1 DEF Second!MallocReuse, S!MallocReuse, Second!Found, S!Found,
              Second!FirstFit, S!FirstFit, Second!BestFit, S!BestFit,
              Second!Fits, S!Fits, Second!Splits, S!Splits, Second!Total,
              S!Total, Second!HeaderUnits, S!HeaderUnits, Second!RemoveAt,
              S!RemoveAt, Second!Cons, S!Cons, Second!memVars, S!memVars
<1>2. ASSUME NEW need, Second!MallocExtend(need)
      PROVE  S!MallocExtend(need)
  BY <1>2 DEF Second!MallocExtend, S!MallocExtend, Second!NothingFits,
              S!NothingFits, Second!Fits, S!Fits, Second!Allocate,
              S!Allocate, Second!Total, S!Total, Second!HeaderUnits,
              S!HeaderUnits
<1>3. ASSUME NEW need, Second!MallocFails(need)
      PROVE  S!MallocFails(need)
  BY <1>3 DEF Second!MallocFails, S!MallocFails, Second!NothingFits,
              S!NothingFits, Second!Fits, S!Fits, Second!AllocateFails,
              S!AllocateFails, Second!memVars, S!memVars
<1>4. ASSUME NEW t, NEW b, Second!FreeBegin(t, b)
      PROVE  S!FreeBegin(t, b)
  BY <1>4 DEF Second!FreeBegin, S!FreeBegin, Second!Accepts, S!Accepts,
              Second!OwnsAddress, S!OwnsAddress, Second!heapVars, S!heapVars,
              Second!memVars, S!memVars
<1>5. ASSUME NEW t, Second!MergeNext(t)
      PROVE  S!MergeNext(t)
  BY <1>5 DEF Second!MergeNext, S!MergeNext, Second!NextPhys, S!NextPhys,
              Second!End, S!End, Second!Total, S!Total, Second!HeaderUnits,
              S!HeaderUnits, Second!RemoveAt, S!RemoveAt, Second!memVars,
              S!memVars
<1>6. ASSUME NEW t, Second!MergePrev(t)
      PROVE  S!MergePrev(t)
  BY <1>6 DEF Second!MergePrev, S!MergePrev, Second!PrevPhys, S!PrevPhys,
              Second!End, S!End, Second!Total, S!Total, Second!HeaderUnits,
              S!HeaderUnits, Second!RemoveAt, S!RemoveAt, Second!memVars,
              S!memVars
<1>7. ASSUME NEW t, Second!ReleaseToMemory(t)
      PROVE  S!ReleaseToMemory(t)
  BY <1>7 DEF Second!ReleaseToMemory, S!ReleaseToMemory, Second!ReleaseBlock,
              S!ReleaseBlock, Second!AtBreak, S!AtBreak, Second!PrevPhys,
              S!PrevPhys, Second!End, S!End, Second!Total, S!Total,
              Second!HeaderUnits, S!HeaderUnits, Second!RemoveAt, S!RemoveAt,
              Second!Unlock, S!Unlock
<1>8. ASSUME NEW t, Second!ReleaseToList(t)
      PROVE  S!ReleaseToList(t)
  BY <1>8 DEF Second!ReleaseToList, S!ReleaseToList,
              Second!ReleaseBlockFails, S!ReleaseBlockFails, Second!AtBreak,
              S!AtBreak, Second!Total, S!Total, Second!HeaderUnits,
              S!HeaderUnits, Second!Cons, S!Cons, Second!Unlock, S!Unlock,
              Second!memVars, S!memVars
<1> QED
  BY <1>1, <1>2, <1>3, <1>4, <1>5, <1>6, <1>7, <1>8 DEF Second!AllocatorNext, S!AllocatorNext, Second!Malloc, S!Malloc, Second!FreeStep, S!FreeStep

\* So are the notions the properties speak of.
LEMMA SameBlocks ==
    /\ Global!Blocks = G!Blocks /\ Second!Blocks = S!Blocks
    /\ Global!Addr = G!Addr /\ S!Addr = G!Addr
  BY DEF Global!Blocks, Global!Listed, Global!Range, Global!InHand, Global!Addr,
         Second!Blocks, Second!Listed, Second!Range, Second!InHand,
         G!Blocks, G!Listed, G!Range, G!InHand, G!Addr,
         S!Blocks, S!Listed, S!Range, S!InHand, S!Addr

\* The instances mean the same by tiled.
LEMMA SameTiled ==
    ASSUME NEW B, NEW s, NEW lo, NEW hi
    PROVE  /\ Global!Tiled(B, s, lo, hi) <=> G!Tiled(B, s, lo, hi)
           /\ S!Tiled(B, s, lo, hi) <=> G!Tiled(B, s, lo, hi)
  BY DEF Global!Tiled, Global!Total, Global!HeaderUnits,
         G!Tiled, G!Total, G!HeaderUnits, S!Tiled, S!Total, S!HeaderUnits

\* The instances mean the same by a unit inside a block.
LEMMA SameInside ==
    ASSUME NEW a, NEW b
    PROVE  /\ Global!Inside(a, b) <=> G!Inside(a, b)
           /\ Second!Inside(a, b) <=> S!Inside(a, b)
           /\ S!Inside(a, b) <=> G!Inside(a, b)
  BY DEF Global!Inside, Global!End, Global!Total, Global!HeaderUnits,
         Second!Inside, Second!End, Second!Total, Second!HeaderUnits,
         G!Inside, G!End, G!Total, G!HeaderUnits,
         S!Inside, S!End, S!Total, S!HeaderUnits

-----------------------------------------------------------------------------
(* The invariant                                                           *)

\* Each allocator is beside the other one's blocks; the global one started at
\* the first unit, and the second one has no blocks before it exists.
TwoInv ==
    /\ G!Beside(S!Blocks)
    /\ S!Beside(G!Blocks)
    /\ heapStart1 = 0
    /\ ~ constructed => S!Blocks = {}

\* Before anything is allocated.
LEMMA InitTwo == Init => TwoInv
<1> SUFFICES ASSUME Init PROVE TwoInv
  OBVIOUS
<1>1. /\ sysBreak = 0 /\ heapStart1 = 0 /\ heapStart2 = 0
      /\ curBreak1 = 0 /\ curBreak2 = 0
      /\ size = [a \in G!Addr |-> 0] /\ inuse = [a \in G!Addr |-> FALSE]
      /\ freeList1 = <<>> /\ freeList2 = <<>>
      /\ locker1 = NoThread /\ locker2 = NoThread
      /\ phase1 = "idle" /\ phase2 = "idle" /\ node1 = 0 /\ node2 = 0
      /\ alloc1 = {} /\ alloc2 = {}
      /\ asked1 = [a \in G!Addr |-> 0] /\ asked2 = [a \in G!Addr |-> 0]
  BY DEF Init, Global!AllocatorInit, Global!ConstructMemory, Global!Addr,
         Second!AllocatorInit, Second!ConstructMemory, Second!Addr, G!Addr
<1>2. /\ G!Listed = {} /\ G!InHand = {} /\ G!Blocks = {}
      /\ S!Listed = {} /\ S!InHand = {} /\ S!Blocks = {}
  BY <1>1 DEF G!Listed, G!Range, G!InHand, G!Blocks,
              S!Listed, S!Range, S!InHand, S!Blocks
<1>3. 0 \in G!Addr /\ 0 \in 0 .. MaxBreak
  BY SharedAssumption DEF G!Addr
<1>4. G!HeapTypeOK /\ S!HeapTypeOK
  BY <1>1, <1>3, SameBlocks DEF G!HeapTypeOK, S!HeapTypeOK
<1>5. G!OneOwner /\ S!OneOwner
  BY <1>1, <1>2 DEF G!OneOwner, S!OneOwner, G!IsInjective, S!IsInjective
<1>6. G!Tiled({}, size, 0, sysBreak) /\ S!Tiled({}, size, 0, sysBreak)
  BY <1>1 DEF G!Tiled, S!Tiled
<1>7. G!Beside({}) /\ S!Beside({})
  BY <1>1, <1>2, <1>4, <1>5, <1>6 DEF G!Beside, S!Beside
<1> QED
  BY <1>1, <1>2, <1>7 DEF TwoInv

\* A step of the global allocator.
LEMMA GlobalStep ==
    ASSUME TwoInv, G!AllocatorNext, UNCHANGED <<own2, constructed>>
    PROVE  /\ G!Beside(S!Blocks)' /\ S!Beside(G!Blocks)'
           /\ heapStart1' = heapStart1 /\ S!Blocks' = S!Blocks
           /\ G!Spares(alloc1 \union S!Blocks)
<1>1. PICK O, P, Q : O = S!Blocks /\ P = G!Blocks' /\ Q = G!Blocks
  OBVIOUS
<1>2. G!Beside(O) /\ S!Beside(Q)
  BY <1>1 DEF TwoInv
<1>3. G!Beside(O)' /\ G!Spares(alloc1 \union O) /\ heapStart1' = heapStart1
  BY <1>2, SharedAssumption, G!StepBeside
<1>4. /\ UNCHANGED <<heapStart2, curBreak2>>
      /\ UNCHANGED <<freeList2, locker2, phase2, node2, alloc2, asked2>>
  BY DEF own2
<1>5. S!Blocks' = S!Blocks
  BY <1>4 DEF S!Blocks, S!Listed, S!InHand
<1>6. /\ P \in SUBSET G!Addr /\ O \intersect P = {}
      /\ size' \in [G!Addr -> Nat] /\ inuse' \in [G!Addr -> BOOLEAN]
      /\ sysBreak' \in 0 .. MaxBreak
      /\ G!Tiled(P \union O, size', 0, sysBreak')
  BY <1>1, <1>3, SharedAssumption, G!BesideNext
<1>7. \A b \in O : size'[b] = size[b] /\ inuse'[b] = inuse[b]
  <2>1. ASSUME NEW b \in O
        PROVE  b \in G!Addr /\ G!Inside(b, b)
    BY <1>2, SharedAssumption, G!BesideBlock
  <2> QED
    BY <1>3, <2>1 DEF G!Spares
<1>8. S!Tiled(S!Blocks \union P, size', 0, sysBreak')
  <2>1. S!Tiled(P \union O, size', 0, sysBreak')
    BY <1>6, SameTiled
  <2>2. S!Blocks \union P = P \union O
    BY <1>1
  <2> QED
    BY <2>1, <2>2
<1>9. S!Beside(P)'
  <2>1. /\ P \in SUBSET S!Addr /\ P \intersect S!Blocks = {}
        /\ size' \in [S!Addr -> Nat] /\ inuse' \in [S!Addr -> BOOLEAN]
    BY <1>1, <1>6, SameBlocks
  <2>2. \A b \in S!Blocks : size'[b] = size[b] /\ inuse'[b] = inuse[b]
    BY <1>1, <1>7
  <2> QED
    BY <1>2, <1>4, <1>6, <1>8, <2>1, <2>2, SharedAssumption, S!OthersBeside
<1>10. G!Beside(S!Blocks)'
  BY <1>1, <1>3, <1>5 DEF G!Beside
<1>11. S!Beside(G!Blocks)'
  BY <1>1, <1>9 DEF S!Beside
<1> QED
  BY <1>1, <1>3, <1>5, <1>10, <1>11

\* A step of the second one.
LEMMA SecondStep ==
    ASSUME TwoInv, S!AllocatorNext, UNCHANGED <<own1, constructed>>
    PROVE  /\ S!Beside(G!Blocks)' /\ G!Beside(S!Blocks)'
           /\ heapStart2' = heapStart2 /\ G!Blocks' = G!Blocks
           /\ S!Spares(alloc2 \union G!Blocks)
<1>1. PICK O, P, Q : O = G!Blocks /\ P = S!Blocks' /\ Q = S!Blocks
  OBVIOUS
<1>2. S!Beside(O) /\ G!Beside(Q)
  BY <1>1 DEF TwoInv
<1>3. S!Beside(O)' /\ S!Spares(alloc2 \union O) /\ heapStart2' = heapStart2
  BY <1>2, SharedAssumption, S!StepBeside
<1>4. /\ UNCHANGED <<heapStart1, curBreak1>>
      /\ UNCHANGED <<freeList1, locker1, phase1, node1, alloc1, asked1>>
  BY DEF own1
<1>5. G!Blocks' = G!Blocks
  BY <1>4 DEF G!Blocks, G!Listed, G!InHand
<1>6. /\ P \in SUBSET S!Addr /\ O \intersect P = {}
      /\ size' \in [S!Addr -> Nat] /\ inuse' \in [S!Addr -> BOOLEAN]
      /\ sysBreak' \in 0 .. MaxBreak
      /\ S!Tiled(P \union O, size', 0, sysBreak')
  BY <1>1, <1>3, SharedAssumption, S!BesideNext
<1>7. \A b \in O : size'[b] = size[b] /\ inuse'[b] = inuse[b]
  <2>1. ASSUME NEW b \in O
        PROVE  b \in S!Addr /\ S!Inside(b, b)
    BY <1>2, SharedAssumption, S!BesideBlock
  <2> QED
    BY <1>3, <2>1 DEF S!Spares
<1>8. G!Tiled(G!Blocks \union P, size', 0, sysBreak')
  <2>1. G!Tiled(P \union O, size', 0, sysBreak')
    BY <1>6, SameTiled
  <2>2. G!Blocks \union P = P \union O
    BY <1>1
  <2> QED
    BY <2>1, <2>2
<1>9. G!Beside(P)'
  <2>1. /\ P \in SUBSET G!Addr /\ P \intersect G!Blocks = {}
        /\ size' \in [G!Addr -> Nat] /\ inuse' \in [G!Addr -> BOOLEAN]
    BY <1>1, <1>6, SameBlocks
  <2>2. \A b \in G!Blocks : size'[b] = size[b] /\ inuse'[b] = inuse[b]
    BY <1>1, <1>7
  <2> QED
    BY <1>2, <1>4, <1>6, <1>8, <2>1, <2>2, SharedAssumption, G!OthersBeside
<1>10. S!Beside(G!Blocks)'
  BY <1>1, <1>3, <1>5 DEF S!Beside
<1>11. G!Beside(S!Blocks)'
  BY <1>1, <1>9 DEF G!Beside
<1> QED
  BY <1>1, <1>3, <1>5, <1>10, <1>11

\* Where nothing of the memory and the allocators' lists moves, nothing changes.
LEMMA Unmoved ==
    ASSUME TwoInv, UNCHANGED <<sysBreak, size, inuse>>,
           UNCHANGED <<freeList2, locker2, phase2, node2, alloc2, asked2>>,
           UNCHANGED <<freeList1, locker1, phase1, node1, alloc1, asked1>>
    PROVE  /\ S!Blocks' = S!Blocks /\ G!Blocks' = G!Blocks
           /\ UNCHANGED <<heapStart1, curBreak1>> => G!Beside(S!Blocks)'
           /\ UNCHANGED <<heapStart2, curBreak2>> => S!Beside(G!Blocks)'
<1>1. G!Blocks' = G!Blocks /\ S!Blocks' = S!Blocks
  BY DEF G!Blocks, G!Listed, G!InHand, S!Blocks, S!Listed, S!InHand
<1>2. ASSUME UNCHANGED <<heapStart1, curBreak1>>
      PROVE  G!Beside(S!Blocks)'
  <2>1. G!HeapTypeOK' /\ G!OneOwner'
    BY <1>1, <1>2 DEF TwoInv, G!Beside, G!HeapTypeOK, G!OneOwner, G!Listed, G!InHand
  <2>2. \A b \in G!Blocks : G!End(b)' = G!End(b)
    BY DEF G!End
  <2> QED
    BY <1>1, <1>2, <2>1, <2>2 DEF TwoInv, G!Beside
<1>3. ASSUME UNCHANGED <<heapStart2, curBreak2>>
      PROVE  S!Beside(G!Blocks)'
  <2>1. S!HeapTypeOK' /\ S!OneOwner'
    BY <1>1, <1>3 DEF TwoInv, S!Beside, S!HeapTypeOK, S!OneOwner, S!Listed, S!InHand
  <2>2. \A b \in S!Blocks : S!End(b)' = S!End(b)
    BY DEF S!End
  <2> QED
    BY <1>1, <1>3, <2>1, <2>2 DEF TwoInv, S!Beside
<1> QED
  BY <1>1, <1>2, <1>3

\* The second allocator comes to be, with its heap starting at the break.
LEMMA ConstructStep ==
    ASSUME TwoInv, Construct
    PROVE  G!Beside(S!Blocks)' /\ S!Beside(G!Blocks)' /\ heapStart1' = heapStart1
<1>1. PICK O, Q : O = S!Blocks /\ Q = G!Blocks
  OBVIOUS
<1>2. /\ UNCHANGED <<sysBreak, size, inuse>>
      /\ UNCHANGED <<freeList2, locker2, phase2, node2, alloc2, asked2>>
      /\ UNCHANGED <<heapStart1, curBreak1>>
      /\ UNCHANGED <<freeList1, locker1, phase1, node1, alloc1, asked1>>
      /\ heapStart2' = sysBreak /\ curBreak2' = sysBreak
      /\ S!Blocks = {}
  BY DEF Construct, own1, TwoInv
<1>3. G!Blocks' = G!Blocks /\ S!Blocks' = S!Blocks
  BY <1>2 DEF G!Blocks, G!Listed, G!InHand, S!Blocks, S!Listed, S!InHand
<1>4. S!Beside(Q)'
  <2>1. S!Beside(Q)
    BY <1>1 DEF TwoInv
  <2> QED
    BY <1>2, <2>1, SharedAssumption, S!ConstructBeside
<1>5. G!Beside(S!Blocks)'
  BY <1>2, <1>3, Unmoved
<1> QED
  BY <1>1, <1>2, <1>3, <1>4, <1>5 DEF S!Beside

\* Every step keeps each allocator beside the other.
LEMMA StepKeepsTwo ==
    ASSUME TwoInv, [Next]_vars
    PROVE  TwoInv'
<1>1. CASE Construct
  BY <1>1, ConstructStep DEF TwoInv, Construct
<1>2. CASE Global!AllocatorNext /\ UNCHANGED <<own2, constructed>>
  BY <1>2, GlobalNext, GlobalStep DEF TwoInv
<1>3. CASE constructed /\ Second!AllocatorNext /\ UNCHANGED <<own1, constructed>>
  <2>1. heapStart1' = heapStart1
    BY <1>3 DEF own1
  <2> QED
    BY <1>3, <2>1, SecondNext, SecondStep DEF TwoInv
<1>4. CASE UNCHANGED vars
  <2>1. /\ UNCHANGED <<sysBreak, size, inuse>>
        /\ UNCHANGED <<heapStart2, curBreak2, heapStart1, curBreak1>>
        /\ UNCHANGED <<freeList2, locker2, phase2, node2, alloc2, asked2>>
        /\ UNCHANGED <<freeList1, locker1, phase1, node1, alloc1, asked1>>
        /\ UNCHANGED constructed
    BY <1>4 DEF vars, own1, own2
  <2>2. G!Beside(S!Blocks)' /\ S!Beside(G!Blocks)' /\ S!Blocks' = S!Blocks
    BY <2>1, Unmoved
  <2> QED
    BY <2>1, <2>2 DEF TwoInv
<1> QED
  BY <1>1, <1>2, <1>3, <1>4 DEF Next

\* Each allocator keeps to its own blocks, for as long as the other one does.
THEOREM TwoInvariant == Spec => []TwoInv
<1>1. TwoInv /\ [Next]_vars => TwoInv'
  BY StepKeepsTwo
<1> QED
  BY InitTwo, <1>1, PTL DEF Spec

-----------------------------------------------------------------------------
(* What the two guarantee each other                                       *)

\* The blocks of both together tile the space below the break.
THEOREM TilesJointly == Spec => []JointlyTiled
<1>1. TwoInv => JointlyTiled
  <2> SUFFICES ASSUME TwoInv PROVE JointlyTiled
    OBVIOUS
  <2>1. G!Tiled(G!Blocks \union S!Blocks, size, 0, sysBreak)
    BY DEF TwoInv, G!Beside
  <2> QED
    BY <2>1, SameBlocks, SameTiled DEF JointlyTiled
<1> QED
  BY TwoInvariant, <1>1, PTL

\* Neither writes a header into a block that the other has handed out.
THEOREM LeavesOthers == Spec => OthersUntouched
<1>1. ASSUME TwoInv, [Next]_vars,
             NEW a \in Global!Addr, size'[a] # size[a] \/ inuse'[a] # inuse[a]
      PROVE  /\ \A b \in alloc1 \intersect alloc1' : ~ Global!Inside(a, b)
             /\ \A b \in alloc2 \intersect alloc2' : ~ Second!Inside(a, b)
  <2>1. a \in G!Addr /\ a \in S!Addr
    BY SameBlocks
  <2>2. alloc1 \subseteq G!Blocks /\ alloc2 \subseteq S!Blocks
    BY DEF G!Blocks, S!Blocks
  <2>3. CASE Global!AllocatorNext /\ UNCHANGED <<own2, constructed>>
    <3>1. G!Spares(alloc1 \union S!Blocks)
      BY <1>1, <2>3, GlobalNext, GlobalStep
    <3>2. \A d \in alloc1 \union S!Blocks : ~ G!Inside(a, d)
      BY <1>1, <2>1, <3>1 DEF G!Spares
    <3> QED
      BY <2>2, <3>2, SameInside
  <2>4. CASE Second!AllocatorNext /\ UNCHANGED <<own1, constructed>>
    <3>1. S!Spares(alloc2 \union G!Blocks)
      BY <1>1, <2>4, SecondNext, SecondStep
    <3>2. \A d \in alloc2 \union G!Blocks : ~ S!Inside(a, d)
      BY <1>1, <2>1, <3>1 DEF S!Spares
    <3> QED
      BY <2>2, <3>2, SameInside
  <2>5. CASE Construct \/ UNCHANGED vars
    BY <1>1, <2>5 DEF Construct, vars
  <2> QED
    BY <1>1, <2>3, <2>4, <2>5 DEF Next
<1>2. TwoInv /\ [Next]_vars
        => [\A a \in Global!Addr : size'[a] # size[a] \/ inuse'[a] # inuse[a] =>
              /\ \A b \in alloc1 \intersect alloc1' : ~ Global!Inside(a, b)
              /\ \A b \in alloc2 \intersect alloc2' : ~ Second!Inside(a, b)]_vars
  BY <1>1
<1> QED
  BY TwoInvariant, <1>2, PTL DEF Spec, OthersUntouched

\* Each cached break stays above what its allocator handed out, so free of the
\* global allocator accepts all its blocks, whatever the second one does.
THEOREM StaysUnderBreak == Spec => []KeepsUnderBreak
<1>1. ASSUME TwoInv
      PROVE  KeepsUnderBreak
  <2>1. PICK O, Q : O = S!Blocks /\ Q = G!Blocks
    OBVIOUS
  <2>2. G!Beside(O) /\ S!Beside(Q) /\ heapStart1 = 0
    BY <1>1, <2>1 DEF TwoInv
  <2>3. ASSUME NEW b \in alloc1
        PROVE  Global!Accepts(b)
    <3>1. b \in G!Blocks
      BY DEF G!Blocks
    <3>2. b \in Nat /\ G!End(b) \in Nat /\ b < G!End(b) /\ curBreak1 \in Nat
      BY <2>2, <3>1, SharedAssumption, G!BesideBlock, G!BesideFacts
    <3>3. G!End(b) =< curBreak1 /\ inuse[b]
      BY <2>2, <3>1 DEF G!Beside
    <3> QED
      BY <2>2, <3>2, <3>3 DEF Global!Accepts, Global!OwnsAddress
  <2>4. ASSUME NEW b \in alloc2
        PROVE  b < curBreak2 /\ inuse[b]
    <3>1. b \in S!Blocks
      BY DEF S!Blocks
    <3>2. b \in Nat /\ S!End(b) \in Nat /\ b < S!End(b) /\ curBreak2 \in Nat
      BY <2>2, <3>1, SharedAssumption, S!BesideBlock, S!BesideFacts
    <3>3. S!End(b) =< curBreak2 /\ inuse[b]
      BY <2>2, <3>1 DEF S!Beside
    <3> QED
      BY <3>2, <3>3
  <2> QED
    BY <2>3, <2>4 DEF KeepsUnderBreak
<1>2. TwoInv => KeepsUnderBreak
  BY <1>1
<1> QED
  BY TwoInvariant, <1>2, PTL

=============================================================================
