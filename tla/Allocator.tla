------------------------------ MODULE Allocator ------------------------------
(***************************************************************************)
(* The locked allocator (src/src/allocator.cpp) over the sbrk provider.    *)
(*                                                                         *)
(* A block starts at an address b of the provider's space, has a header of *)
(* one unit (block_t, 16 bytes) at b and a user area of size[b] units      *)
(* behind it.  Headers live in the heap memory itself: size and inuse give *)
(* the bytes found at every address, also those of a header that belongs   *)
(* to no block any more.                                                   *)
(*                                                                         *)
(* malloc holds the lock from its first read to its last write, so a call  *)
(* is one action.  free gives up memory step by step; its steps are        *)
(* actions of their own, taken while the caller holds the lock.            *)
(***************************************************************************)
EXTENDS SbrkMemory, SequencesExt

CONSTANTS
    Thread,     \* the threads that call the allocator
    NoThread,   \* nobody holds the lock
    Request,    \* user sizes asked for, in units, after alignment
    Strategy    \* the injected IFindStrategy: "FirstFit" or "BestFit"

ASSUME AllocatorAssumption ==
    /\ NoThread \notin Thread
    /\ Request \subseteq Nat \ {0}
    /\ Strategy \in {"FirstFit", "BestFit"}

VARIABLES
    size,       \* head.size of the header at each address
    inuse,      \* head.inuse of the header at each address
    freeList,   \* the listed blocks, head first
    locker,     \* the thread that holds locker_, or NoThread
    phase,      \* where the lock holder is in free
    node,       \* its local variable node, then p
    alloc,      \* the blocks handed out and not yet passed to free
    asked       \* history: the request a block in alloc was handed out for

heapVars == <<memVars, size, inuse, freeList>>
allocatorVars == <<heapVars, locker, phase, node, alloc, asked>>

HeaderUnits == 1    \* sizeof(block_t) / align_to

Total(user) == HeaderUnits + user
End(b) == b + Total(size[b])

Listed == Range(freeList)
InHand == IF locker = NoThread THEN {} ELSE {node}
Blocks == alloc \union Listed \union InHand

AllocatorInit ==
    /\ ConstructMemory
    /\ size = [a \in Addr |-> 0]
    /\ inuse = [a \in Addr |-> FALSE]
    /\ freeList = <<>>
    /\ locker = NoThread
    /\ phase = "idle"
    /\ node = 0
    /\ alloc = {}
    /\ asked = [a \in Addr |-> 0]

-----------------------------------------------------------------------------
(* Faulty variants of the definitions below.  The checks put them in place *)
(* of the definition they are named after, and see a property fail.        *)

\* The size with the header is compared.
Fits_WithHeader(i, need) == Total(size[freeList[i]]) >= need

\* Some block behind b is absorbed, adjacent or not.
NextPhys_AnyBehind(i, b) == freeList[i] >= End(b)

\* No merging forward, no merging backward.
NextPhys_Never(i, b) == FALSE
PrevPhys_Never(i, b) == FALSE

\* The remainder has room for a header only.
Splits_NoRoom(b, need) == size[b] >= need + HeaderUnits

\* The block is handed out and stays in the list.
MallocReuse_StaysListed(need) ==
    /\ locker = NoThread
    /\ \E i \in DOMAIN freeList :
         /\ size[freeList[i]] >= need
         /\ inuse' = [inuse EXCEPT ![freeList[i]] = TRUE]
         /\ alloc' = alloc \union {freeList[i]}
         /\ asked' = [asked EXCEPT ![freeList[i]] = need]
    /\ UNCHANGED <<memVars, size, freeList, locker, phase, node>>

\* The flag is not cleared when the block is listed.
ReleaseToList_StaysInUse(t) ==
    /\ locker = t /\ phase = "release"
    /\ ReleaseBlockFails(node, Total(size[node]))
    /\ freeList' = Cons(node, freeList)
    /\ locker' = NoThread /\ phase' = "idle" /\ node' = 0
    /\ UNCHANGED <<size, inuse, alloc, asked>>

\* Instead of listing the block, the loop goes round again.
ReleaseToList_Retries(t) ==
    /\ locker = t /\ phase = "release"
    /\ ReleaseBlockFails(node, Total(size[node]))
    /\ phase' = "next"
    /\ UNCHANGED <<size, inuse, freeList, locker, node, alloc, asked>>

-----------------------------------------------------------------------------
(* The free list's queries, as positions in the list.                      *)

Fits(i, need) == size[freeList[i]] >= need

FirstFit(i, need) ==
    /\ Fits(i, need)
    /\ \A j \in 1 .. i - 1 : ~ Fits(j, need)

BestFit(i, need) ==
    /\ Fits(i, need)
    /\ \A j \in DOMAIN freeList : Fits(j, need) =>
         \/ size[freeList[i]] < size[freeList[j]]
         \/ size[freeList[i]] = size[freeList[j]] /\ i =< j

Found(i, need) ==
    CASE Strategy = "FirstFit" -> FirstFit(i, need)
      [] Strategy = "BestFit"  -> BestFit(i, need)

\* find_next_phys, find_prev_phys: the first listed block that starts where b
\* ends, or ends where b starts.
NextPhys(i, b) ==
    /\ freeList[i] = End(b)
    /\ \A j \in 1 .. i - 1 : freeList[j] # End(b)

PrevPhys(i, b) ==
    /\ End(freeList[i]) = b
    /\ \A j \in 1 .. i - 1 : End(freeList[j]) # b

-----------------------------------------------------------------------------
(* malloc                                                                  *)

\* The block is cut when what remains can hold a header and a user area of
\* one unit.
Splits(b, need) == size[b] >= need + HeaderUnits + 1

\* A listed block fits: what it has in excess goes to the head of the list as
\* a free block, the block leaves the list and is handed out.
MallocReuse(need) ==
    /\ locker = NoThread
    /\ \E i \in DOMAIN freeList :
         LET b    == freeList[i]
             rest == b + Total(need)
             others == RemoveAt(freeList, i)
         IN  /\ Found(i, need)
             /\ IF Splits(b, need)
                  THEN /\ size' = [size EXCEPT
                                     ![rest] = size[b] - Total(need),
                                     ![b] = need]
                       /\ inuse' = [inuse EXCEPT ![rest] = FALSE, ![b] = TRUE]
                       /\ freeList' = Cons(rest, others)
                  ELSE /\ inuse' = [inuse EXCEPT ![b] = TRUE]
                       /\ freeList' = others
                       /\ UNCHANGED size
             /\ alloc' = alloc \union {b}
             /\ asked' = [asked EXCEPT ![b] = need]
    /\ UNCHANGED <<memVars, locker, phase, node>>

NothingFits(need) == \A i \in DOMAIN freeList : ~ Fits(i, need)

\* Nothing fits: the heap grows by one block.
MallocExtend(need) ==
    /\ locker = NoThread
    /\ NothingFits(need)
    /\ Allocate(Total(need))
    /\ size' = [size EXCEPT ![sysBreak] = need]
    /\ inuse' = [inuse EXCEPT ![sysBreak] = TRUE]
    /\ alloc' = alloc \union {sysBreak}
    /\ asked' = [asked EXCEPT ![sysBreak] = need]
    /\ UNCHANGED <<freeList, locker, phase, node>>

\* Nothing fits and the provider has no memory: nullptr.
MallocFails(need) ==
    /\ locker = NoThread
    /\ NothingFits(need)
    /\ AllocateFails
    /\ UNCHANGED <<size, inuse, freeList, locker, phase, node, alloc, asked>>

-----------------------------------------------------------------------------
(* free                                                                    *)

Accepts(b) == OwnsAddress(b) /\ inuse[b]

\* The lock is taken and the block passes the check.
FreeBegin(t, b) ==
    /\ locker = NoThread
    /\ Accepts(b)
    /\ locker' = t
    /\ phase' = "next"
    /\ node' = b
    /\ alloc' = alloc \ {b}
    /\ asked' = [asked EXCEPT ![b] = 0]
    /\ UNCHANGED heapVars

\* The block fails the check: the call is logged and has no effect.
FreeRejected(b) ==
    /\ locker = NoThread
    /\ ~ Accepts(b)
    /\ UNCHANGED allocatorVars

\* The listed block right behind node is absorbed.
MergeNext(t) ==
    /\ locker = t /\ phase = "next"
    /\ \/ \E i \in DOMAIN freeList :
            /\ NextPhys(i, node)
            /\ size' = [size EXCEPT ![node] = @ + Total(size[freeList[i]])]
            /\ freeList' = RemoveAt(freeList, i)
       \/ /\ \A i \in DOMAIN freeList : ~ NextPhys(i, node)
          /\ UNCHANGED <<size, freeList>>
    /\ phase' = "prev"
    /\ UNCHANGED <<memVars, inuse, locker, node, alloc, asked>>

\* The listed block right before node absorbs it and stands for both.
MergePrev(t) ==
    /\ locker = t /\ phase = "prev"
    /\ \/ \E i \in DOMAIN freeList :
            /\ PrevPhys(i, node)
            /\ size' = [size EXCEPT ![freeList[i]] = @ + Total(size[node])]
            /\ freeList' = RemoveAt(freeList, i)
            /\ node' = freeList[i]
       \/ /\ \A i \in DOMAIN freeList : ~ PrevPhys(i, node)
          /\ UNCHANGED <<size, freeList, node>>
    /\ phase' = "release"
    /\ UNCHANGED <<memVars, inuse, locker, alloc, asked>>

Unlock ==
    /\ locker' = NoThread
    /\ phase' = "idle"
    /\ node' = 0

\* An iteration of the release loop that gives node back to the provider: the
\* loop goes on with the listed block right before node, if there is one.
ReleaseToMemory(t) ==
    /\ locker = t /\ phase = "release"
    /\ ReleaseBlock(node, Total(size[node]))
    /\ IF \E i \in DOMAIN freeList : PrevPhys(i, node)
         THEN /\ \E i \in DOMAIN freeList :
                   /\ PrevPhys(i, node)
                   /\ freeList' = RemoveAt(freeList, i)
                   /\ node' = freeList[i]
              /\ UNCHANGED <<locker, phase>>
         ELSE Unlock /\ UNCHANGED freeList
    /\ UNCHANGED <<size, inuse, alloc, asked>>

\* The provider does not take node: it is listed for reuse.
ReleaseToList(t) ==
    /\ locker = t /\ phase = "release"
    /\ ReleaseBlockFails(node, Total(size[node]))
    /\ inuse' = [inuse EXCEPT ![node] = FALSE]
    /\ freeList' = Cons(node, freeList)
    /\ Unlock
    /\ UNCHANGED <<size, alloc, asked>>

FreeStep(t) ==
    \/ MergeNext(t)
    \/ MergePrev(t)
    \/ ReleaseToMemory(t)
    \/ ReleaseToList(t)

-----------------------------------------------------------------------------

Malloc(need) ==
    \/ MallocReuse(need)
    \/ MallocExtend(need)
    \/ MallocFails(need)

\* Callers pass to free only what they were handed and have not freed yet.
AllocatorNext ==
    \/ \E need \in Request : Malloc(need)
    \/ \E t \in Thread : \/ \E b \in alloc : FreeBegin(t, b)
                         \/ FreeStep(t)

AllocatorSpec == AllocatorInit /\ [][AllocatorNext]_allocatorVars

\* A thread inside the critical section does nothing that blocks, so it is
\* eventually scheduled and takes its next step.
FairAllocatorSpec ==
    AllocatorSpec /\ \A t \in Thread : WF_allocatorVars(FreeStep(t))

-----------------------------------------------------------------------------
(* Properties                                                              *)

\* Every variable has its type.
HeapTypeOK ==
    /\ heapStart \in 0 .. MaxBreak
    /\ curBreak \in 0 .. MaxBreak
    /\ sysBreak \in 0 .. MaxBreak
    /\ size \in [Addr -> Nat]
    /\ inuse \in [Addr -> BOOLEAN]
    /\ freeList \in Seq(Addr)
    /\ locker \in Thread \union {NoThread}
    /\ phase \in {"idle", "next", "prev", "release"}
    /\ phase = "idle" <=> locker = NoThread
    /\ node \in Addr
    /\ alloc \subseteq Addr
    /\ asked \in [Addr -> Nat]

\* The blocks of B, with user areas of the sizes in s, fill lo .. hi - 1.
Tiled(B, s, lo, hi) ==
    /\ lo \in B \union {hi}
    /\ \A b \in B :
         /\ s[b] >= 1
         /\ lo =< b
         /\ b + Total(s[b]) =< hi
         /\ b + Total(s[b]) \in B \union {hi}
    /\ \A b, c \in B : b < c => b + Total(s[b]) =< c

\* The blocks handed out, listed and in the hands of free tile the heap: they
\* start at heapStart, each ends where the next one starts or at the break,
\* no two overlap, and each has room for a list node.  A split, a merge or a
\* release that lost a unit, or counted one twice, breaks this (allocator.cpp
\* split 60-69, merges 141-160, release loop 175-199).
HeapTiled ==
    /\ curBreak = sysBreak
    /\ Tiled(Blocks, size, heapStart, sysBreak)

\* A block has one owner: the caller, the list (once) or the thread in free.
\* Everybody's list node or data is at the start of the user area, so a block
\* with two owners would have its links overwritten by data.
OneOwner ==
    /\ IsInjective(freeList)
    /\ alloc \intersect Listed = {}
    /\ InHand \intersect (alloc \union Listed) = {}

\* The inuse flag says who owns the block, so free accepts whatever the caller
\* was handed and rejects every listed block (allocator.cpp 125).
FlagTellsOwner ==
    /\ \A b \in alloc : Accepts(b)
    /\ \A b \in Listed : ~ Accepts(b)

\* Free blocks that touch have been merged: no listed block starts where
\* another one ends.
Coalesced ==
    \A b \in Listed : End(b) \notin Listed

\* Memory on top of the heap goes back to the system: as long as brk works, no
\* listed block touches the break.
TopReleased ==
    ~ BrkMayFail => \A b \in Listed : End(b) # sysBreak

\* When everything was freed the heap is back to nothing, whatever the order
\* of the frees (test FragmentationShrinkTest).
FullyReclaimed ==
    ~ BrkMayFail /\ locker = NoThread /\ alloc = {} => sysBreak = heapStart

\* One release is enough: node was merged with both neighbours before the
\* loop, so the loop body that releases node finds no listed block before it
\* (allocator.cpp 181-188 never goes round again).
ReleaseOnce ==
    [][sysBreak' < sysBreak => locker' = NoThread]_allocatorVars

\* Nobody writes into a block while it is handed out: no header that changes
\* lies in a block that stays with its caller, neither its own nor one in its
\* user area.
Inside(a, b) == b =< a /\ a < End(b)

HandedOutUntouched ==
    [][\A a \in Addr : size'[a] # size[a] \/ inuse'[a] # inuse[a] =>
         \A b \in alloc \intersect alloc' : ~ Inside(a, b)]_allocatorVars

\* The mutex is released: a call that got into the critical section leaves it.
LockReleased ==
    \A t \in Thread : locker = t ~> locker = NoThread

\* What callers see of the blocks handed out.
AreaOf(b, s, n) == [start |-> b + HeaderUnits, len |-> s[b], asked |-> n[b]]
Areas == {AreaOf(b, size, asked) : b \in alloc}

AllocatorContract == INSTANCE HeapContract WITH live <- Areas, Space <- Addr

\* malloc and free do what the contract allows: areas that never overlap, of
\* the requested size or one unit more, that stay put until they are freed.
AllocatorKeepsContract == AllocatorContract!Spec

=============================================================================
