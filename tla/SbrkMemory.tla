----------------------------- MODULE SbrkMemory -----------------------------
(***************************************************************************)
(* The sbrk memory provider (src/src/memory.cpp).  Addresses are counted   *)
(* in units of align_to = 16 bytes from the program break the provider saw *)
(* when it was constructed: every request, header and break movement of    *)
(* the allocator is a multiple of that unit (see SizeArith).               *)
(*                                                                         *)
(* This is a component without a next-state relation of its own: its       *)
(* actions prime the provider's variables only, and the allocator that     *)
(* holds the provider conjoins them with what it does to the blocks.       *)
(***************************************************************************)
EXTENDS Naturals

CONSTANTS
    MaxBreak,     \* the address space ends here: sbrk past it fails (ENOMEM)
    BrkMayFail    \* TRUE: brk() may also refuse to lower the break

ASSUME MemoryAssumption ==
    /\ MaxBreak \in Nat \ {0}
    /\ BrkMayFail \in BOOLEAN

VARIABLES
    heapStart,    \* heap_start_: the break at construction
    curBreak,     \* cur_break_: the provider's cached break
    sysBreak      \* the kernel's program break, what sbrk(0) returns

memVars == <<heapStart, curBreak, sysBreak>>

Addr == 0 .. MaxBreak - 1

\* The constructor calls sbrk(0) twice before anything is allocated.
ConstructMemory ==
    /\ sysBreak = 0
    /\ heapStart = sysBreak
    /\ curBreak = sysBreak

-----------------------------------------------------------------------------

\* Faulty variant: the cached break grows from where it was.
Allocate_FromCached(total) ==
    /\ sysBreak + total =< MaxBreak
    /\ sysBreak' = sysBreak + total
    /\ curBreak' = curBreak + total
    /\ UNCHANGED heapStart

\* sbrk(total) succeeded; the caller gets the old break as the start of the
\* new space.
Allocate(total) ==
    /\ sysBreak + total =< MaxBreak
    /\ sysBreak' = sysBreak + total
    /\ curBreak' = sysBreak + total
    /\ UNCHANGED heapStart

\* sbrk failed: allocate returns nullptr and touches nothing.  The
\* kernel may refuse at any time, not only at the end of the address space.
AllocateFails ==
    UNCHANGED memVars

\* Faulty variants: the header is counted twice; the break is not asked for.
AtBreak_TwoHeaders(addr, total) == addr + total + 1 = sysBreak
AtBreak_Cached(addr, total) == addr + total = curBreak

AtBreak(addr, total) == addr + total = sysBreak

\* release_block returned true: the block touched the break, and brk(addr)
\* moved the break down to its start.
ReleaseBlock(addr, total) ==
    /\ AtBreak(addr, total)
    /\ sysBreak' = addr
    /\ curBreak' = addr
    /\ UNCHANGED heapStart

\* release_block returned false: the block is not the topmost one, or brk
\* failed.
ReleaseBlockFails(addr, total) ==
    /\ AtBreak(addr, total) => BrkMayFail
    /\ UNCHANGED memVars

OwnsAddress(addr) == heapStart =< addr /\ addr < curBreak

=============================================================================
