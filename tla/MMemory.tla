------------------------------- MODULE MMemory -------------------------------
(***************************************************************************)
(* The public API (src/src/mmemory.cpp): malloc and free look into the     *)
(* calling thread's cache first; what the cache does not serve, and all of *)
(* calloc and realloc, goes to the one allocator.                          *)
(*                                                                         *)
(* Cache operations take no lock.  A flush is a loop that returns one      *)
(* block after the other to the allocator, and each return takes the lock  *)
(* on its own: other threads run between any two steps of it.              *)
(***************************************************************************)
EXTENDS Tcache

VARIABLES
    live,       \* the blocks the program owns
    pc,         \* where each thread is
    arg,        \* the block on its way to Allocator::free, by thread
    fbin,       \* the bin flush_bin works on; BinCount: no flush goes on
    pending     \* the block free pushes after the flush, or NoBlock

vars == <<allocatorVars, tcacheVars, live, pc, arg, fbin, pending>>

NoBlock == MaxBreak
NoBin == BinCount

Init ==
    /\ AllocatorInit
    /\ ConstructTcaches
    /\ live = {}
    /\ pc = [t \in Thread |-> "idle"]
    /\ arg = [t \in Thread |-> NoBlock]
    /\ fbin = [t \in Thread |-> NoBin]
    /\ pending = [t \in Thread |-> NoBlock]

callVars == <<pc, arg, fbin, pending>>

Goto(t, label) == pc' = [pc EXCEPT ![t] = label]

-----------------------------------------------------------------------------
(* malloc, calloc                                                          *)

\* A cached block of the very size asked for.
MallocCached(t, n) ==
    /\ pc[t] = "idle"
    /\ Covers(n)
    /\ TakeFirst(t, BinOf(n))
    /\ live' = live \union {Head(bins[t][BinOf(n)])}
    /\ asked' = [asked EXCEPT ![Head(bins[t][BinOf(n)])] = n]
    /\ UNCHANGED <<memVars, size, freeList, locker, phase, node, alloc, callVars>>

\* The allocator's malloc; the block it hands out, if any, is the program's.
AllocatorMalloc(n) ==
    /\ Malloc(n)
    /\ live' = live \union (alloc' \ alloc)
    /\ UNCHANGED tcacheVars

MallocUncached(t, n) ==
    /\ pc[t] = "idle"
    /\ Covers(n) => bins[t][BinOf(n)] = <<>>
    /\ AllocatorMalloc(n)
    /\ UNCHANGED callVars

\* calloc, and realloc of a null pointer, never look into the cache.
Calloc(t, n) ==
    /\ pc[t] = "idle"
    /\ AllocatorMalloc(n)
    /\ UNCHANGED callVars

-----------------------------------------------------------------------------
(* free                                                                    *)

\* A small block goes into the cache.  A block that fails the check is logged
\* and stays as it is.
FreeCached(t, b) ==
    /\ pc[t] = "idle"
    /\ Covers(size[b])
    /\ IF Accepts(b)
         THEN /\ ~ Full(t, BinOf(size[b]))
              /\ inuse' = [inuse EXCEPT ![b] = FALSE]
              /\ Push(t, b)
         ELSE UNCHANGED <<inuse, tcacheVars>>
    /\ live' = live \ {b}
    /\ asked' = [asked EXCEPT ![b] = 0]
    /\ UNCHANGED <<memVars, size, freeList, locker, phase, node, alloc, callVars>>

\* The bin is full: it is flushed before the block is pushed.
FreeFlushes(t, b) ==
    /\ pc[t] = "idle"
    /\ Covers(size[b]) /\ Accepts(b)
    /\ Full(t, BinOf(size[b]))
    /\ inuse' = [inuse EXCEPT ![b] = FALSE]
    /\ live' = live \ {b}
    /\ asked' = [asked EXCEPT ![b] = 0]
    /\ Goto(t, "flush")
    /\ fbin' = [fbin EXCEPT ![t] = BinOf(size[b])]
    /\ pending' = [pending EXCEPT ![t] = b]
    /\ UNCHANGED <<memVars, size, freeList, locker, phase, node, alloc, tcacheVars, arg>>

\* The block is passed to Allocator::free.
PassToAllocator(t, b) ==
    /\ Goto(t, "drain")
    /\ arg' = [arg EXCEPT ![t] = b]
    /\ UNCHANGED <<fbin, pending>>

FreeLarge(t, b) ==
    /\ pc[t] = "idle"
    /\ ~ Covers(size[b])
    /\ PassToAllocator(t, b)
    /\ live' = live \ {b}
    /\ UNCHANGED <<allocatorVars, tcacheVars>>

\* flush_tcache: the bins from the first to the last.
FlushTcache(t) ==
    /\ pc[t] = "idle"
    /\ Goto(t, "flush")
    /\ fbin' = [fbin EXCEPT ![t] = 0]
    /\ UNCHANGED <<allocatorVars, tcacheVars, live, arg, pending>>

\* One iteration of flush_bin's loop: the block is off the bin and in use
\* again, the call of drain_ follows.
FlushFirst(t) ==
    /\ pc[t] = "flush"
    /\ TakeFirst(t, fbin[t])
    /\ PassToAllocator(t, Head(bins[t][fbin[t]]))
    /\ UNCHANGED <<memVars, size, freeList, locker, phase, node, alloc, asked, live>>

\* Faulty variant: the bins are visited round and round.
FlushDone_Wraps(t) ==
    /\ pc[t] = "flush"
    /\ bins[t][fbin[t]] = <<>>
    /\ fbin' = [fbin EXCEPT ![t] = (@ + 1) % BinCount]
    /\ UNCHANGED <<allocatorVars, tcacheVars, live, arg, pending, pc>>

\* flush_bin is done.  free pushes its block; flush_all turns to the next bin.
FlushDone(t) ==
    /\ pc[t] = "flush"
    /\ bins[t][fbin[t]] = <<>>
    /\ IF pending[t] # NoBlock
         THEN /\ Push(t, pending[t])
              /\ fbin' = [fbin EXCEPT ![t] = NoBin]
              /\ pending' = [pending EXCEPT ![t] = NoBlock]
         ELSE /\ fbin' = [fbin EXCEPT ![t] = @ + 1]
              /\ UNCHANGED <<tcacheVars, pending>>
    /\ Goto(t, IF fbin'[t] = NoBin THEN "idle" ELSE "flush")
    /\ UNCHANGED <<allocatorVars, live, arg>>

\* Allocator::free returns into the flush it was called from, or to the
\* program.
Return(t) ==
    /\ Goto(t, IF fbin[t] = NoBin THEN "idle" ELSE "flush")
    /\ arg' = [arg EXCEPT ![t] = NoBlock]

\* Allocator::free gets the lock and checks the block.
Drain(t) ==
    /\ pc[t] = "drain"
    /\ IF Accepts(arg[t])
         THEN /\ FreeBegin(t, arg[t])
              /\ Goto(t, "free")
              /\ arg' = [arg EXCEPT ![t] = NoBlock]
         ELSE FreeRejected(arg[t]) /\ Return(t)
    /\ UNCHANGED <<tcacheVars, live, fbin, pending>>

\* Allocator::free goes on under the lock, and returns when it unlocks.
Freeing(t) ==
    /\ pc[t] = "free"
    /\ FreeStep(t)
    /\ IF locker' = NoThread THEN Return(t) ELSE UNCHANGED <<pc, arg>>
    /\ UNCHANGED <<tcacheVars, live, fbin, pending>>

-----------------------------------------------------------------------------
(* realloc                                                                 *)

\* realloc(p, 0) frees p through the allocator, whatever its size.
ReallocZero(t, b) ==
    /\ pc[t] = "idle"
    /\ PassToAllocator(t, b)
    /\ live' = live \ {b}
    /\ UNCHANGED <<allocatorVars, tcacheVars>>

\* The block is too small: the program gets a new block that holds the old
\* data, and the old block is freed through the allocator.
ReallocMoves(t, b, n) ==
    /\ pc[t] = "idle"
    /\ size[b] < n
    /\ Malloc(n)
    /\ alloc' # alloc
    /\ live' = (live \ {b}) \union (alloc' \ alloc)
    /\ PassToAllocator(t, b)
    /\ UNCHANGED tcacheVars

\* The block is large enough: it stays, whole, and now answers the new request.
ReallocStays(t, b, n) ==
    /\ pc[t] = "idle"
    /\ size[b] >= n
    /\ asked' = [asked EXCEPT ![b] = n]
    /\ UNCHANGED <<heapVars, locker, phase, node, alloc, tcacheVars, live, callVars>>

\* The block is too small and there is no memory: it stays as it is.
ReallocFails(t, b, n) ==
    /\ pc[t] = "idle"
    /\ size[b] < n
    /\ MallocFails(n)
    /\ UNCHANGED <<tcacheVars, live, callVars>>

-----------------------------------------------------------------------------

\* A thread ends.  Tcache has no destructor: its bins are neither flushed nor
\* changed, and no other thread can reach them.  When the last thread ends the
\* process does, which is not modelled.
Exit(t) ==
    /\ pc[t] = "idle"
    /\ \E u \in Thread \ {t} : pc[u] # "exited"
    /\ Goto(t, "exited")
    /\ UNCHANGED <<allocatorVars, tcacheVars, live, arg, fbin, pending>>

\* What a thread does on its own once it is inside a call.
Inner(t) ==
    \/ FlushFirst(t)
    \/ FlushDone(t)
    \/ Drain(t)
    \/ Freeing(t)

\* Any thread may free or resize any block the program owns.
Next ==
    \E t \in Thread :
      \/ \E n \in Request : \/ MallocCached(t, n)
                            \/ MallocUncached(t, n)
                            \/ Calloc(t, n)
      \/ \E b \in live : \/ FreeCached(t, b)
                         \/ FreeFlushes(t, b)
                         \/ FreeLarge(t, b)
                         \/ ReallocZero(t, b)
      \/ \E b \in live, n \in Request : \/ ReallocMoves(t, b, n)
                                        \/ ReallocStays(t, b, n)
                                        \/ ReallocFails(t, b, n)
      \/ FlushTcache(t)
      \/ Exit(t)
      \/ Inner(t)

Spec == Init /\ [][Next]_vars

\* A thread inside a call is scheduled.  The mutex is released again and again,
\* and strong fairness says that a thread which waits for it gets it one day:
\* an assumption, POSIX makes no such promise.
FairSpec ==
    /\ Spec
    /\ \A t \in Thread :
         /\ WF_vars(FlushFirst(t) \/ FlushDone(t))
         /\ WF_vars(Freeing(t))
         /\ SF_vars(Drain(t))

-----------------------------------------------------------------------------
(* Properties                                                              *)

InTransit == {arg[t] : t \in Thread} \ {NoBlock}
Pending == {pending[t] : t \in Thread} \ {NoBlock}

\* Every variable has its type.
TypeOK ==
    /\ HeapTypeOK
    /\ bins \in [Thread -> [Bin -> Seq(Addr)]]
    /\ counts \in [Thread -> [Bin -> 0 .. BinLimit]]
    /\ live \subseteq Addr
    /\ pc \in [Thread -> {"idle", "flush", "drain", "free", "exited"}]
    /\ arg \in [Thread -> Addr \union {NoBlock}]
    /\ fbin \in [Thread -> Bin \union {NoBin}]
    /\ pending \in [Thread -> Addr \union {NoBlock}]

\* No block is lost and none has two holders: what the allocator handed out is
\* owned by the program, or in one bin, once, or waiting to be pushed, or on
\* its way back.  free ignores the result of push (mmemory.cpp 111): were the
\* bin still full after the flush, the block would be gone.
OneHolder ==
    /\ alloc = live \union Cached \union Pending \union InTransit
    /\ live \intersect (Cached \union Pending \union InTransit) = {}
    /\ Cached \intersect (Pending \union InTransit) = {}
    /\ Pending \intersect InTransit = {}
    /\ \A t \in Thread, k \in Bin : IsInjective(bins[t][k])
    /\ \A t, u \in Thread, k, l \in Bin :
         <<t, k>> # <<u, l>> => CachedIn(t, k) \intersect CachedIn(u, l) = {}
    /\ \A t, u \in Thread : t # u =>
         /\ pending[t] # pending[u] \/ pending[t] = NoBlock
         /\ arg[t] # arg[u] \/ arg[t] = NoBlock

\* A cached block fits its bin exactly, so a hit needs no split and is never
\* too short, also when the block came out of a longer free one; and counts_
\* is what the chain holds, never more than the limit (tcache.h 33-37).
BinExact ==
    \A t \in Thread, k \in Bin :
        /\ \A b \in CachedIn(t, k) : BinOf(size[b]) = k
        /\ counts[t][k] = Len(bins[t][k])

\* free accepts every block the program owns and the allocator accepts every
\* block a flush returns to it, but a block at rest in a cache or in the list
\* is rejected, so that freeing it again has no effect (mmemory.cpp 97-105,
\* tcache.cpp 81-92).
FlagTellsHolder ==
    /\ \A b \in live \union InTransit : Accepts(b)
    /\ \A b \in Cached \union Pending \union Listed : ~ Accepts(b)

\* The cache delays the return of memory and does not prevent it: when the
\* program owns nothing, all bins are empty and no call goes on, the heap is
\* back to nothing (mmemory.cpp 61-62).
ApiReclaims ==
    /\ ~ BrkMayFail
    /\ live = {} /\ Cached = {}
    /\ \A t \in Thread : pc[t] \in {"idle", "exited"}
    => sysBreak = heapStart

\* A call of free or flush_tcache returns, although a flush takes the lock once
\* for each block and other threads keep taking it in between: no thread adds
\* to the bin of another, and each round takes a block out (tcache.cpp 85-103).
FreeReturns ==
    \A t \in Thread : pc[t] \in {"flush", "drain", "free"} ~> pc[t] = "idle"

\* The data of a block is the program's alone: its list node or cache link is
\* written only after the program gave it up, and no header inside it changes.
LiveUntouched ==
    [][\A a \in Addr : size'[a] # size[a] \/ inuse'[a] # inuse[a] =>
         \A b \in live \intersect live' : ~ Inside(a, b)]_vars

LiveAreas == {AreaOf(b, size, asked) : b \in live}

ApiContract == INSTANCE HeapContract WITH live <- LiveAreas, Space <- Addr

\* The API keeps the contract, whichever way a block takes.
ApiKeepsContract == ApiContract!Spec

=============================================================================
