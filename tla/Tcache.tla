------------------------------- MODULE Tcache -------------------------------
(***************************************************************************)
(* The per-thread cache of small blocks (src/src/tcache.cpp), one instance *)
(* for each thread.  A bin is the sequence of the blocks in its chain,     *)
(* head first.  As in SbrkMemory, the actions prime the cache's variables  *)
(* and the inuse flags the code writes; MMemory composes them.             *)
(***************************************************************************)
EXTENDS Allocator

CONSTANTS
    BinCount,   \* kBinCount; a block of BinCount units is the largest cached
    BinLimit    \* kBinLimit, the blocks a bin holds at most

ASSUME TcacheAssumption ==
    /\ BinCount \in Nat \ {0}
    /\ BinLimit \in Nat \ {0}

VARIABLES
    bins,       \* bins_ of each thread
    counts      \* counts_ of each thread

tcacheVars == <<bins, counts>>

Bin == 0 .. BinCount - 1

ConstructTcaches ==
    /\ bins = [t \in Thread |-> [k \in Bin |-> <<>>]]
    /\ counts = [t \in Thread |-> [k \in Bin |-> 0]]

-----------------------------------------------------------------------------

(* Faulty variants of the definitions below, for the checks.               *)

\* One block too many.
Full_OffByOne(t, k) == counts[t][k] > BinLimit

\* All sizes share a bin.
BinOf_Coarse(user) == 0

\* The count stays; the flag stays.
TakeFirst_CountStays(t, k) ==
    /\ bins[t][k] # <<>>
    /\ bins' = [bins EXCEPT ![t][k] = Tail(@)]
    /\ inuse' = [inuse EXCEPT ![Head(bins[t][k])] = TRUE]
    /\ UNCHANGED counts

TakeFirst_FlagStays(t, k) ==
    /\ bins[t][k] # <<>>
    /\ bins' = [bins EXCEPT ![t][k] = Tail(@)]
    /\ counts' = [counts EXCEPT ![t][k] = @ - 1]
    /\ UNCHANGED inuse

\* The block is handed out and stays in the bin.
TakeFirst_StaysCached(t, k) ==
    /\ bins[t][k] # <<>>
    /\ counts' = [counts EXCEPT ![t][k] = @ - 1]
    /\ inuse' = [inuse EXCEPT ![Head(bins[t][k])] = TRUE]
    /\ UNCHANGED bins

\* The block is not counted.
Push_NotCounted(t, b) ==
    /\ bins' = [bins EXCEPT ![t][size[b] - 1] = Cons(b, @)]
    /\ UNCHANGED counts

-----------------------------------------------------------------------------

Covers(user) == user =< BinCount

\* bin_of_request and bin_of_block: both divide the aligned user size.
BinOf(user) == user - 1

Full(t, k) == counts[t][k] >= BinLimit

\* The first block of a bin leaves it and is marked in use: pop hands it to
\* the caller, flush_bin to the allocator.
TakeFirst(t, k) ==
    /\ bins[t][k] # <<>>
    /\ bins' = [bins EXCEPT ![t][k] = Tail(@)]
    /\ counts' = [counts EXCEPT ![t][k] = @ - 1]
    /\ inuse' = [inuse EXCEPT ![Head(bins[t][k])] = TRUE]

\* push does nothing when the bin is full; its caller in mmemory.cpp ignores
\* the result.
Push(t, b) ==
    LET k == BinOf(size[b])
    IN  IF Full(t, k)
          THEN UNCHANGED tcacheVars
          ELSE /\ bins' = [bins EXCEPT ![t][k] = Cons(b, @)]
               /\ counts' = [counts EXCEPT ![t][k] = @ + 1]

CachedIn(t, k) == Range(bins[t][k])
Cached == UNION {CachedIn(t, k) : t \in Thread, k \in Bin}

=============================================================================
