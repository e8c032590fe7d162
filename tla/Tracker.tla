------------------------------ MODULE Tracker -------------------------------
(***************************************************************************)
(* The DEBUG build: the library with its leak tracker (Allocator's         *)
(* tracked_ table) and the byte counters of the sbrk provider.  Both only  *)
(* watch: an action here is one of MMemory's with what the same code path  *)
(* writes down about it.  The end of the process, when the destructors     *)
(* print what was written down, is an action of its own.                   *)
(***************************************************************************)
EXTENDS MMemory

CONSTANTS
    MaxTracked,     \* kMaxTracked, the length of the table
    CounterRange    \* the byte counters are unsigned: they wrap here

ASSUME TrackerAssumption ==
    /\ MaxTracked \in Nat
    /\ CounterRange \in Nat /\ CounterRange > MaxBreak

VARIABLES
    tracked,            \* the entries of tracked_ and tracked_size_
    allocBytes,         \* alloc_bytes_ of the provider
    releaseBytes,       \* release_bytes_
    report,             \* the pointers the destructor lists
    ended,              \* the process is over
    dropped             \* history: blocks in alloc the table had no room for

trackerVars == <<tracked, allocBytes, releaseBytes, report, ended, dropped>>
debugVars == <<vars, trackerVars>>

DebugInit ==
    /\ Init
    /\ tracked = <<>>
    /\ allocBytes = 0 /\ releaseBytes = 0
    /\ report = {}
    /\ ended = FALSE
    /\ dropped = {}

-----------------------------------------------------------------------------

Entry(b, bytes) == [ptr |-> b, bytes |-> bytes]
TrackedPtrs == {tracked[i].ptr : i \in DOMAIN tracked}

\* Faulty variants: reused blocks are not recorded; the entry that fills the
\* gap leaves its size behind; a release counts the user area only.
TrackAlloc_NotReused(b) ==
    /\ tracked' = IF sysBreak' > sysBreak /\ Len(tracked) < MaxTracked
                    THEN Append(tracked, Entry(b, size'[b]))
                    ELSE tracked
    /\ dropped' = IF Len(tracked) < MaxTracked THEN dropped ELSE dropped \union {b}

TrackFree_SizeStays(b) ==
    /\ \/ \E i \in DOMAIN tracked :
            /\ tracked[i].ptr = b
            /\ tracked' = Front([tracked EXCEPT ![i].ptr = Last(tracked).ptr])
       \/ b \notin TrackedPtrs /\ UNCHANGED tracked
    /\ dropped' = dropped \ {b}

Released_UserOnly == size[node]

\* malloc records the block it hands out, as long as there is room.
TrackAlloc(b) ==
    IF Len(tracked) < MaxTracked
      THEN /\ tracked' = Append(tracked, Entry(b, size'[b]))
           /\ UNCHANGED dropped
      ELSE /\ dropped' = dropped \union {b}
           /\ UNCHANGED tracked

\* free, once the block passed the check: the last entry takes the place of
\* the block's.  A block that is not in the table only causes a warning.
TrackFree(b) ==
    /\ \/ \E i \in DOMAIN tracked :
            /\ tracked[i].ptr = b
            /\ \A j \in 1 .. i - 1 : tracked[j].ptr # b
            /\ tracked' = Front([tracked EXCEPT ![i] = Last(tracked)])
       \/ b \notin TrackedPtrs /\ UNCHANGED tracked
    /\ dropped' = dropped \ {b}

Track ==
    \/ \E b \in alloc' \ alloc : TrackAlloc(b)
    \/ \E b \in alloc \ alloc' : TrackFree(b)
    \/ alloc' = alloc /\ UNCHANGED <<tracked, dropped>>

\* What release_block adds to release_bytes_ when brk took the block back.
Released == Total(size[node])

Count ==
    /\ allocBytes' = IF sysBreak' > sysBreak
                       THEN (allocBytes + (sysBreak' - sysBreak)) % CounterRange
                       ELSE allocBytes
    /\ releaseBytes' = IF sysBreak' < sysBreak
                         THEN (releaseBytes + Released) % CounterRange
                         ELSE releaseBytes

Work ==
    /\ ~ ended
    /\ Next
    /\ Track
    /\ Count
    /\ UNCHANGED <<report, ended>>

\* The last thread returns from main: the destructor of the allocator lists
\* what is in the table.  The caches are not flushed.
EndProcess ==
    /\ ~ ended
    /\ \E t \in Thread : /\ pc[t] = "idle"
                         /\ \A u \in Thread \ {t} : pc[u] = "exited"
    /\ ended' = TRUE
    /\ report' = TrackedPtrs
    /\ UNCHANGED <<vars, tracked, allocBytes, releaseBytes, dropped>>

Over == ended /\ UNCHANGED debugVars

DebugNext == Work \/ EndProcess \/ Over

DebugSpec == DebugInit /\ [][DebugNext]_debugVars

-----------------------------------------------------------------------------
(* Properties                                                              *)

\* The table and the allocator agree after any mix of calls, also after the
\* table was full and has room again: each block that is handed out has one
\* entry, with its size, or came when there was no room; no entry is left of
\* a block that was freed, split or merged (allocator.cpp 278-301).
TableExact ==
    /\ IsInjective([i \in DOMAIN tracked |-> tracked[i].ptr])
    /\ TrackedPtrs \union dropped = alloc
    /\ TrackedPtrs \intersect dropped = {}
    /\ \A i \in DOMAIN tracked : tracked[i].bytes = size[tracked[i].ptr]

\* The difference the provider prints at its end is what the heap has grown,
\* although blocks are given back in other pieces than they were got, and
\* also after the counters wrapped (memory.cpp 37-39, 65-67, 75-76).
CountersExact ==
    (allocBytes + CounterRange - releaseBytes) % CounterRange = sysBreak - heapStart

\* The report at the end of the process misses no leak: it lists each block the
\* program did not free, whichever thread it came from and wherever the gaps of
\* freed blocks were filled, but for those that found no room in the table
\* (allocator.cpp 303-322).
LeaksReported == ended => live \ dropped \subseteq report

\* The destructor's comment (allocator.cpp 275-276): it prints the blocks that
\* are still not freed; and that on the caches (mmemory.cpp 63-65): they are
\* poured back before, so that a cached block is not counted as a leak.
ReportsOnlyLeaks == ended => report \subseteq live

=============================================================================
