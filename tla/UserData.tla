------------------------------ MODULE UserData -------------------------------
(***************************************************************************)
(* What is in the memory: headers, the links of listed and cached blocks,  *)
(* and the program's data share the same units.  The library's actions are *)
(* MMemory's, with what they write, calloc's memset and realloc's memcpy.  *)
(*                                                                         *)
(* The program writes to its blocks (Fill).  The history variable promise  *)
(* is what it may rely on to find there.                                   *)
(***************************************************************************)
EXTENDS MMemory

CONSTANTS
    Header, Link,   \* contents that the library writes
    Unknown         \* contents that nobody relies on

ASSUME ContentAssumption ==
    /\ Cardinality({Header, Link, Unknown}) = 3
    /\ {Header, Link, Unknown} \intersect Nat = {}

VARIABLES
    data,       \* the contents of each unit
    promise     \* history: the first units of each block as the program left them

dataVars == <<vars, data, promise>>

DataInit ==
    /\ Init
    /\ data = [a \in Addr |-> Unknown]
    /\ promise = [a \in Addr |-> <<>>]

-----------------------------------------------------------------------------

\* The header of a block is written when the block comes to be and when its
\* size or flag changes.
HeadersWritten ==
    {b \in Blocks' : b \notin Blocks \/ size'[b] # size[b] \/ inuse'[b] # inuse[b]}

\* insert and remove write the node and its neighbours, at the start of the
\* user areas of listed blocks.  Which ones are neighbours is HeaderList's
\* subject: here any listed node may be written.
NodesWritten == IF freeList' = freeList THEN {} ELSE Listed \union Listed'

\* push writes the chain's link at the start of the user area.
EntriesWritten == Cached' \ Cached

LinksWritten == {b + HeaderUnits : b \in NodesWritten \union EntriesWritten}

Offset(b, i) == b + HeaderUnits + i - 1

\* What a block held before it was handed out, nobody may rely on.
Kept == [b \in Addr |-> IF b \in live \intersect live' THEN promise[b] ELSE <<>>]

\* Somebody looks at these units, in this step or later: at headers, at links,
\* and at what the program left in its blocks.  Any other unit may hold
\* anything.
Relied ==
    UNION { Blocks',
            {b + HeaderUnits : b \in (Listed \union Cached)'},
            UNION {{Offset(b, i) : i \in DOMAIN promise[b]} : b \in live} }

Written ==
    [a \in Addr |-> CASE a \in LinksWritten                  -> Link
                      [] a \in HeadersWritten \ LinksWritten -> Header
                      [] a \notin LinksWritten \union HeadersWritten ->
                           IF a \in Relied THEN data[a] ELSE Unknown]

\* Faulty variants: the last unit is not copied; the flag of calloc's product
\* is cleared only up to the first unit.
Copied_Short(b) == 1 .. size[b] - 1
Cleared_FirstOnly(n) == 1 .. 1

\* The units of the user area that realloc copies, and calloc clears.
Copied(b) == 1 .. size[b]
Cleared(n) == 1 .. n

CallocClears(t, n) ==
    /\ Calloc(t, n)
    /\ \E b \in alloc' \ alloc :
         /\ data' = [a \in Addr |-> IF \E i \in Cleared(n) : a = Offset(b, i)
                                      THEN 0 ELSE Written[a]]
         /\ promise' = [Kept EXCEPT ![b] = [i \in 1 .. n |-> 0]]

ReallocCopies(t, b, n) ==
    /\ ReallocMoves(t, b, n)
    /\ \E c \in alloc' \ alloc :
         /\ data' = [a \in Addr |-> IF a - Offset(c, 0) \in Copied(b)
                                      THEN Written[Offset(b, a - Offset(c, 0))]
                                      ELSE Written[a]]
         /\ promise' = [Kept EXCEPT ![c] = promise[b]]

\* A block that realloc leaves where it is keeps its data, up to the new size.
ReallocKeeps(t, b, n) ==
    /\ ReallocStays(t, b, n)
    /\ data' = Written
    /\ promise' = [Kept EXCEPT ![b] = SubSeq(@, 1, Min({Len(@), n}))]

\* The other calls, calloc that fails and realloc of a null pointer among
\* them, and what goes on inside calls.
OtherCall(t) ==
    /\ \/ \E n \in Request : MallocCached(t, n) \/ MallocUncached(t, n) \/ Calloc(t, n)
       \/ \E b \in live : \/ FreeCached(t, b) \/ FreeFlushes(t, b)
                          \/ FreeLarge(t, b) \/ ReallocZero(t, b)
       \/ \E b \in live, n \in Request : ReallocFails(t, b, n)
       \/ FlushTcache(t)
       \/ Exit(t)
       \/ Inner(t)
    /\ data' = Written
    /\ promise' = Kept

\* The program writes to all of what it asked for.
Fill(b) ==
    /\ data' = [a \in Addr |-> IF a - Offset(b, 0) \in 1 .. asked[b]
                                 THEN a - Offset(b, 0) ELSE data[a]]
    /\ promise' = [promise EXCEPT ![b] = [i \in 1 .. asked[b] |-> i]]
    /\ UNCHANGED vars

DataNext ==
    \/ \E t \in Thread :
         \/ \E n \in Request : CallocClears(t, n)
         \/ \E b \in live, n \in Request : ReallocCopies(t, b, n) \/ ReallocKeeps(t, b, n)
         \/ OtherCall(t)
    \/ \E b \in live : Fill(b)

DataSpec == DataInit /\ [][DataNext]_dataVars

-----------------------------------------------------------------------------
(* Properties                                                              *)

\* The program finds in its blocks what it left there, also after realloc
\* moved them, and zeros after calloc, whatever was in that memory before
\* (allocator.cpp 225, 264).
DataIntact ==
    \A b \in live : \A i \in DOMAIN promise[b] : data[Offset(b, i)] = promise[b][i]

\* The library finds its headers and links as it wrote them: no link lies on a
\* header, and the program's data reach neither (block.h 31-34).
LibraryIntact ==
    /\ \A b \in Blocks : data[b] = Header
    /\ \A b \in Listed \union Cached : data[b + HeaderUnits] = Link

=============================================================================
