------------------------- MODULE ExtendedApiProofs --------------------------
(***************************************************************************)
(* Proofs about the two modules that put something beside the public API:  *)
(* UserData, what the program leaves in its blocks and the library in its  *)
(* headers and links, and Tracker, the table and the byte counters of the  *)
(* DEBUG build.  For any heap, any number of threads and any bins; for any *)
(* length of the table and any range of the counters the heap fits into.   *)
(*                                                                         *)
(* The two parts have nothing to do with each other: each proves theorems  *)
(* about its own specification, DataSpec and DebugSpec, and cites only its *)
(* own assumption beside those of the API.                                 *)
(***************************************************************************)
EXTENDS UserData, Tracker, ApiProofs

-----------------------------------------------------------------------------
(* UserData: the invariant                                                 *)

\* A block is as long as it was asked for.
AskedFits == \A b \in live : asked[b] =< size[b]

\* A promise ends inside its block.
PromiseFits ==
    /\ promise \in [Addr -> Seq(Nat)]
    /\ \A b \in live : Len(promise[b]) =< size[b]

\* The invariant the proof is by.
DataInv ==
    /\ ApiInv
    /\ AskedFits
    /\ PromiseFits
    /\ DataIntact
    /\ LibraryIntact

\* Where things are: user areas lie apart from headers and from each other,
\* each has room for a link, and no block has two holders.
Apart ==
    /\ live \subseteq alloc /\ Cached \subseteq alloc /\ InTransit \subseteq alloc
    /\ live \intersect Cached = {} /\ InTransit \intersect Cached = {}
    /\ alloc \subseteq Blocks /\ Listed \subseteq Blocks
    /\ alloc \intersect Listed = {}
    /\ \A b \in Blocks :
         /\ b \in Addr /\ b \in Nat /\ size[b] \in Nat /\ 1 \in 1 .. size[b]
         /\ b + HeaderUnits = Offset(b, 1)
         /\ \A i \in 1 .. size[b] : Offset(b, i) \in Addr \ Blocks
    /\ \A b, d \in Blocks : b # d =>
         \A i \in 1 .. size[b], j \in 1 .. size[d] : Offset(b, i) # Offset(d, j)

-----------------------------------------------------------------------------
(* Where things are                                                        *)

\* The user area of a block: its units are the block's alone.
LEMMA UserArea ==
    ASSUME HeapInv, NEW b \in Blocks, NEW i \in 1 .. size[b]
    PROVE  /\ Offset(b, i) \in Addr
           /\ Inside(Offset(b, i), b)
           /\ Offset(b, i) \notin Blocks
           /\ \A d \in Blocks : d # b => ~ Inside(Offset(b, i), d)
<1>1. /\ b \in Nat /\ size[b] \in Nat /\ End(b) =< sysBreak
      /\ End(b) = b + Total(size[b]) /\ sysBreak \in 0 .. MaxBreak
  BY HeapFacts
<1>2. Offset(b, i) = b + i /\ End(b) = b + 1 + size[b]
  BY <1>1 DEF Offset, HeaderUnits, Total
<1>3. Offset(b, i) \in Addr /\ Inside(Offset(b, i), b) /\ Offset(b, i) # b
  BY <1>1, <1>2, MemoryAssumption DEF Addr, Inside
<1>4. \A d \in Blocks : d # b => ~ Inside(Offset(b, i), d)
  BY <1>3, InsideOne
<1>5. Offset(b, i) \notin Blocks
  <2>1. SUFFICES ASSUME Offset(b, i) \in Blocks PROVE FALSE
    OBVIOUS
  <2>2. Inside(Offset(b, i), Offset(b, i))
    BY <2>1, OwnHeader
  <2> QED
    BY <1>3, <1>4, <2>1, <2>2
<1> QED
  BY <1>3, <1>4, <1>5

\* Two units of user areas are the same only if block and position are.
LEMMA OffsetsDiffer ==
    ASSUME HeapInv, NEW b \in Blocks, NEW i \in 1 .. size[b],
           NEW d \in Blocks, NEW j \in 1 .. size[d], d # b
    PROVE  Offset(b, i) # Offset(d, j)
<1>1. Inside(Offset(d, j), d)
  BY UserArea
<1>2. ~ Inside(Offset(b, i), d)
  BY UserArea
<1> QED
  BY <1>1, <1>2

\* Every block has room for a link.
LEMMA LinkFits ==
    ASSUME HeapInv, NEW b \in Blocks
    PROVE  1 \in 1 .. size[b] /\ b + HeaderUnits = Offset(b, 1)
<1>1. b \in Nat /\ size[b] \in Nat /\ size[b] >= 1
  BY HeapFacts DEF Tiled
<1> QED
  BY <1>1 DEF Offset, HeaderUnits

\* The blocks of the API are blocks of the heap.
LEMMA HolderBlocks ==
    ASSUME ApiInv
    PROVE  /\ HeapInv
           /\ live \subseteq alloc /\ Cached \subseteq alloc
           /\ InTransit \subseteq alloc
           /\ live \intersect Cached = {} /\ InTransit \intersect Cached = {}
           /\ alloc \subseteq Blocks /\ Listed \subseteq Blocks
           /\ alloc \intersect Listed = {}
<1>1. HeapInv /\ Partition
  BY HolderFacts
<1>2. alloc \intersect Listed = {}
  BY <1>1 DEF HeapInv, OneOwner
<1> QED
  BY <1>1, <1>2 DEF Partition, Blocks

\* The API's invariant puts them there.
LEMMA HoldersApart == ApiInv => Apart
<1> SUFFICES ASSUME ApiInv PROVE Apart
  OBVIOUS
<1>1. ASSUME NEW b \in Blocks
      PROVE  /\ b \in Addr /\ b \in Nat /\ size[b] \in Nat /\ 1 \in 1 .. size[b]
             /\ b + HeaderUnits = Offset(b, 1)
             /\ \A i \in 1 .. size[b] : Offset(b, i) \in Addr \ Blocks
  <2>1. b \in Addr /\ b \in Nat /\ size[b] \in Nat
    BY HolderBlocks, HeapFacts
  <2>2. 1 \in 1 .. size[b] /\ b + HeaderUnits = Offset(b, 1)
    BY HolderBlocks, LinkFits
  <2>3. \A i \in 1 .. size[b] : Offset(b, i) \in Addr \ Blocks
    BY HolderBlocks, UserArea
  <2> QED
    BY <2>1, <2>2, <2>3
<1>2. ASSUME NEW b \in Blocks, NEW d \in Blocks, b # d,
             NEW i \in 1 .. size[b], NEW j \in 1 .. size[d]
      PROVE  Offset(b, i) # Offset(d, j)
  BY <1>2, HolderBlocks, OffsetsDiffer
<1> QED
  BY <1>1, <1>2, HolderBlocks DEF Apart

\* The same of the next state.
LEMMA HoldersApartNext == ApiInv' => Apart'
BY HoldersApart, PTL

-----------------------------------------------------------------------------
(* What a step of the library writes                                       *)

\* A block that comes to be does not begin where a listed block had its link.
LEMMA NoHeaderOnLink ==
    ASSUME ApiInv, [Next]_vars, freeList' # freeList,
           NEW b \in Blocks' \ Blocks, NEW y \in Listed
    PROVE  b # y + HeaderUnits
<1>1. HeapInv /\ y \in Blocks /\ b \notin Blocks
  BY HolderBlocks
<1>2. AllocatorNext
  BY StepSorts DEF allocatorVars, heapVars
<1>3. ASSUME NEW need \in Request, MallocReuse(need)
      PROVE  b # y + HeaderUnits
  <2>1. PICK i, x, rest, others :
          /\ i \in DOMAIN freeList /\ x = freeList[i]
          /\ rest = x + Total(need) /\ others = RemoveAt(freeList, i)
          /\ \/ Splits(x, need) /\ freeList' = Cons(rest, others)
             \/ freeList' = others
          /\ alloc' = alloc \union {x}
    BY <1>3 DEF MallocReuse
  <2>2. /\ x \in Listed /\ x \in Blocks /\ Range(others) = Listed \ {x}
        /\ others \in Seq(Addr) /\ IsInjective(others)
    BY <1>1, <2>1, ListRemove DEF Blocks
  <2>3. x \in Nat /\ size[x] \in Nat /\ need \in Nat \ {0}
    BY <1>1, <2>2, HeapFacts, AllocatorAssumption
  <2>4. InHand' = {}
    BY <1>3 DEF MallocReuse, InHand
  <2>5. CASE freeList' = others
    <3>1. Listed' = Listed \ {x}
      BY <2>2, <2>5 DEF Listed
    <3> QED
      BY <1>1, <2>1, <2>2, <2>4, <3>1 DEF Blocks
  <2>6. CASE Splits(x, need) /\ freeList' = Cons(rest, others)
    <3>1. /\ need + 1 \in 1 .. size[x] /\ rest = Offset(x, need + 1)
          /\ x + HeaderUnits # rest
      BY <2>1, <2>3, <2>6 DEF Splits, HeaderUnits, Offset, Total
    <3>2. rest \in Addr /\ rest \notin Range(others)
      BY <1>1, <2>2, <3>1, UserArea DEF Blocks
    <3>3. Listed' = (Listed \ {x}) \union {rest}
      BY <2>2, <2>6, <3>2, ConsRange DEF Listed
    <3>4. b = rest
      BY <1>1, <2>1, <2>2, <2>4, <3>3 DEF Blocks
    <3>5. 1 \in 1 .. size[y] /\ y + HeaderUnits = Offset(y, 1)
      BY <1>1, LinkFits
    <3>6. CASE y = x
      BY <3>1, <3>4, <3>6
    <3>7. CASE y # x
      BY <1>1, <2>2, <3>1, <3>4, <3>5, <3>7, OffsetsDiffer
    <3> QED
      BY <3>6, <3>7
  <2> QED
    BY <2>1, <2>5, <2>6
<1>4. ASSUME NEW t \in Thread, FreeStep(t)
      PROVE  FALSE
  <2>1. locker = t /\ locker # NoThread /\ node \in Blocks /\ alloc' = alloc
    BY <1>4, AllocatorAssumption
       DEF FreeStep, MergeNext, MergePrev, ReleaseToMemory, ReleaseToList,
           Blocks, InHand
  <2>2. CASE MergeNext(t)
    <3>1. PICK i \in DOMAIN freeList : freeList' = RemoveAt(freeList, i)
      BY <2>2 DEF MergeNext
    <3>2. Listed' \subseteq Listed
      BY <1>1, <3>1, ListRemove DEF Listed
    <3>3. node' = node /\ locker' = locker
      BY <2>2 DEF MergeNext
    <3> QED
      BY <1>1, <2>1, <3>2, <3>3 DEF Blocks, InHand
  <2>3. CASE MergePrev(t)
    <3>1. PICK i \in DOMAIN freeList :
            freeList' = RemoveAt(freeList, i) /\ node' = freeList[i]
      BY <2>3 DEF MergePrev
    <3>2. Listed' \subseteq Listed /\ node' \in Listed
      BY <1>1, <3>1, ListRemove DEF Listed
    <3>3. locker' = locker
      BY <2>3 DEF MergePrev
    <3> QED
      BY <1>1, <2>1, <3>2, <3>3 DEF Blocks, InHand
  <2>4. CASE ReleaseToMemory(t)
    BY <1>1, <2>4, ReleaseToMemoryStep
  <2>5. CASE ReleaseToList(t)
    <3>1. freeList' = Cons(node, freeList) /\ locker' = NoThread
      BY <2>5 DEF ReleaseToList, Unlock
    <3>2. /\ freeList \in Seq(Addr) /\ node \in Addr
          /\ IsInjective(freeList) /\ node \notin Range(freeList)
      BY <1>1, <2>1 DEF HeapInv, HeapTypeOK, OneOwner, InHand, Listed
    <3>3. Listed' = Listed \union {node}
      BY <3>1, <3>2, ConsRange DEF Listed
    <3> QED
      BY <1>1, <2>1, <3>1, <3>3 DEF Blocks, InHand
  <2> QED
    BY <1>4, <2>2, <2>3, <2>4, <2>5 DEF FreeStep
<1>5. /\ \A need \in Request : ~ MallocExtend(need) /\ ~ MallocFails(need)
      /\ \A t \in Thread, d \in alloc : ~ FreeBegin(t, d)
  BY DEF MallocExtend, MallocFails, FreeBegin, heapVars
<1> QED
  BY <1>2, <1>3, <1>4, <1>5 DEF AllocatorNext, Malloc

\* What the library writes is at headers of the next state's blocks, or at
\* links of listed and cached ones.
LEMMA WrittenAt ==
    /\ HeadersWritten \subseteq Blocks'
    /\ \A a \in LinksWritten :
         \E y \in Listed \union Listed' \union (Cached' \ Cached) :
            /\ a = y + HeaderUnits
            /\ y \in Listed => freeList' # freeList \/ y \in Listed'
BY DEF HeadersWritten, LinksWritten, NodesWritten, EntriesWritten, Listed

\* No data is written over: what the program left in a block stays, until the
\* program gives the block up and it is listed or cached.
LEMMA DataKept ==
    ASSUME ApiInv, ApiInv', [Next]_vars, PromiseFits,
           NEW b \in live, b \in alloc', b \notin Cached',
           NEW i \in DOMAIN promise[b]
    PROVE  /\ Written[Offset(b, i)] = data[Offset(b, i)]
           /\ i \in 1 .. size[b] /\ size'[b] = size[b]
<1>1. /\ Apart /\ Apart' /\ size'[b] = size[b]
      /\ b \in alloc /\ b \in Blocks /\ b \in Blocks'
  BY HoldersApart, HoldersApartNext, SizeKept DEF Apart
<1>2. i \in 1 .. size[b]
  <2>1. promise[b] \in Seq(Nat) /\ Len(promise[b]) =< size[b] /\ b \in Addr
    BY <1>1 DEF PromiseFits, Apart
  <2>2. i \in 1 .. Len(promise[b]) /\ Len(promise[b]) \in Nat
    BY <2>1
  <2> QED
    BY <1>1, <2>1, <2>2 DEF Apart
<1>3. PICK a : a = Offset(b, i)
  OBVIOUS
<1>4. a \in Addr /\ a \in Relied
  BY <1>1, <1>2, <1>3 DEF Apart, Relied
<1>5. a \notin HeadersWritten
  <2>1. Offset(b, i) \notin Blocks'
    BY <1>1, <1>2 DEF Apart
  <2> QED
    BY <1>3, <2>1, WrittenAt
<1>6. a \notin LinksWritten
  <2>1. SUFFICES ASSUME NEW y \in Listed \union Listed' \union (Cached' \ Cached),
                        a = y + HeaderUnits
                 PROVE  FALSE
    BY WrittenAt
  <2>2. y # b
    BY <1>1 DEF Apart
  <2>3. CASE y \in Listed
    BY <1>1, <1>2, <1>3, <2>1, <2>2, <2>3 DEF Apart
  <2>4. CASE y \in Listed' \union Cached'
    <3>1. y \in Blocks' /\ i \in 1 .. size'[b]
      BY <1>1, <1>2, <2>4 DEF Apart
    <3>2. y + HeaderUnits = Offset(y, 1) /\ 1 \in 1 .. size'[y]
      BY <1>1, <3>1 DEF Apart
    <3> QED
      BY <1>1, <1>3, <2>1, <2>2, <3>1, <3>2 DEF Apart
  <2> QED
    BY <2>3, <2>4
<1> QED
  BY <1>1, <1>2, <1>3, <1>4, <1>5, <1>6 DEF Written

\* Headers and links are where the library expects them after a step.
LEMMA LibraryKept ==
    ASSUME ApiInv, ApiInv', [Next]_vars, LibraryIntact
    PROVE  /\ \A b \in Blocks' : Written[b] = Header
           /\ \A y \in (Listed \union Cached)' : Written[y + HeaderUnits] = Link
<1>1. Apart /\ Apart'
  BY HoldersApart, HoldersApartNext
<1>2. ASSUME NEW b \in Blocks'
      PROVE  Written[b] = Header
  <2>1. b \in Addr /\ b \in Relied
    BY <1>1 DEF Apart, Relied
  <2>2. b \notin LinksWritten
    <3>1. SUFFICES ASSUME NEW y \in Listed \union Listed' \union (Cached' \ Cached),
                          b = y + HeaderUnits,
                          y \in Listed => freeList' # freeList \/ y \in Listed'
                   PROVE  FALSE
      BY WrittenAt
    <3>2. CASE y \in Listed' \union Cached'
      <4>1. y \in Blocks'
        BY <1>1, <3>2 DEF Apart
      <4>2. y + HeaderUnits = Offset(y, 1) /\ 1 \in 1 .. size'[y]
        BY <1>1, <4>1 DEF Apart
      <4> QED
        BY <1>1, <3>1, <4>1, <4>2 DEF Apart
    <3>3. CASE y \in Listed /\ freeList' # freeList
      <4>1. b \notin Blocks
        BY <1>1, <3>1, <3>3 DEF Apart
      <4> QED
        BY <3>1, <3>3, <4>1, NoHeaderOnLink
    <3> QED
      BY <3>1, <3>2, <3>3
  <2>3. CASE b \in HeadersWritten
    BY <2>1, <2>2, <2>3 DEF Written
  <2>4. CASE b \notin HeadersWritten
    <3>1. b \in Blocks
      BY <2>4 DEF HeadersWritten
    <3>2. data[b] = Header
      BY <3>1 DEF LibraryIntact
    <3> QED
      BY <2>1, <2>2, <2>4, <3>2 DEF Written
  <2> QED
    BY <2>3, <2>4
<1>3. ASSUME NEW y \in (Listed \union Cached)'
      PROVE  Written[y + HeaderUnits] = Link
  <2>1. PICK a : a = y + HeaderUnits
    OBVIOUS
  <2>2. y \in Blocks'
    BY <1>1 DEF Apart
  <2>3. a \in Addr /\ a \notin Blocks' /\ a \in Relied
    <3>1. y + HeaderUnits = Offset(y, 1) /\ 1 \in 1 .. size'[y]
      BY <1>1, <2>2 DEF Apart
    <3>2. a \in Addr /\ a \notin Blocks'
      BY <1>1, <2>1, <2>2, <3>1 DEF Apart
    <3> QED
      BY <2>1, <3>2 DEF Relied
  <2>4. CASE a \in LinksWritten
    BY <2>1, <2>3, <2>4 DEF Written
  <2>5. CASE a \notin LinksWritten
    <3>1. y \in Listed \union Cached
      BY <2>1, <2>5 DEF LinksWritten, NodesWritten, EntriesWritten, Listed
    <3>2. data[a] = Link
      BY <2>1, <3>1 DEF LibraryIntact
    <3> QED
      BY <2>1, <2>3, <2>5, <3>2, WrittenAt DEF Written
  <2> QED
    BY <2>4, <2>5
<1> QED
  BY <1>2, <1>3

\* What the contract's step leaves is never shorter than what it was asked for.
LEMMA ContractFits ==
    ASSUME \A x \in LiveAreas : x.len >= x.asked, ApiContract!Next,
           NEW y \in LiveAreas'
    PROVE  y.len >= y.asked
<1>1. ASSUME NEW start, NEW n \in Request, NEW len \in n .. n + 1
      PROVE  ApiContract!Area(start, len, n).len >= ApiContract!Area(start, len, n).asked
  <2>1. n \in Nat /\ len >= n
    BY AllocatorAssumption
  <2> QED
    BY <2>1 DEF ApiContract!Area
<1>2. ASSUME NEW x \in LiveAreas, NEW n \in Request, ApiContract!Stay(x, n)
      PROVE  y.len >= y.asked
  <2>1. /\ x.len >= n
        /\ LiveAreas' = (LiveAreas \ {x}) \union {ApiContract!Area(x.start, x.len, n)}
    BY <1>2 DEF ApiContract!Stay
  <2>2. CASE y \in LiveAreas
    BY <2>2
  <2>3. CASE y = ApiContract!Area(x.start, x.len, n)
    BY <2>1, <2>3 DEF ApiContract!Area
  <2> QED
    BY <2>1, <2>2, <2>3
<1>3. ASSUME NEW x \in LiveAreas, NEW n \in Request, ApiContract!Move(x, n)
      PROVE  y.len >= y.asked
  <2>1. PICK start \in Addr, len \in n .. n + 1 :
          LiveAreas' = (LiveAreas \ {x}) \union {ApiContract!Area(start, len, n)}
    BY <1>3 DEF ApiContract!Move
  <2>2. CASE y \in LiveAreas
    BY <2>2
  <2>3. CASE y = ApiContract!Area(start, len, n)
    BY <1>1, <2>3
  <2> QED
    BY <2>1, <2>2, <2>3
<1>4. ASSUME NEW n \in Request, ApiContract!Malloc(n)
      PROVE  y.len >= y.asked
  <2>1. PICK start \in Addr, len \in n .. n + 1 :
          LiveAreas' = LiveAreas \union {ApiContract!Area(start, len, n)}
    BY <1>4 DEF ApiContract!Malloc
  <2>2. CASE y \in LiveAreas
    BY <2>2
  <2>3. CASE y = ApiContract!Area(start, len, n)
    BY <1>1, <2>3
  <2> QED
    BY <2>1, <2>2, <2>3
<1>5. ASSUME NEW x \in LiveAreas, ApiContract!Free(x)
      PROVE  y.len >= y.asked
  BY <1>5 DEF ApiContract!Free
<1> QED
  BY <1>2, <1>3, <1>4, <1>5 DEF ApiContract!Next

\* A block of the program is never shorter than what it was asked for: the
\* contract says so of every area.
LEMMA StepKeepsFits ==
    ASSUME ApiInv, ApiInv', [Next]_vars, AskedFits
    PROVE  AskedFits'
<1>1. \A x \in LiveAreas : x.len >= x.asked
  BY DEF AskedFits, LiveAreas, AreaOf
<1>2. ASSUME NEW x \in LiveAreas'
      PROVE  x.len >= x.asked
  BY <1>1, ContractFits, ApiStepKeepsContract
<1>3. ASSUME NEW b \in live'
      PROVE  asked'[b] =< size'[b]
  <2>1. PICK x : x = AreaOf(b, size', asked')
    OBVIOUS
  <2>2. x \in LiveAreas'
    BY <2>1 DEF LiveAreas
  <2>3. x.len = size'[b] /\ x.asked = asked'[b]
    BY <2>1 DEF AreaOf
  <2>4. size'[b] >= asked'[b]
    BY <1>2, <2>2, <2>3
  <2>5. size'[b] \in Nat /\ asked'[b] \in Nat
    BY <1>3 DEF ApiInv, TypeOK, HeapTypeOK
  <2> QED
    BY <2>4, <2>5
<1> QED
  BY <1>3 DEF AskedFits

-----------------------------------------------------------------------------
(* What a step leaves in the memory                                        *)

\* The first n units of the program's block b are written over, and s is what
\* it may now rely on there; elsewhere the memory holds g, and q tells what may
\* be relied on.
LEMMA Overlay ==
    ASSUME ApiInv', NEW g, NEW q \in [Addr -> Seq(Nat)],
           NEW b \in live', NEW n \in 0 .. size'[b],
           NEW s \in Seq(Nat), Len(s) =< size'[b],
           \A c \in live' : Len(q[c]) =< size'[c],
           \A c \in live' \ {b} : \A i \in DOMAIN q[c] : g[Offset(c, i)] = q[c][i],
           \A c \in Blocks' : g[c] = Header,
           \A y \in (Listed \union Cached)' : g[y + HeaderUnits] = Link,
           \A a \in Addr : (\A i \in 1 .. n : a # Offset(b, i)) => data'[a] = g[a],
           \A i \in DOMAIN s : data'[Offset(b, i)] = s[i],
           promise' = [q EXCEPT ![b] = s]
    PROVE  PromiseFits' /\ DataIntact' /\ LibraryIntact'
<1>1. /\ Apart' /\ b \in Blocks' /\ b \in Addr /\ size'[b] \in Nat
      /\ \A i \in 1 .. n : i \in 1 .. size'[b]
  BY HoldersApartNext DEF Apart
<1>2. promise'[b] = s /\ \A c \in Addr \ {b} : promise'[c] = q[c]
  BY <1>1
<1>3. PromiseFits'
  <2>1. promise' \in [Addr -> Seq(Nat)]
    BY <1>1
  <2>2. \A c \in live' : Len(promise'[c]) =< size'[c]
    BY <1>1, <1>2 DEF Apart
  <2> QED
    BY <2>1, <2>2 DEF PromiseFits
<1>4. ASSUME NEW c \in live', NEW i \in DOMAIN promise'[c]
      PROVE  data'[Offset(c, i)] = promise'[c][i]
  <2>1. CASE c = b
    BY <1>2, <2>1
  <2>2. CASE c # b
    <3>1. c \in Blocks' /\ c \in Addr /\ size'[c] \in Nat
      BY <1>1 DEF Apart
    <3>2. promise'[c] = q[c] /\ i \in 1 .. size'[c]
      <4>1. promise'[c] = q[c] /\ q[c] \in Seq(Nat) /\ Len(q[c]) =< size'[c]
        BY <1>2, <2>2, <3>1
      <4>2. i \in 1 .. Len(q[c]) /\ Len(q[c]) \in Nat
        BY <4>1
      <4> QED
        BY <3>1, <4>1, <4>2
    <3>3. Offset(c, i) \in Addr /\ \A j \in 1 .. n : Offset(c, i) # Offset(b, j)
      BY <1>1, <2>2, <3>1, <3>2 DEF Apart
    <3>4. data'[Offset(c, i)] = g[Offset(c, i)]
      BY <3>3
    <3> QED
      BY <2>2, <3>2, <3>4
  <2> QED
    BY <2>1, <2>2
<1>5. ASSUME NEW c \in Blocks'
      PROVE  data'[c] = Header
  <2>1. c \in Addr /\ \A j \in 1 .. n : c # Offset(b, j)
    BY <1>1 DEF Apart
  <2> QED
    BY <2>1
<1>6. ASSUME NEW y \in (Listed \union Cached)'
      PROVE  data'[y + HeaderUnits] = Link
  <2>1. y \in Blocks' /\ y # b
    BY <1>1 DEF Apart
  <2>2. y + HeaderUnits = Offset(y, 1) /\ 1 \in 1 .. size'[y]
    BY <1>1, <2>1 DEF Apart
  <2>3. Offset(y, 1) \in Addr /\ \A j \in 1 .. n : Offset(y, 1) # Offset(b, j)
    BY <1>1, <2>1, <2>2 DEF Apart
  <2>4. data'[Offset(y, 1)] = g[Offset(y, 1)]
    BY <2>3
  <2> QED
    BY <2>2, <2>4
<1> QED
  BY <1>3, <1>4, <1>5, <1>6 DEF DataIntact, LibraryIntact

\* What the program may rely on after a step of the library is still there.
LEMMA KeptHolds ==
    ASSUME ApiInv, ApiInv', [Next]_vars, PromiseFits, DataIntact
    PROVE  /\ Kept \in [Addr -> Seq(Nat)]
           /\ \A b \in live' : Len(Kept[b]) =< size'[b]
           /\ \A b \in live' : \A i \in DOMAIN Kept[b] :
                Written[Offset(b, i)] = Kept[b][i]
<1>1. Apart /\ Apart'
  BY HoldersApart, HoldersApartNext
<1>2. Kept \in [Addr -> Seq(Nat)]
  <2>1. \A b \in Addr : promise[b] \in Seq(Nat) /\ <<>> \in Seq(Nat)
    BY DEF PromiseFits
  <2> QED
    BY <2>1 DEF Kept
<1>3. ASSUME NEW b \in live', b \notin live
      PROVE  Kept[b] = <<>> /\ Len(Kept[b]) =< size'[b]
  <2>1. b \in Addr /\ size'[b] \in Nat
    BY <1>1 DEF Apart
  <2>2. Kept[b] = <<>>
    BY <1>3, <2>1 DEF Kept
  <2> QED
    BY <2>1, <2>2
<1>4. ASSUME NEW b \in live', b \in live
      PROVE  /\ Kept[b] = promise[b]
             /\ Len(Kept[b]) =< size'[b]
             /\ \A i \in DOMAIN Kept[b] : Written[Offset(b, i)] = Kept[b][i]
  <2>1. b \in Addr /\ b \in alloc /\ b \in alloc' /\ b \notin Cached'
    BY <1>1, <1>4 DEF Apart
  <2>2. Kept[b] = promise[b]
    BY <1>4, <2>1 DEF Kept
  <2>3. Len(promise[b]) =< size'[b]
    BY <1>4, <2>1, SizeKept DEF PromiseFits
  <2>4. ASSUME NEW i \in DOMAIN promise[b]
        PROVE  Written[Offset(b, i)] = promise[b][i]
    <3>1. Written[Offset(b, i)] = data[Offset(b, i)]
      BY <1>4, <2>1, DataKept
    <3>2. data[Offset(b, i)] = promise[b][i]
      BY <1>4 DEF DataIntact
    <3> QED
      BY <3>1, <3>2
  <2> QED
    BY <2>2, <2>3, <2>4
<1>5. ASSUME NEW b \in live', NEW i \in DOMAIN Kept[b]
      PROVE  Written[Offset(b, i)] = Kept[b][i]
  <2>1. CASE b \in live
    BY <1>4, <2>1
  <2>2. CASE b \notin live
    <3>1. i \in DOMAIN <<>>
      BY <1>3, <2>2
    <3> QED
      BY <3>1
  <2> QED
    BY <2>1, <2>2
<1> QED
  BY <1>2, <1>3, <1>4, <1>5

-----------------------------------------------------------------------------
(* The actions                                                             *)

\* A step of the library keeps what the library's own proofs speak of.
LEMMA LibraryStep ==
    ASSUME DataInv, [Next]_vars
    PROVE  ApiInv /\ ApiInv' /\ AskedFits /\ AskedFits'
<1>1. ApiInv /\ ApiInv'
  BY StepKeepsApi DEF DataInv
<1>2. AskedFits
  BY DEF DataInv
<1> QED
  BY <1>1, <1>2, StepKeepsFits

\* The calls that do no more than hand out and take back.
LEMMA OtherCallKeeps ==
    ASSUME DataInv, NEW t \in Thread, OtherCall(t)
    PROVE  DataInv'
<1>1. [Next]_vars
  BY DEF OtherCall, Next
<1>2. data' = Written /\ promise' = Kept
  BY DEF OtherCall
<1>3. ApiInv /\ ApiInv' /\ AskedFits'
  BY <1>1, LibraryStep
<1>4. PromiseFits /\ DataIntact /\ LibraryIntact
  BY DEF DataInv
<1>5. PromiseFits'
  BY <1>1, <1>2, <1>3, <1>4, KeptHolds DEF PromiseFits
<1>6. DataIntact'
  BY <1>1, <1>2, <1>3, <1>4, KeptHolds DEF DataIntact
<1>7. LibraryIntact'
  BY <1>1, <1>2, <1>3, <1>4, LibraryKept DEF LibraryIntact
<1> QED
  BY <1>3, <1>5, <1>6, <1>7 DEF DataInv

\* calloc clears as much as was asked for, and the block has room for that.
LEMMA CallocKeeps ==
    ASSUME DataInv, NEW t \in Thread, NEW n \in Request, CallocClears(t, n)
    PROVE  DataInv'
<1>1. [Next]_vars
  BY DEF CallocClears, Next
<1>2. ApiInv /\ ApiInv' /\ AskedFits'
  BY <1>1, LibraryStep
<1>3. PromiseFits /\ DataIntact /\ LibraryIntact /\ HeapInv
  BY <1>2, HolderFacts DEF DataInv
<1>4. PICK b \in alloc' \ alloc :
        /\ data' = [a \in Addr |-> IF \E i \in Cleared(n) : a = Offset(b, i)
                                     THEN 0 ELSE Written[a]]
        /\ promise' = [Kept EXCEPT ![b] = [i \in 1 .. n |-> 0]]
  BY DEF CallocClears
<1>5. b \in live' /\ n \in Nat /\ n =< size'[b] /\ size'[b] \in Nat /\ b \in Addr
  <2>1. /\ Malloc(n) /\ alloc' # alloc
        /\ live' = live \union (alloc' \ alloc)
    BY <1>4 DEF CallocClears, Calloc, AllocatorMalloc
  <2>2. PICK c \in Addr : alloc' = alloc \union {c} /\ size'[c] \in n .. n + 1
    BY <1>3, <2>1, MallocGives
  <2>3. n \in Nat /\ b = c
    BY <1>4, <2>2, AllocatorAssumption
  <2> QED
    BY <1>4, <2>1, <2>2, <2>3
<1>6. PICK s : s = [i \in 1 .. n |-> 0]
  OBVIOUS
<1>7. s \in Seq(Nat) /\ Len(s) = n /\ DOMAIN s = 1 .. n /\ \A i \in 1 .. n : s[i] = 0
  BY <1>5, <1>6
<1>8. /\ \A a \in Addr : (\A i \in 1 .. n : a # Offset(b, i)) => data'[a] = Written[a]
      /\ \A i \in DOMAIN s : data'[Offset(b, i)] = s[i]
  <2>1. Cleared(n) = 1 .. n
    BY DEF Cleared
  <2>2. \A i \in 1 .. n : Offset(b, i) \in Addr
    <3>1. Apart' /\ b \in Blocks' /\ \A i \in 1 .. n : i \in 1 .. size'[b]
      BY <1>2, <1>5, HoldersApartNext DEF Apart
    <3> QED
      BY <3>1 DEF Apart
  <2> QED
    BY <1>4, <1>7, <2>1, <2>2
<1>9. PromiseFits' /\ DataIntact' /\ LibraryIntact'
  <2>1. /\ Kept \in [Addr -> Seq(Nat)]
        /\ \A c \in live' : Len(Kept[c]) =< size'[c]
        /\ \A c \in live' \ {b} : \A i \in DOMAIN Kept[c] :
             Written[Offset(c, i)] = Kept[c][i]
    BY <1>1, <1>2, <1>3, KeptHolds
  <2>2. /\ \A c \in Blocks' : Written[c] = Header
        /\ \A y \in (Listed \union Cached)' : Written[y + HeaderUnits] = Link
    BY <1>1, <1>2, <1>3, LibraryKept
  <2>3. n \in 0 .. size'[b] /\ Len(s) =< size'[b]
    BY <1>5, <1>7
  <2>4. promise' = [Kept EXCEPT ![b] = s]
    BY <1>4, <1>6
  <2>5. PICK g : g = Written
    OBVIOUS
  <2>6. PICK q \in [Addr -> Seq(Nat)] : q = Kept
    BY <2>1
  <2> QED
    BY <1>2, <1>5, <1>7, <1>8, <2>1, <2>2, <2>3, <2>4, <2>5, <2>6, Overlay
<1> QED
  BY <1>2, <1>9 DEF DataInv

\* realloc copies the old block into the new one: what is there to copy is
\* intact, and it fits.
LEMMA ReallocCopiesKeeps ==
    ASSUME DataInv, NEW t \in Thread, NEW b \in live, NEW n \in Request,
           ReallocCopies(t, b, n)
    PROVE  DataInv'
<1>1. [Next]_vars
  BY DEF ReallocCopies, Next
<1>2. ApiInv /\ ApiInv' /\ AskedFits'
  BY <1>1, LibraryStep
<1>3. PromiseFits /\ DataIntact /\ LibraryIntact /\ HeapInv
  BY <1>2, HolderFacts DEF DataInv
<1>4. PICK c \in alloc' \ alloc :
        /\ data' = [a \in Addr |-> IF a - Offset(c, 0) \in Copied(b)
                                     THEN Written[Offset(b, a - Offset(c, 0))]
                                     ELSE Written[a]]
        /\ promise' = [Kept EXCEPT ![c] = promise[b]]
  BY DEF ReallocCopies
<1>5. /\ c \in live' /\ c \in Addr /\ size'[c] \in Nat
      /\ b \in Addr /\ size[b] \in Nat /\ size[b] < size'[c]
      /\ b \in alloc' /\ b \notin Cached'
  <2>1. /\ Malloc(n) /\ alloc' # alloc /\ size[b] < n
        /\ live' = (live \ {b}) \union (alloc' \ alloc)
        /\ UNCHANGED tcacheVars
    BY DEF ReallocCopies, ReallocMoves
  <2>2. PICK d \in Addr : alloc' = alloc \union {d} /\ size'[d] \in n .. n + 1
    BY <1>3, <2>1, MallocGives
  <2>3. n \in Nat /\ c = d
    BY <1>4, <2>2, AllocatorAssumption
  <2>4. b \in alloc /\ b \in Addr /\ size[b] \in Nat /\ b \notin Cached
    BY <1>2, HoldersApart DEF Apart
  <2>5. Cached' = Cached
    BY <2>1 DEF Cached, CachedIn, tcacheVars
  <2> QED
    BY <1>4, <2>1, <2>2, <2>3, <2>4, <2>5
<1>6. PICK m : m = size[b]
  OBVIOUS
<1>7. PICK s : s = promise[b]
  OBVIOUS
<1>8. s \in Seq(Nat) /\ Len(s) =< m /\ \A i \in DOMAIN s : i \in 1 .. m
  BY <1>3, <1>5, <1>6, <1>7 DEF PromiseFits
<1>9. /\ \A i \in 1 .. m : Offset(c, i) \in Addr
      /\ \A a \in Addr : \A i \in 1 .. m :
           a = Offset(c, i) <=> a - Offset(c, 0) = i
      /\ \A a \in Addr : a - Offset(c, 0) \in 1 .. m =>
           a = Offset(c, a - Offset(c, 0))
  <2>1. Apart' /\ c \in Blocks' /\ \A i \in 1 .. m : i \in 1 .. size'[c]
    BY <1>2, <1>5, <1>6, HoldersApartNext DEF Apart
  <2>2. c \in Nat /\ Addr \subseteq Nat
    BY <1>5, MemoryAssumption DEF Addr
  <2>3. \A i \in 1 .. m : Offset(c, i) \in Addr
    BY <2>1 DEF Apart
  <2>4. \A i \in Int : Offset(c, i) = c + i
    BY <2>2 DEF Offset, HeaderUnits
  <2>5. Offset(c, 0) = c
    BY <2>2, <2>4
  <2>6. \A a \in Addr : \A i \in 1 .. m : a = Offset(c, i) <=> a - Offset(c, 0) = i
    BY <1>5, <1>6, <2>2, <2>4, <2>5
  <2>7. \A a \in Addr : a - Offset(c, 0) \in 1 .. m => a = Offset(c, a - Offset(c, 0))
    BY <1>5, <1>6, <2>2, <2>4, <2>5
  <2> QED
    BY <2>3, <2>6, <2>7
<1>10. ASSUME NEW a \in Addr, \A i \in 1 .. m : a # Offset(c, i)
       PROVE  data'[a] = Written[a]
  BY <1>4, <1>6, <1>9, <1>10 DEF Copied
<1>11. ASSUME NEW i \in DOMAIN s
       PROVE  data'[Offset(c, i)] = s[i]
  <2>1. PICK a \in Addr : a = Offset(c, i)
    BY <1>8, <1>9
  <2>2. a - Offset(c, 0) = i /\ i \in Copied(b)
    BY <1>6, <1>8, <1>9, <2>1 DEF Copied
  <2>3. data'[a] = Written[Offset(b, i)]
    BY <1>4, <2>2
  <2>4. Written[Offset(b, i)] = data[Offset(b, i)]
    BY <1>1, <1>2, <1>3, <1>5, <1>7, DataKept
  <2>5. data[Offset(b, i)] = promise[b][i]
    BY <1>3, <1>7 DEF DataIntact
  <2> QED
    BY <1>7, <2>1, <2>3, <2>4, <2>5
<1>12. PromiseFits' /\ DataIntact' /\ LibraryIntact'
  <2>1. /\ Kept \in [Addr -> Seq(Nat)]
        /\ \A d \in live' : Len(Kept[d]) =< size'[d]
        /\ \A d \in live' \ {c} : \A i \in DOMAIN Kept[d] :
             Written[Offset(d, i)] = Kept[d][i]
    BY <1>1, <1>2, <1>3, KeptHolds
  <2>2. /\ \A d \in Blocks' : Written[d] = Header
        /\ \A y \in (Listed \union Cached)' : Written[y + HeaderUnits] = Link
    BY <1>1, <1>2, <1>3, LibraryKept
  <2>3. m \in 0 .. size'[c] /\ Len(s) =< size'[c]
    <3>1. Len(s) \in Nat
      BY <1>8
    <3> QED
      BY <1>5, <1>6, <1>8, <3>1
  <2>4. promise' = [Kept EXCEPT ![c] = s]
    BY <1>4, <1>7
  <2>5. PICK g : g = Written
    OBVIOUS
  <2>6. PICK q \in [Addr -> Seq(Nat)] : q = Kept
    BY <2>1
  <2>7. /\ \A a \in Addr : (\A i \in 1 .. m : a # Offset(c, i)) => data'[a] = g[a]
        /\ \A i \in DOMAIN s : data'[Offset(c, i)] = s[i]
    BY <1>10, <1>11, <2>5
  <2>8. /\ \A d \in live' : Len(q[d]) =< size'[d]
        /\ \A d \in live' \ {c} : \A i \in DOMAIN q[d] : g[Offset(d, i)] = q[d][i]
    BY <2>1, <2>5, <2>6
  <2>9. /\ \A d \in Blocks' : g[d] = Header
        /\ \A y \in (Listed \union Cached)' : g[y + HeaderUnits] = Link
    BY <2>2, <2>5
  <2>10. promise' = [q EXCEPT ![c] = s]
    BY <2>4, <2>6
  <2>11. ApiInv' /\ c \in live' /\ s \in Seq(Nat)
    BY <1>2, <1>5, <1>8
  <2> QED
    BY <2>3, <2>7, <2>8, <2>9, <2>10, <2>11, Overlay
<1> QED
  BY <1>2, <1>12 DEF DataInv

\* realloc that leaves the block where it is may cut what the program relies
\* on, and the rest of it is intact.
LEMMA ReallocKeepsKeeps ==
    ASSUME DataInv, NEW t \in Thread, NEW b \in live, NEW n \in Request,
           ReallocKeeps(t, b, n)
    PROVE  DataInv'
<1>1. [Next]_vars
  BY DEF ReallocKeeps, Next
<1>2. ApiInv /\ ApiInv' /\ AskedFits'
  BY <1>1, LibraryStep
<1>3. PromiseFits /\ DataIntact /\ LibraryIntact
  BY DEF DataInv
<1>4. b \in live' /\ b \in Addr /\ size'[b] \in Nat
  <2>1. live' = live /\ size' = size
    BY DEF ReallocKeeps, ReallocStays, heapVars
  <2> QED
    BY <1>2, <2>1, HolderFacts DEF LocalTypes
<1>5. /\ Kept \in [Addr -> Seq(Nat)]
      /\ \A c \in live' : Len(Kept[c]) =< size'[c]
      /\ \A c \in live' : \A i \in DOMAIN Kept[c] : Written[Offset(c, i)] = Kept[c][i]
  BY <1>1, <1>2, <1>3, KeptHolds
<1>6. PICK m : m = Min({Len(Kept[b]), n})
  OBVIOUS
<1>7. m \in Nat /\ m =< Len(Kept[b])
  <2>1. Len(Kept[b]) \in Nat /\ n \in Nat
    BY <1>4, <1>5, AllocatorAssumption
  <2>2. \E x \in {Len(Kept[b]), n} : \A y \in {Len(Kept[b]), n} : x =< y
    BY <2>1
  <2> QED
    BY <1>6, <2>1, <2>2 DEF Min
<1>8. PICK s : s = SubSeq(Kept[b], 1, m)
  OBVIOUS
<1>9. /\ s \in Seq(Nat) /\ Len(s) =< size'[b]
      /\ \A i \in DOMAIN s : i \in DOMAIN Kept[b] /\ s[i] = Kept[b][i]
  <2>1. Kept[b] \in Seq(Nat) /\ Len(Kept[b]) =< size'[b] /\ Len(Kept[b]) \in Nat
    BY <1>4, <1>5
  <2>2. PICK k \in Seq(Nat) : k = Kept[b]
    BY <2>1
  <2>3. s = SubSeq(k, 1, m) /\ m =< Len(k)
    BY <1>7, <1>8, <2>2
  <2>4. s \in Seq(Nat) /\ Len(s) = m /\ \A i \in 1 .. m : s[i] = k[i]
    BY <1>7, <2>2, <2>3
  <2>5. DOMAIN s = 1 .. m /\ DOMAIN k = 1 .. Len(k)
    BY <2>2, <2>4
  <2> QED
    BY <1>4, <1>7, <2>1, <2>2, <2>3, <2>4, <2>5
<1>10. data' = Written /\ promise' = [Kept EXCEPT ![b] = s]
  BY <1>6, <1>8 DEF ReallocKeeps
<1>11. PromiseFits' /\ DataIntact' /\ LibraryIntact'
  <2>1. PICK g : g = Written
    OBVIOUS
  <2>2. PICK q \in [Addr -> Seq(Nat)] : q = Kept
    BY <1>5
  <2>3. PICK none : none = 0
    OBVIOUS
  <2>4. none \in 0 .. size'[b]
    BY <1>4, <2>3
  <2>5. /\ \A a \in Addr : (\A i \in 1 .. none : a # Offset(b, i)) => data'[a] = g[a]
        /\ \A i \in DOMAIN s : data'[Offset(b, i)] = s[i]
    BY <1>4, <1>5, <1>9, <1>10, <2>1
  <2>6. /\ \A c \in live' : Len(q[c]) =< size'[c]
        /\ \A c \in live' \ {b} : \A i \in DOMAIN q[c] : g[Offset(c, i)] = q[c][i]
    BY <1>5, <2>1, <2>2
  <2>7. /\ \A c \in Blocks' : g[c] = Header
        /\ \A y \in (Listed \union Cached)' : g[y + HeaderUnits] = Link
    BY <1>1, <1>2, <1>3, <2>1, LibraryKept
  <2>8. promise' = [q EXCEPT ![b] = s]
    BY <1>10, <2>2
  <2>9. ApiInv' /\ b \in live' /\ s \in Seq(Nat) /\ Len(s) =< size'[b]
    BY <1>2, <1>4, <1>9
  <2> QED
    BY <2>4, <2>5, <2>6, <2>7, <2>8, <2>9, Overlay
<1> QED
  BY <1>2, <1>11 DEF DataInv

\* The program writes no further than it asked for, and so stays inside its
\* block.
LEMMA FillKeeps ==
    ASSUME DataInv, NEW b \in live, Fill(b)
    PROVE  DataInv'
<1>1. UNCHANGED vars /\ [Next]_vars
  BY DEF Fill
<1>2. ApiInv /\ ApiInv' /\ AskedFits /\ AskedFits'
  BY <1>1, LibraryStep
<1>3. PromiseFits /\ DataIntact /\ LibraryIntact
  BY DEF DataInv
<1>4. /\ live' = live /\ size' = size /\ Blocks' = Blocks
      /\ Listed' = Listed /\ Cached' = Cached
  <2>1. /\ live' = live /\ size' = size /\ freeList' = freeList /\ alloc' = alloc
        /\ bins' = bins /\ node' = node /\ locker' = locker
    BY <1>1 DEF vars, allocatorVars, tcacheVars, heapVars
  <2> QED
    BY <2>1 DEF Blocks, Listed, InHand, Cached, CachedIn
<1>5. PICK n : n = asked[b]
  OBVIOUS
<1>6. /\ b \in live' /\ b \in Addr /\ size'[b] \in Nat
      /\ n \in Nat /\ n =< size'[b]
  BY <1>2, <1>4, <1>5, HolderFacts DEF LocalTypes, AskedFits
<1>7. PICK s : s = [i \in 1 .. n |-> i]
  OBVIOUS
<1>8. s \in Seq(Nat) /\ Len(s) = n /\ DOMAIN s = 1 .. n /\ \A i \in 1 .. n : s[i] = i
  BY <1>6, <1>7
<1>9. /\ data' = [a \in Addr |-> IF a - Offset(b, 0) \in 1 .. n
                                   THEN a - Offset(b, 0) ELSE data[a]]
      /\ promise' = [promise EXCEPT ![b] = s]
  BY <1>5, <1>7 DEF Fill
<1>10. /\ \A i \in 1 .. n : Offset(b, i) \in Addr /\ Offset(b, i) - Offset(b, 0) = i
       /\ \A a \in Addr : a - Offset(b, 0) \in 1 .. n =>
            a = Offset(b, a - Offset(b, 0))
  <2>1. Apart' /\ b \in Blocks' /\ \A i \in 1 .. n : i \in 1 .. size'[b]
    BY <1>2, <1>6, HoldersApartNext DEF Apart
  <2>2. b \in Nat /\ Addr \subseteq Nat
    BY <1>6, MemoryAssumption DEF Addr
  <2>3. \A i \in 1 .. n : Offset(b, i) \in Addr
    BY <2>1 DEF Apart
  <2>4. \A i \in Int : Offset(b, i) = b + i
    BY <2>2 DEF Offset, HeaderUnits
  <2>5. Offset(b, 0) = b
    BY <2>2, <2>4
  <2>6. \A i \in 1 .. n : Offset(b, i) - Offset(b, 0) = i
    BY <1>6, <2>2, <2>4, <2>5
  <2>7. \A a \in Addr : a - Offset(b, 0) \in 1 .. n => a = Offset(b, a - Offset(b, 0))
    BY <1>6, <2>2, <2>4, <2>5
  <2> QED
    BY <2>3, <2>6, <2>7
<1>11. PromiseFits' /\ DataIntact' /\ LibraryIntact'
  <2>1. PICK g : g = data
    OBVIOUS
  <2>2. PICK q \in [Addr -> Seq(Nat)] : q = promise
    BY <1>3 DEF PromiseFits
  <2>3. n \in 0 .. size'[b] /\ Len(s) =< size'[b]
    BY <1>6, <1>8
  <2>4. \A a \in Addr : (\A i \in 1 .. n : a # Offset(b, i)) => data'[a] = g[a]
    BY <1>9, <1>10, <2>1
  <2>5. \A i \in DOMAIN s : data'[Offset(b, i)] = s[i]
    BY <1>8, <1>9, <1>10
  <2>6. /\ \A c \in live' : Len(q[c]) =< size'[c]
        /\ \A c \in live' \ {b} : \A i \in DOMAIN q[c] : g[Offset(c, i)] = q[c][i]
    BY <1>3, <1>4, <2>1, <2>2 DEF PromiseFits, DataIntact
  <2>7. /\ \A c \in Blocks' : g[c] = Header
        /\ \A y \in (Listed \union Cached)' : g[y + HeaderUnits] = Link
    BY <1>3, <1>4, <2>1 DEF LibraryIntact
  <2>8. promise' = [q EXCEPT ![b] = s]
    BY <1>9, <2>2
  <2>9. ApiInv' /\ b \in live' /\ s \in Seq(Nat)
    BY <1>2, <1>6, <1>8
  <2> QED
    BY <2>3, <2>4, <2>5, <2>6, <2>7, <2>8, <2>9, Overlay
<1> QED
  BY <1>2, <1>11 DEF DataInv

-----------------------------------------------------------------------------
(* UserData: the theorems                                                  *)

\* At the start there are no blocks, and nobody relies on anything.
LEMMA InitData == DataInit => DataInv
<1> SUFFICES ASSUME DataInit PROVE DataInv
  OBVIOUS
<1>1. ApiInv
  BY InitApi DEF DataInit
<1>2. live = {} /\ Cached = {} /\ Listed = {} /\ Blocks = {}
  <2>1. /\ live = {} /\ alloc = {} /\ freeList = <<>> /\ locker = NoThread
        /\ bins = [t \in Thread |-> [k \in Bin |-> <<>>]]
    BY DEF DataInit, Init, AllocatorInit, ConstructTcaches
  <2>2. Cached = {}
    BY <2>1 DEF Cached, CachedIn, Range
  <2>3. Listed = {}
    BY <2>1 DEF Listed, Range
  <2> QED
    BY <2>1, <2>2, <2>3 DEF Blocks, InHand
<1>3. promise \in [Addr -> Seq(Nat)]
  <2>1. <<>> \in Seq(Nat)
    OBVIOUS
  <2> QED
    BY <2>1 DEF DataInit
<1> QED
  BY <1>1, <1>2, <1>3 DEF DataInv, AskedFits, PromiseFits, DataIntact, LibraryIntact

\* Each step of the library and of the program keeps data, headers and links.
LEMMA StepKeepsData == DataInv /\ [DataNext]_dataVars => DataInv'
<1> SUFFICES ASSUME DataInv, [DataNext]_dataVars PROVE DataInv'
  OBVIOUS
<1>1. CASE DataNext
  BY <1>1, CallocKeeps, ReallocCopiesKeeps, ReallocKeepsKeeps, OtherCallKeeps,
     FillKeeps DEF DataNext
<1>2. CASE UNCHANGED dataVars
  <2>1. UNCHANGED vars /\ data' = data /\ promise' = promise
    BY <1>2 DEF dataVars
  <2>2. ApiInv' /\ AskedFits'
    BY <2>1, LibraryStep
  <2>3. /\ live' = live /\ size' = size /\ freeList' = freeList /\ alloc' = alloc
        /\ bins' = bins /\ node' = node /\ locker' = locker
    BY <2>1 DEF vars, allocatorVars, tcacheVars, heapVars
  <2>4. Blocks' = Blocks /\ Listed' = Listed /\ Cached' = Cached
    BY <2>3 DEF Blocks, Listed, InHand, Cached, CachedIn
  <2>5. PromiseFits' /\ DataIntact' /\ LibraryIntact'
    BY <2>1, <2>3, <2>4 DEF DataInv, PromiseFits, DataIntact, LibraryIntact
  <2> QED
    BY <2>2, <2>5 DEF DataInv
<1> QED
  BY <1>1, <1>2

\* DataInv holds in all states: it is inductive over the API's invariant.
THEOREM DataInvariant == DataSpec => []DataInv
BY InitData, StepKeepsData, PTL DEF DataSpec

\* The program finds its data: neither the allocator's headers, nor the links
\* of the list and of the caches, nor what other blocks are given ever lie in
\* a block the program owns, and realloc takes all of it along.
THEOREM DataStaysIntact == DataSpec => []DataIntact
<1>1. DataInv => DataIntact
  BY DEF DataInv
<1> QED
  BY DataInvariant, <1>1, PTL

\* The library finds its headers and links: a link never lies on a header, and
\* a program that keeps to what it asked for reaches neither.
THEOREM LibraryStaysIntact == DataSpec => []LibraryIntact
<1>1. DataInv => LibraryIntact
  BY DEF DataInv
<1> QED
  BY DataInvariant, <1>1, PTL

-----------------------------------------------------------------------------
(* Tracker: the table                                                      *)

\* The table s, and the blocks in d that found no room, say what is in B: each
\* block of B has one entry, with its size, or is in d.
TableOf(s, B, d, sz) ==
    /\ s \in Seq([ptr : Addr, bytes : Nat])
    /\ \A i, j \in DOMAIN s : s[i].ptr = s[j].ptr => i = j
    /\ {s[i].ptr : i \in DOMAIN s} \union d = B
    /\ {s[i].ptr : i \in DOMAIN s} \intersect d = {}
    /\ \A i \in DOMAIN s : s[i].bytes = sz[s[i].ptr]

TableInv == TableOf(tracked, alloc, dropped, size)

\* TableInv is TableExact and the type of the table.
LEMMA TableSays == TableInv => TableExact
BY DEF TableInv, TableOf, TableExact, TrackedPtrs, IsInjective

\* The table is right as long as no block changes its size.
LEMMA TableStands ==
    ASSUME NEW s, NEW B, NEW d, NEW sz, NEW sz2, TableOf(s, B, d, sz),
           \A b \in B : sz2[b] = sz[b]
    PROVE  TableOf(s, B, d, sz2)
<1>1. \A i \in DOMAIN s : s[i].ptr \in B
  BY DEF TableOf
<1> QED
  BY <1>1 DEF TableOf

\* malloc's entry goes to the end of the table.
LEMMA EntryAdded ==
    ASSUME NEW s, NEW B, NEW d, NEW sz, NEW sz2, TableOf(s, B, d, sz),
           \A x \in B : sz2[x] = sz[x],
           NEW b \in Addr, b \notin B, sz2[b] \in Nat
    PROVE  TableOf(Append(s, Entry(b, sz2[b])), B \union {b}, d, sz2)
<1> DEFINE e == Entry(b, sz2[b])
           r == Append(s, e)
<1>1. s \in Seq([ptr : Addr, bytes : Nat]) /\ Len(s) \in Nat /\ DOMAIN s = 1 .. Len(s)
  BY DEF TableOf
<1>2. e \in [ptr : Addr, bytes : Nat] /\ e.ptr = b /\ e.bytes = sz2[b]
  BY DEF Entry
<1> HIDE DEF e
<1>3. /\ r \in Seq([ptr : Addr, bytes : Nat])
      /\ Len(r) = Len(s) + 1 /\ DOMAIN r = 1 .. Len(s) + 1
      /\ \A i \in 1 .. Len(s) : r[i] = s[i]
      /\ r[Len(s) + 1] = e
  BY <1>1, <1>2
<1> HIDE DEF r
<1>4. \A i \in 1 .. Len(s) : s[i].ptr \in B /\ s[i].bytes = sz[s[i].ptr]
  BY <1>1 DEF TableOf
<1>5. \A i, j \in DOMAIN r : r[i].ptr = r[j].ptr => i = j
  BY <1>1, <1>2, <1>3, <1>4 DEF TableOf
<1>6. {r[i].ptr : i \in DOMAIN r} = {s[i].ptr : i \in DOMAIN s} \union {b}
  <2>1. DOMAIN r = DOMAIN s \union {Len(s) + 1}
    BY <1>1, <1>3
  <2>2. \A i \in DOMAIN s : r[i].ptr = s[i].ptr
    BY <1>1, <1>3
  <2>3. r[Len(s) + 1].ptr = b
    BY <1>2, <1>3
  <2> QED
    BY <2>1, <2>2, <2>3
<1>7. \A i \in DOMAIN r : r[i].bytes = sz2[r[i].ptr]
  <2> SUFFICES ASSUME NEW i \in 1 .. Len(s) + 1
               PROVE  r[i].bytes = sz2[r[i].ptr]
    BY <1>3
  <2>1. CASE i \in 1 .. Len(s)
    BY <1>3, <1>4, <2>1
  <2>2. CASE i = Len(s) + 1
    BY <1>2, <1>3, <2>2
  <2> QED
    BY <1>1, <2>1, <2>2
<1>8. b \notin d
  BY DEF TableOf
<1>9. TableOf(r, B \union {b}, d, sz2)
  BY <1>3, <1>5, <1>6, <1>7, <1>8 DEF TableOf
<1> QED
  BY <1>9 DEF r, e

\* The last element takes the place of another one.
LEMMA SwapOut ==
    ASSUME NEW S, NEW s \in Seq(S), NEW k \in DOMAIN s
    PROVE  LET r == Front([s EXCEPT ![k] = Last(s)])
           IN  /\ r \in Seq(S) /\ Len(r) = Len(s) - 1
               /\ \A i \in 1 .. Len(s) - 1 :
                    r[i] = IF i = k THEN s[Len(s)] ELSE s[i]
<1> DEFINE m == [s EXCEPT ![k] = Last(s)]
<1>1. Len(s) \in Nat /\ k \in 1 .. Len(s) /\ DOMAIN s = 1 .. Len(s)
      /\ Len(s) \in 1 .. Len(s) /\ Len(s) - 1 \in Nat
  OBVIOUS
<1>2. Last(s) = s[Len(s)] /\ s[Len(s)] \in S
  BY <1>1 DEF Last
<1>3. m \in Seq(S) /\ Len(m) = Len(s)
  BY <1>1, <1>2
<1>4. \A i \in 1 .. Len(s) : m[i] = IF i = k THEN s[Len(s)] ELSE s[i]
  BY <1>1, <1>2
<1> HIDE DEF m
<1>5. /\ Front(m) \in Seq(S) /\ Len(Front(m)) = Len(s) - 1
      /\ \A i \in 1 .. Len(s) - 1 : Front(m)[i] = m[i]
  BY <1>1, <1>3 DEF Front
<1>6. /\ Front(m) \in Seq(S) /\ Len(Front(m)) = Len(s) - 1
      /\ \A i \in 1 .. Len(s) - 1 : Front(m)[i] = IF i = k THEN s[Len(s)] ELSE s[i]
  BY <1>1, <1>4, <1>5
<1> QED
  BY <1>6 DEF m

\* free's entry leaves the table: the last one takes its place.
LEMMA EntryRemoved ==
    ASSUME NEW s, NEW B, NEW d, NEW sz, NEW sz2, TableOf(s, B, d, sz),
           NEW k \in DOMAIN s, NEW b, s[k].ptr = b, \A x \in B \ {b} : sz2[x] = sz[x]
    PROVE  TableOf(Front([s EXCEPT ![k] = Last(s)]), B \ {b}, d \ {b}, sz2)
<1>1. PICK r, n : r = Front([s EXCEPT ![k] = Last(s)]) /\ n = Len(s)
  OBVIOUS
<1>2. s \in Seq([ptr : Addr, bytes : Nat])
  BY DEF TableOf
<1>3. n \in Nat /\ DOMAIN s = 1 .. n /\ k \in 1 .. n /\ n \in 1 .. n
  BY <1>1, <1>2
<1>4. /\ r \in Seq([ptr : Addr, bytes : Nat]) /\ Len(r) = n - 1
      /\ \A i \in 1 .. n - 1 : r[i] = IF i = k THEN s[n] ELSE s[i]
  BY <1>1, <1>2, SwapOut
<1>5. DOMAIN r = 1 .. n - 1
  BY <1>3, <1>4
<1>6. \A i, j \in 1 .. n : s[i].ptr = s[j].ptr => i = j
  BY <1>3 DEF TableOf
<1>7. ASSUME NEW i \in DOMAIN r, NEW j \in DOMAIN r, r[i].ptr = r[j].ptr
      PROVE  i = j
  <2>1. i \in 1 .. n - 1 /\ j \in 1 .. n - 1 /\ i # n /\ j # n /\ i \in 1 .. n /\ j \in 1 .. n
    BY <1>3, <1>5
  <2> QED
    BY <1>3, <1>4, <1>6, <1>7, <2>1
<1>8. {r[i].ptr : i \in DOMAIN r} = {s[i].ptr : i \in DOMAIN s} \ {b}
  <2>1. ASSUME NEW i \in 1 .. n - 1
        PROVE  r[i].ptr # b /\ \E j \in 1 .. n : r[i].ptr = s[j].ptr
    <3>1. i \in 1 .. n /\ i # n
      BY <1>3
    <3> QED
      BY <1>3, <1>4, <1>6, <3>1
  <2>2. ASSUME NEW j \in 1 .. n, s[j].ptr # b
        PROVE  \E i \in 1 .. n - 1 : r[i].ptr = s[j].ptr
    <3>1. CASE j = n
      <4>1. k \in 1 .. n - 1
        BY <1>3, <2>2, <3>1
      <4> QED
        BY <1>4, <3>1, <4>1
    <3>2. CASE j # n
      <4>1. j \in 1 .. n - 1 /\ j # k
        BY <1>3, <2>2, <3>2
      <4> QED
        BY <1>4, <4>1
    <3> QED
      BY <3>1, <3>2
  <2>3. {r[i].ptr : i \in 1 .. n - 1} = {s[i].ptr : i \in 1 .. n} \ {b}
    BY <2>1, <2>2
  <2> QED
    BY <1>3, <1>5, <2>3
<1>9. ASSUME NEW i \in DOMAIN r
      PROVE  r[i].bytes = sz2[r[i].ptr]
  <2>1. PICK j \in 1 .. n : r[i] = s[j]
    BY <1>3, <1>4, <1>5
  <2>2. r[i].ptr \in B \ {b}
    BY <1>8 DEF TableOf
  <2>3. s[j].bytes = sz[s[j].ptr]
    BY <1>3 DEF TableOf
  <2> QED
    BY <2>1, <2>2, <2>3
<1>10. TableOf(r, B \ {b}, d \ {b}, sz2)
  BY <1>4, <1>7, <1>8, <1>9 DEF TableOf
<1> QED
  BY <1>1, <1>10

-----------------------------------------------------------------------------
(* What a step of the API does to the blocks and to the break              *)

\* A step hands out one block, or takes one back, or neither.
LEMMA OneBlockMoves ==
    ASSUME ApiInv, [Next]_vars
    PROVE  \/ alloc' = alloc
           \/ \E b \in Addr :
                b \notin alloc /\ alloc' = alloc \union {b} /\ size'[b] \in Nat
           \/ \E b \in alloc : alloc' = alloc \ {b}
<1>1. CASE [AllocatorNext]_allocatorVars
  <2>1. HeapInv
    BY HolderFacts
  <2>2. ASSUME NEW n \in Request, Malloc(n), alloc' # alloc
        PROVE  \E b \in Addr :
                 b \notin alloc /\ alloc' = alloc \union {b} /\ size'[b] \in Nat
    <3>1. PICK b \in Addr :
            b \notin alloc /\ alloc' = alloc \union {b} /\ size'[b] \in n .. n + 1
      BY <2>1, <2>2, MallocGives
    <3>2. n \in Nat
      BY AllocatorAssumption
    <3> QED
      BY <3>1, <3>2
  <2>3. ASSUME NEW t \in Thread, NEW b \in alloc, FreeBegin(t, b)
        PROVE  alloc' = alloc \ {b}
    BY <2>3 DEF FreeBegin
  <2>4. ASSUME NEW t \in Thread, FreeStep(t)
        PROVE  alloc' = alloc
    BY <2>1, <2>4, FreeWrites
  <2>5. CASE UNCHANGED allocatorVars
    BY <2>5 DEF allocatorVars
  <2> QED
    BY <1>1, <2>2, <2>3, <2>4, <2>5 DEF AllocatorNext
<1> QED
  BY <1>1, StepSorts

\* The break falls by what the provider counts, and only then.
LEMMA BreakMoves ==
    ASSUME ApiInv, [Next]_vars
    PROVE  /\ heapStart' = heapStart
           /\ sysBreak' < sysBreak => Released = sysBreak - sysBreak'
<1>1. HeapInv /\ sysBreak \in 0 .. MaxBreak /\ MaxBreak \in Nat
  BY HolderFacts, HeapFacts, MemoryAssumption
<1>2. CASE UNCHANGED memVars
  BY <1>1, <1>2 DEF memVars
<1>3. CASE AllocatorNext
  <2>1. ASSUME NEW n \in Request, Malloc(n)
        PROVE  heapStart' = heapStart /\ ~ (sysBreak' < sysBreak)
    <3>1. n \in Nat \ {0}
      BY AllocatorAssumption
    <3>2. CASE MallocExtend(n)
      BY <1>1, <3>1, <3>2 DEF MallocExtend, Allocate, Total, HeaderUnits
    <3>3. CASE MallocReuse(n) \/ MallocFails(n)
      BY <1>1, <3>3 DEF MallocReuse, MallocFails, AllocateFails, memVars
    <3> QED
      BY <2>1, <3>2, <3>3 DEF Malloc
  <2>2. ASSUME NEW t \in Thread, NEW b \in alloc, FreeBegin(t, b)
        PROVE  UNCHANGED memVars
    BY <2>2 DEF FreeBegin, heapVars
  <2>3. ASSUME NEW t \in Thread, MergeNext(t) \/ MergePrev(t) \/ ReleaseToList(t)
        PROVE  UNCHANGED memVars
    BY <2>3 DEF MergeNext, MergePrev, ReleaseToList, ReleaseBlockFails
  <2>4. ASSUME NEW t \in Thread, ReleaseToMemory(t)
        PROVE  heapStart' = heapStart /\ Released = sysBreak - sysBreak'
    <3>1. heapStart' = heapStart /\ End(node) = sysBreak /\ sysBreak' = node
      BY <1>1, <2>4, ReleaseToMemoryStep
    <3>2. node \in Nat /\ size[node] \in Nat
      BY <1>1 DEF HeapInv, HeapTypeOK, Addr
    <3> QED
      BY <3>1, <3>2 DEF End, Released, Total, HeaderUnits
  <2> QED
    BY <1>2, <1>3, <2>1, <2>2, <2>3, <2>4 DEF AllocatorNext, FreeStep
<1> QED
  BY <1>2, <1>3, StepSorts DEF allocatorVars, heapVars, memVars

-----------------------------------------------------------------------------
(* The table follows                                                       *)

\* A step of the library and what it writes into the table.
LEMMA TrackKeepsTable ==
    ASSUME ApiInv, TableInv, [Next]_vars, Track
    PROVE  TableInv'
<1>1. \A d \in alloc \intersect alloc' : size'[d] = size[d]
  BY SizeKept
<1>2. TableOf(tracked, alloc, dropped, size)
  BY DEF TableInv
<1>3. CASE alloc' = alloc
  <2>1. UNCHANGED <<tracked, dropped>>
    BY <1>3 DEF Track
  <2>2. TableOf(tracked, alloc, dropped, size')
    BY <1>1, <1>2, <1>3, TableStands
  <2> QED
    BY <1>3, <2>1, <2>2 DEF TableInv
<1>4. ASSUME NEW b \in Addr, b \notin alloc, alloc' = alloc \union {b}, size'[b] \in Nat
      PROVE  TableInv'
  <2>1. TrackAlloc(b)
    BY <1>4 DEF Track
  <2>2. \A d \in alloc : size'[d] = size[d]
    BY <1>1, <1>4
  <2>3. TableOf(Append(tracked, Entry(b, size'[b])), alloc \union {b}, dropped, size')
    BY <1>2, <1>4, <2>2, EntryAdded
  <2>4. TableOf(tracked, alloc \union {b}, dropped \union {b}, size')
    <3>1. TableOf(tracked, alloc, dropped, size')
      BY <1>2, <2>2, TableStands
    <3> QED
      BY <1>4, <3>1 DEF TableOf
  <2> QED
    BY <1>4, <2>1, <2>3, <2>4 DEF TrackAlloc, TableInv
<1>5. ASSUME NEW b \in alloc, alloc' = alloc \ {b}
      PROVE  TableInv'
  <2>1. TrackFree(b)
    BY <1>5 DEF Track
  <2>2. \A d \in alloc \ {b} : size'[d] = size[d]
    BY <1>1, <1>5
  <2>3. CASE \E i \in DOMAIN tracked :
               /\ tracked[i].ptr = b
               /\ tracked' = Front([tracked EXCEPT ![i] = Last(tracked)])
    <3>1. PICK i \in DOMAIN tracked :
            /\ tracked[i].ptr = b
            /\ tracked' = Front([tracked EXCEPT ![i] = Last(tracked)])
      BY <2>3
    <3>2. TableOf(Front([tracked EXCEPT ![i] = Last(tracked)]),
                  alloc \ {b}, dropped \ {b}, size')
      BY <1>2, <2>2, <3>1, EntryRemoved
    <3> QED
      BY <1>5, <2>1, <3>1, <3>2 DEF TrackFree, TableInv
  <2>4. CASE b \notin TrackedPtrs /\ UNCHANGED tracked
    <3>1. b \notin {tracked[i].ptr : i \in DOMAIN tracked}
      BY <2>4 DEF TrackedPtrs
    <3>2. TableOf(tracked, alloc \ {b}, dropped \ {b}, size)
      BY <1>2, <3>1 DEF TableOf
    <3>3. TableOf(tracked, alloc \ {b}, dropped \ {b}, size')
      BY <2>2, <3>2, TableStands
    <3> QED
      BY <1>5, <2>1, <2>4, <3>3 DEF TrackFree, TableInv
  <2> QED
    BY <2>1, <2>3, <2>4 DEF TrackFree
<1> QED
  BY <1>3, <1>4, <1>5, OneBlockMoves

-----------------------------------------------------------------------------
(* The counters follow                                                     *)

\* A sum of two numbers below the range wraps at most once.
LEMMA WrapsOnce ==
    ASSUME NEW r \in Nat \ {0}, NEW x \in 0 .. r - 1
    PROVE  x % r = x /\ (x + r) % r = x
  OBVIOUS

CountInv ==
    /\ allocBytes \in 0 .. CounterRange - 1
    /\ releaseBytes \in 0 .. CounterRange - 1
    /\ CountersExact

\* Without the modulus: the difference of the counters is right, or short of
\* one range.
LEMMA Difference ==
    ASSUME NEW r \in Nat \ {0}, NEW a \in 0 .. r - 1, NEW f \in 0 .. r - 1,
           NEW h \in 0 .. r - 1
    PROVE  (a + r - f) % r = h <=> a = f + h \/ a + r = f + h
<1>1. CASE a >= f
  <2>1. a - f \in 0 .. r - 1 /\ a + r - f = (a - f) + r
    BY <1>1
  <2>2. (a + r - f) % r = a - f
    BY <2>1, WrapsOnce
  <2> QED
    BY <1>1, <2>2
<1>2. CASE a < f
  <2>1. a + r - f \in 0 .. r - 1
    BY <1>2
  <2>2. (a + r - f) % r = a + r - f
    BY <2>1, WrapsOnce
  <2> QED
    BY <1>2, <2>2
<1> QED
  BY <1>1, <1>2

\* The counter after n more bytes.
LEMMA Counted ==
    ASSUME NEW r \in Nat \ {0}, NEW x \in 0 .. r - 1, NEW n \in 0 .. r - 1
    PROVE  /\ (x + n) % r \in 0 .. r - 1
           /\ (x + n) % r = x + n \/ ((x + n) % r) + r = x + n
<1>1. CASE x + n < r
  <2>1. x + n \in 0 .. r - 1
    BY <1>1
  <2> QED
    BY <2>1, WrapsOnce
<1>2. CASE x + n >= r
  <2>1. x + n - r \in 0 .. r - 1 /\ x + n = (x + n - r) + r
    BY <1>2
  <2>2. (x + n) % r = x + n - r
    BY <2>1, WrapsOnce
  <2> QED
    BY <2>1, <2>2
<1> QED
  BY <1>1, <1>2

\* The heap lies between its start and the end of the address space, in this
\* state and in the next.
HeapSpan == heapStart \in Nat /\ sysBreak \in 0 .. MaxBreak /\ heapStart =< sysBreak

\* The heap lies between its start and the break.
LEMMA SpanHolds == HeapInv => HeapSpan
BY HeapFacts DEF HeapSpan

\* The same in the next state.
LEMMA SpanNext == HeapInv' => HeapSpan'
BY SpanHolds, PTL

\* A step of the library and what the provider counts.
LEMMA CountKeepsCounters ==
    ASSUME ApiInv, ApiInv', CountInv, [Next]_vars, Count
    PROVE  CountInv'
<1>1. PICK r, a, f, g, h :
        /\ r = CounterRange /\ a = allocBytes /\ f = releaseBytes
        /\ g = sysBreak - heapStart /\ h = sysBreak' - heapStart'
  OBVIOUS
<1>2. /\ sysBreak \in Nat /\ heapStart \in Nat /\ heapStart =< sysBreak
      /\ sysBreak =< MaxBreak /\ MaxBreak \in Nat
  BY HolderFacts, HeapFacts, MemoryAssumption
<1>3. /\ sysBreak' \in Nat /\ heapStart' =< sysBreak' /\ sysBreak' =< MaxBreak
  <2>1. HeapInv'
    BY DEF ApiInv
  <2>2. heapStart' \in Nat /\ sysBreak' \in 0 .. MaxBreak /\ heapStart' =< sysBreak'
    BY <2>1, SpanNext DEF HeapSpan
  <2> QED
    BY <1>2, <2>2
<1>4. r \in Nat \ {0} /\ g \in 0 .. r - 1 /\ h \in 0 .. r - 1
  <2>1. heapStart' = heapStart
    BY BreakMoves
  <2>2. r \in Nat \ {0} /\ MaxBreak =< r - 1
    BY <1>1, <1>2, TrackerAssumption
  <2>3. g \in 0 .. MaxBreak
    BY <1>1, <1>2
  <2>4. h \in 0 .. MaxBreak
    <3>1. PICK x, y : x = heapStart' /\ y = sysBreak'
      OBVIOUS
    <3>2. x \in Nat /\ y \in Nat /\ x =< y /\ y =< MaxBreak /\ h = y - x
      BY <1>1, <1>2, <1>3, <2>1, <3>1
    <3> QED
      BY <1>2, <3>2
  <2> QED
    BY <1>2, <2>2, <2>3, <2>4
<1>5. a \in 0 .. r - 1 /\ f \in 0 .. r - 1 /\ (a = f + g \/ a + r = f + g)
  <2>1. a \in 0 .. r - 1 /\ f \in 0 .. r - 1 /\ (a + r - f) % r = g
    BY <1>1 DEF CountInv, CountersExact
  <2> QED
    BY <1>4, <2>1, Difference
<1>6. PICK b, e : b = allocBytes' /\ e = releaseBytes'
  OBVIOUS
<1>7. /\ b \in 0 .. r - 1 /\ e \in 0 .. r - 1
      /\ b = e + h \/ b + r = e + h
  <2>1. CASE sysBreak' > sysBreak
    <3>1. b = (a + (h - g)) % r /\ e = f
      <4>1. h - g = sysBreak' - sysBreak
        BY <1>1, <1>2, <1>3, BreakMoves
      <4>2. ~ (sysBreak' < sysBreak)
        BY <1>2, <1>3, <2>1
      <4> QED
        BY <1>1, <1>6, <2>1, <4>1, <4>2 DEF Count
    <3>2. h - g \in 0 .. r - 1
      BY <1>1, <1>2, <1>3, <1>4, <2>1, BreakMoves
    <3>3. b \in 0 .. r - 1 /\ (b = a + (h - g) \/ b + r = a + (h - g))
      BY <1>4, <1>5, <3>1, <3>2, Counted
    <3> QED
      BY <1>4, <1>5, <3>1, <3>2, <3>3
  <2>2. CASE sysBreak' < sysBreak
    <3>1. b = a /\ e = (f + (g - h)) % r
      <4>1. g - h = Released
        BY <1>1, <1>2, <1>3, <2>2, BreakMoves
      <4>2. ~ (sysBreak' > sysBreak)
        BY <1>2, <1>3, <2>2
      <4> QED
        BY <1>1, <1>6, <2>2, <4>1, <4>2 DEF Count
    <3>2. g - h \in 0 .. r - 1
      BY <1>1, <1>2, <1>3, <1>4, <2>2, BreakMoves
    <3>3. e \in 0 .. r - 1 /\ (e = f + (g - h) \/ e + r = f + (g - h))
      BY <1>4, <1>5, <3>1, <3>2, Counted
    <3> QED
      BY <1>4, <1>5, <3>1, <3>2, <3>3
  <2>3. CASE sysBreak' = sysBreak
    <3>1. b = a /\ e = f
      BY <1>1, <1>2, <1>6, <2>3 DEF Count
    <3>2. h = g
      BY <1>1, <2>3, BreakMoves
    <3> QED
      BY <1>5, <3>1, <3>2
  <2> QED
    BY <1>2, <1>3, <2>1, <2>2, <2>3
<1>8. (b + r - e) % r = h
  BY <1>4, <1>7, Difference
<1> QED
  BY <1>1, <1>6, <1>7, <1>8 DEF CountInv, CountersExact

-----------------------------------------------------------------------------
(* The end of the process                                                  *)

\* When all threads are outside of a call, the program and the caches hold
\* every block that is handed out.
LEMMA AtRest ==
    ASSUME ApiInv, \A t \in Thread : pc[t] \in {"idle", "exited"}
    PROVE  alloc = live \union Cached
<1>1. CallShape /\ Partition
  BY HolderFacts
<1>2. \A t \in Thread : arg[t] = NoBlock /\ pending[t] = NoBlock
  BY <1>1 DEF CallShape, ShapeOf
<1> QED
  BY <1>1, <1>2 DEF Partition, Pending, InTransit

\* The report lists what the program owns and what the caches hold, but for the
\* dropped blocks.
ReportIs == ended => report = (live \union Cached) \ dropped

\* The invariant of the DEBUG build.
DebugInv ==
    /\ ApiInv
    /\ TableInv
    /\ CountInv
    /\ ReportIs
    /\ ended \in BOOLEAN

\* It holds at the start.
LEMMA InitDebug == DebugInit => DebugInv
<1> SUFFICES ASSUME DebugInit PROVE DebugInv
  OBVIOUS
<1>1. ApiInv
  BY InitApi DEF DebugInit
<1>2. TableInv
  BY DEF DebugInit, Init, AllocatorInit, TableInv, TableOf
<1>3. CountInv
  <2>1. CounterRange \in Nat \ {0}
    BY TrackerAssumption, MemoryAssumption
  <2>2. (0 + CounterRange - 0) % CounterRange = 0
    BY <2>1, Difference
  <2>3. sysBreak - heapStart = 0
    BY DEF DebugInit, Init, AllocatorInit, ConstructMemory
  <2> QED
    BY <2>1, <2>2, <2>3 DEF DebugInit, CountInv, CountersExact
<1> QED
  BY <1>1, <1>2, <1>3 DEF DebugInv, DebugInit, ReportIs

\* Every step keeps it.
LEMMA StepKeepsDebug == DebugInv /\ [DebugNext]_debugVars => DebugInv'
<1> SUFFICES ASSUME DebugInv, [DebugNext]_debugVars PROVE DebugInv'
  OBVIOUS
<1>1. ApiInv /\ TableInv /\ CountInv
  BY DEF DebugInv
<1>2. CASE Work
  <2>1. [Next]_vars /\ Track /\ Count
    BY <1>2 DEF Work
  <2>2. ApiInv'
    BY <1>1, <2>1, StepKeepsApi
  <2>3. TableInv'
    BY <1>1, <2>1, TrackKeepsTable
  <2>4. CountInv'
    BY <1>1, <2>1, <2>2, CountKeepsCounters
  <2>5. ended' = FALSE
    BY <1>2 DEF Work, DebugInv
  <2> QED
    BY <2>2, <2>3, <2>4, <2>5 DEF DebugInv, ReportIs
<1>3. CASE EndProcess
  <2>1. /\ UNCHANGED <<vars, tracked, allocBytes, releaseBytes, dropped>>
        /\ ended' = TRUE /\ report' = TrackedPtrs
    BY <1>3 DEF EndProcess
  <2>2. ApiInv'
    BY <1>1, <2>1, StepKeepsApi
  <2>3. /\ UNCHANGED <<size, sysBreak, heapStart, alloc, live, bins>>
    BY <2>1 DEF vars, allocatorVars, tcacheVars, heapVars, memVars
  <2>4. TableInv'
    BY <1>1, <2>1, <2>3 DEF TableInv, TableOf
  <2>5. CountInv'
    BY <1>1, <2>1, <2>3 DEF CountInv, CountersExact
  <2>6. report' = (live \union Cached) \ dropped
    <3>1. \A t \in Thread : pc[t] \in {"idle", "exited"}
      BY <1>3 DEF EndProcess
    <3>2. alloc = live \union Cached
      BY <1>1, <3>1, AtRest
    <3> QED
      BY <1>1, <2>1, <3>2, TableSays DEF TableExact
  <2>7. Cached' = Cached
    BY <2>3 DEF Cached, CachedIn
  <2> QED
    BY <2>1, <2>2, <2>3, <2>4, <2>5, <2>6, <2>7 DEF DebugInv, ReportIs
<1>4. CASE UNCHANGED debugVars
  <2>1. /\ UNCHANGED vars
        /\ UNCHANGED <<tracked, allocBytes, releaseBytes, report, ended, dropped>>
    BY <1>4 DEF debugVars, trackerVars
  <2>2. ApiInv'
    BY <1>1, <2>1, StepKeepsApi
  <2>3. /\ UNCHANGED <<size, sysBreak, heapStart, alloc, live, bins>>
    BY <2>1 DEF vars, allocatorVars, tcacheVars, heapVars, memVars
  <2>4. TableInv'
    BY <1>1, <2>1, <2>3 DEF TableInv, TableOf
  <2>5. CountInv'
    BY <1>1, <2>1, <2>3 DEF CountInv, CountersExact
  <2>6. Cached' = Cached
    BY <2>3 DEF Cached, CachedIn
  <2> QED
    BY <2>1, <2>2, <2>3, <2>4, <2>5, <2>6 DEF DebugInv, ReportIs
<1> QED
  BY <1>2, <1>3, <1>4 DEF DebugNext, Over

\* The DEBUG build keeps its books: the invariant of every reachable state.
THEOREM DebugInvariant == DebugSpec => []DebugInv
BY InitDebug, StepKeepsDebug, PTL DEF DebugSpec

-----------------------------------------------------------------------------
(* Tracker: the theorems                                                   *)

\* The table and the allocator agree after any mix of calls by any threads:
\* each block handed out has one entry, with its size, or came when there was
\* no room (allocator.cpp 278-301).
THEOREM TracksExactly == DebugSpec => []TableExact
<1>1. DebugInv => TableExact
  BY TableSays DEF DebugInv
<1> QED
  BY DebugInvariant, <1>1, PTL

\* The difference of the byte counters is what the heap has grown, also after
\* they wrapped (memory.cpp 37-39, 65-67, 75-76).
THEOREM CountsExactly == DebugSpec => []CountersExact
<1>1. DebugInv => CountersExact
  BY DEF DebugInv, CountInv
<1> QED
  BY DebugInvariant, <1>1, PTL

\* The report at the end misses no block that the program did not free, as long
\* as the table had room for it (allocator.cpp 303-322).
THEOREM ReportsEveryLeak == DebugSpec => []LeaksReported
<1>1. DebugInv => LeaksReported
  BY DEF DebugInv, ReportIs, LeaksReported
<1> QED
  BY DebugInvariant, <1>1, PTL

=============================================================================
