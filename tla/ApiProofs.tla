------------------------------ MODULE ApiProofs ------------------------------
(***************************************************************************)
(* The invariant of the public API with its caches, for every heap size,   *)
(* every set of threads, any number of bins of any length, and whether or  *)
(* not brk fails.                                                          *)
(*                                                                         *)
(* Each action either is a step of the allocator, for which the lemmas of  *)
(* AllocatorProofs hold as they stand, or leaves the shape of the heap as  *)
(* it is and moves one block from one holder to another.                   *)
(***************************************************************************)
EXTENDS MMemory, AllocatorProofs

\* What the locals of a thread's call say together.
ShapeOf(t) ==
    /\ arg[t] # NoBlock <=> pc[t] = "drain"
    /\ locker = t <=> pc[t] = "free"
    /\ pc[t] = "flush" => fbin[t] # NoBin
    /\ pc[t] \in {"idle", "exited"} => fbin[t] = NoBin
    /\ pending[t] # NoBlock =>
         /\ fbin[t] # NoBin
         /\ BinOf(size[pending[t]]) = fbin[t]

CallShape == \A t \in Thread : ShapeOf(t)

\* Who holds a block decides its flag.
HolderFlags ==
    /\ \A b \in live \union InTransit : inuse[b]
    /\ \A b \in Cached \union Pending : ~ inuse[b]

ApiInv ==
    /\ HeapInv
    /\ TypeOK
    /\ OneHolder
    /\ BinExact
    /\ CallShape
    /\ HolderFlags
    /\ ListedFree

-----------------------------------------------------------------------------
(* The parts of the invariant the proofs work with                         *)

\* The blocks that the threads hold in the local variable f.
Held(f) == {f[t] : t \in Thread} \ {NoBlock}

HeldApart(f) ==
    \A t, u \in Thread : t # u => f[t] # f[u] \/ f[t] = NoBlock

CacheInv ==
    /\ bins \in [Thread -> [Bin -> Seq(Addr)]]
    /\ counts \in [Thread -> [Bin -> 0 .. BinLimit]]
    /\ \A t \in Thread, k \in Bin : IsInjective(bins[t][k])
    /\ \A t, u \in Thread, k, l \in Bin :
         t # u \/ k # l => Range(bins[t][k]) \intersect Range(bins[u][l]) = {}
    /\ \A t \in Thread, k \in Bin : \A b \in Range(bins[t][k]) : BinOf(size[b]) = k
    /\ \A t \in Thread, k \in Bin : counts[t][k] = Len(bins[t][k])

Partition ==
    /\ alloc = live \union Cached \union Pending \union InTransit
    /\ live \intersect (Cached \union Pending \union InTransit) = {}
    /\ Cached \intersect (Pending \union InTransit) = {}
    /\ Pending \intersect InTransit = {}

LocalTypes ==
    /\ live \subseteq Addr
    /\ pc \in [Thread -> {"idle", "flush", "drain", "free", "exited"}]
    /\ arg \in [Thread -> Addr \union {NoBlock}]
    /\ fbin \in [Thread -> Bin \union {NoBin}]
    /\ pending \in [Thread -> Addr \union {NoBlock}]

\* ApiInv is these parts.
LEMMA ApiParts ==
    ApiInv <=> /\ HeapInv /\ CacheInv /\ Partition /\ LocalTypes
               /\ HeldApart(arg) /\ HeldApart(pending)
               /\ CallShape /\ HolderFlags /\ ListedFree
  BY DEF ApiInv, HeapInv, TypeOK, OneHolder, BinExact, CacheInv, CachedIn, Partition,
         LocalTypes, HeldApart

\* The same after a step.
LEMMA ApiPartsNext ==
    ASSUME HeapInv', CacheInv', Partition', LocalTypes', HeldApart(arg)',
           HeldApart(pending)', CallShape', HolderFlags', ListedFree'
    PROVE  ApiInv'
  BY DEF ApiInv, HeapInv, TypeOK, OneHolder, BinExact, CacheInv, CachedIn, Partition,
         LocalTypes, HeldApart

\* A local variable that gets a block, and one that gives it up.
LEMMA HeldGains ==
    ASSUME NEW f \in [Thread -> Addr \union {NoBlock}], NEW t \in Thread,
           NEW b \in Addr, f[t] = NoBlock, b \notin Held(f), HeldApart(f)
    PROVE  /\ Held([f EXCEPT ![t] = b]) = Held(f) \union {b}
           /\ HeldApart([f EXCEPT ![t] = b])
           /\ [f EXCEPT ![t] = b] \in [Thread -> Addr \union {NoBlock}]
<1>1. b # NoBlock
  BY MemoryAssumption DEF Addr, NoBlock
<1> DEFINE g == [f EXCEPT ![t] = b]
<1>2. g[t] = b /\ \A u \in Thread \ {t} : g[u] = f[u]
  OBVIOUS
<1>3. g \in [Thread -> Addr \union {NoBlock}]
  OBVIOUS
<1> HIDE DEF g
<1>4. Held(g) = Held(f) \union {b}
  BY <1>1, <1>2 DEF Held
<1>5. HeldApart(g)
  BY <1>1, <1>2 DEF Held, HeldApart
<1> QED
  BY <1>3, <1>4, <1>5 DEF g

\* When a thread lets its block go, exactly that one is no longer held.
LEMMA HeldLoses ==
    ASSUME NEW f \in [Thread -> Addr \union {NoBlock}], NEW t \in Thread,
           f[t] # NoBlock, HeldApart(f)
    PROVE  /\ f[t] \in Held(f)
           /\ Held([f EXCEPT ![t] = NoBlock]) = Held(f) \ {f[t]}
           /\ HeldApart([f EXCEPT ![t] = NoBlock])
           /\ [f EXCEPT ![t] = NoBlock] \in [Thread -> Addr \union {NoBlock}]
<1> DEFINE g == [f EXCEPT ![t] = NoBlock]
<1>1. g[t] = NoBlock /\ \A u \in Thread \ {t} : g[u] = f[u]
  OBVIOUS
<1>2. g \in [Thread -> Addr \union {NoBlock}]
  OBVIOUS
<1> HIDE DEF g
<1>3. Held(g) = Held(f) \ {f[t]}
  BY <1>1 DEF Held, HeldApart
<1>4. HeldApart(g)
  BY <1>1 DEF HeldApart
<1> QED
  BY <1>2, <1>3, <1>4 DEF g, Held

\* The other local variable of the calls stays as it is.
LEMMA PendingChanges ==
    ASSUME HeldApart(arg), arg' = arg, HeldApart(pending')
    PROVE  /\ Pending = Held(pending) /\ Pending' = Held(pending')
           /\ InTransit' = InTransit
           /\ HeldApart(arg)' /\ HeldApart(pending)'
<1>1. Pending = Held(pending) /\ Pending' = Held(pending')
  BY DEF Pending, Held
<1>2. InTransit' = InTransit
  BY DEF InTransit
<1>3. HeldApart(arg)' /\ HeldApart(pending)'
  BY DEF HeldApart
<1> QED
  BY <1>1, <1>2, <1>3

\* A step that moves only the blocks threads carry into free and out of malloc.
LEMMA ArgChanges ==
    ASSUME HeldApart(pending), pending' = pending, HeldApart(arg')
    PROVE  /\ InTransit = Held(arg) /\ InTransit' = Held(arg')
           /\ Pending' = Pending
           /\ HeldApart(arg)' /\ HeldApart(pending)'
<1>1. InTransit = Held(arg) /\ InTransit' = Held(arg')
  BY DEF InTransit, Held
<1>2. Pending' = Pending
  BY DEF Pending
<1>3. HeldApart(arg)' /\ HeldApart(pending)'
  BY DEF HeldApart
<1> QED
  BY <1>1, <1>2, <1>3

\* One bin of one thread changes.
LEMMA OneBin ==
    ASSUME NEW S, NEW f \in [Thread -> [Bin -> S]], NEW t \in Thread, NEW k \in Bin,
           NEW x \in S
    PROVE  LET g == [f EXCEPT ![t][k] = x]
           IN  /\ g \in [Thread -> [Bin -> S]]
               /\ g[t][k] = x
               /\ \A u \in Thread, l \in Bin : u # t \/ l # k => g[u][l] = f[u][l]
  OBVIOUS

-----------------------------------------------------------------------------
(* The caches                                                              *)

\* The blocks in the bins, one by one.
LEMMA CachedFacts ==
    ASSUME NEW b
    PROVE  b \in Cached <=> \E t \in Thread, k \in Bin : b \in Range(bins[t][k])
  BY DEF Cached, CachedIn

\* What one bin gains or loses the caches gain or lose.
LEMMA BinChanges ==
    ASSUME CacheInv, size' = size, NEW t \in Thread, NEW k \in Bin,
           NEW chain \in Seq(Addr), IsInjective(chain), Len(chain) \in 0 .. BinLimit,
           \A b \in Range(chain) : BinOf(size[b]) = k,
           \A b \in Range(chain) : b \in Range(bins[t][k]) \/ b \notin Cached,
           bins' = [bins EXCEPT ![t][k] = chain],
           counts' = [counts EXCEPT ![t][k] = Len(chain)]
    PROVE  /\ CacheInv'
           /\ Cached' = (Cached \ Range(bins[t][k])) \union Range(chain)
<1>1. /\ bins' \in [Thread -> [Bin -> Seq(Addr)]]
      /\ bins'[t][k] = chain
      /\ \A u \in Thread, l \in Bin : u # t \/ l # k => bins'[u][l] = bins[u][l]
  BY OneBin DEF CacheInv
<1>2. /\ counts' \in [Thread -> [Bin -> 0 .. BinLimit]]
      /\ counts'[t][k] = Len(chain)
      /\ \A u \in Thread, l \in Bin : u # t \/ l # k => counts'[u][l] = counts[u][l]
  BY OneBin DEF CacheInv
<1>3. \A u, v \in Thread, l, m \in Bin :
        u # v \/ l # m => Range(bins[u][l]) \intersect Range(bins[v][m]) = {}
  BY DEF CacheInv
<1>4. \A u \in Thread, l \in Bin : \A b \in Range(bins[u][l]) : BinOf(size[b]) = l
  BY DEF CacheInv
<1>5. ASSUME NEW u \in Thread, NEW l \in Bin
      PROVE  /\ IsInjective(bins'[u][l])
             /\ counts'[u][l] = Len(bins'[u][l])
             /\ \A b \in Range(bins'[u][l]) : BinOf(size'[b]) = l
  <2>1. CASE u = t /\ l = k
    BY <1>1, <1>2, <2>1
  <2>2. CASE u # t \/ l # k
    BY <1>1, <1>2, <1>4, <2>2 DEF CacheInv
  <2> QED
    BY <2>1, <2>2
<1>6. ASSUME NEW u \in Thread, NEW l \in Bin, u # t \/ l # k
      PROVE  Range(bins'[u][l]) \intersect Range(chain) = {}
  <2>1. \A b \in Range(bins[u][l]) : b \in Cached
    BY CachedFacts
  <2>2. Range(bins[u][l]) \intersect Range(bins[t][k]) = {}
    BY <1>3, <1>6
  <2>3. bins'[u][l] = bins[u][l]
    BY <1>1, <1>6
  <2> QED
    BY <2>1, <2>2, <2>3
<1>7. ASSUME NEW u \in Thread, NEW v \in Thread, NEW l \in Bin, NEW m \in Bin,
             u # v \/ l # m
      PROVE  Range(bins'[u][l]) \intersect Range(bins'[v][m]) = {}
  <2>1. CASE u = t /\ l = k
    BY <1>1, <1>6, <1>7, <2>1
  <2>2. CASE v = t /\ m = k
    BY <1>1, <1>6, <1>7, <2>2
  <2>3. CASE (u # t \/ l # k) /\ (v # t \/ m # k)
    <3>1. bins'[u][l] = bins[u][l] /\ bins'[v][m] = bins[v][m]
      BY <1>1, <2>3
    <3> QED
      BY <1>3, <1>7, <3>1
  <2> QED
    BY <2>1, <2>2, <2>3
<1>8. CacheInv'
  BY <1>1, <1>2, <1>5, <1>7 DEF CacheInv
<1>9. ASSUME NEW b
      PROVE  b \in Cached' <=> (b \in Cached /\ b \notin Range(bins[t][k])) \/ b \in Range(chain)
  <2>1. b \in Cached' <=> \E u \in Thread, l \in Bin : b \in Range(bins'[u][l])
    BY DEF Cached, CachedIn
  <2>2. ASSUME NEW u \in Thread, NEW l \in Bin, b \in Range(bins'[u][l])
        PROVE  (b \in Cached /\ b \notin Range(bins[t][k])) \/ b \in Range(chain)
    <3>1. CASE u = t /\ l = k
      BY <1>1, <2>2, <3>1
    <3>2. CASE u # t \/ l # k
      <4>1. b \in Range(bins[u][l])
        BY <1>1, <2>2, <3>2
      <4>2. b \in Cached
        BY <4>1, CachedFacts
      <4>3. Range(bins[u][l]) \intersect Range(bins[t][k]) = {}
        BY <1>3, <3>2
      <4> QED
        BY <4>1, <4>2, <4>3
    <3> QED
      BY <3>1, <3>2
  <2>3. ASSUME b \in Range(chain)
        PROVE  b \in Cached'
    BY <1>1, <2>1, <2>3
  <2>4. ASSUME b \in Cached, b \notin Range(bins[t][k])
        PROVE  b \in Cached'
    <3>1. PICK u \in Thread, l \in Bin : b \in Range(bins[u][l])
      BY <2>4, CachedFacts
    <3>2. u # t \/ l # k
      BY <2>4, <3>1
    <3> QED
      BY <1>1, <2>1, <3>1, <3>2
  <2> QED
    BY <2>1, <2>2, <2>3, <2>4
<1> QED
  BY <1>8, <1>9

\* Taking the first block of a bin takes one block out of the caches.
LEMMA TakeKeepsCache ==
    ASSUME CacheInv, NEW t \in Thread, NEW k \in Bin, TakeFirst(t, k), size' = size
    PROVE  /\ CacheInv'
           /\ Head(bins[t][k]) \in Cached
           /\ Head(bins[t][k]) \in Addr
           /\ BinOf(size[Head(bins[t][k])]) = k
           /\ Cached' = Cached \ {Head(bins[t][k])}
<1>1. /\ bins[t][k] \in Seq(Addr) /\ bins[t][k] # <<>> /\ IsInjective(bins[t][k])
      /\ counts[t][k] \in 0 .. BinLimit /\ counts[t][k] = Len(bins[t][k])
      /\ \A b \in Range(bins[t][k]) : BinOf(size[b]) = k
  BY DEF CacheInv, TakeFirst
<1>2. PICK h, chain : h = Head(bins[t][k]) /\ chain = Tail(bins[t][k])
  OBVIOUS
<1>3. /\ h \in Range(bins[t][k]) /\ h \in Addr
      /\ chain \in Seq(Addr) /\ IsInjective(chain)
      /\ Len(bins[t][k]) >= 1 /\ Len(chain) = Len(bins[t][k]) - 1
      /\ Range(chain) = Range(bins[t][k]) \ {h}
  BY <1>1, <1>2, TailRange
<1>4. Len(chain) = counts[t][k] - 1 /\ Len(chain) \in 0 .. BinLimit
  BY <1>1, <1>3, TcacheAssumption
<1>5. /\ bins' = [bins EXCEPT ![t][k] = chain]
      /\ counts' = [counts EXCEPT ![t][k] = Len(chain)]
  BY <1>2, <1>4 DEF TakeFirst
<1>6. CacheInv' /\ Cached' = (Cached \ Range(bins[t][k])) \union Range(chain)
  BY <1>1, <1>3, <1>4, <1>5, BinChanges
<1>7. \A b \in Range(bins[t][k]) : b \in Cached
  BY CachedFacts
<1> QED
  BY <1>1, <1>2, <1>3, <1>6, <1>7

\* Pushing a block nobody cached puts one block into the caches.
LEMMA PushKeepsCache ==
    ASSUME CacheInv, NEW t \in Thread, NEW b \in Addr, b \notin Cached,
           BinOf(size[b]) \in Bin, ~ Full(t, BinOf(size[b])), Push(t, b), size' = size
    PROVE  CacheInv' /\ Cached' = Cached \union {b}
<1>1. PICK k \in Bin : k = BinOf(size[b])
  OBVIOUS
<1>2. /\ bins[t][k] \in Seq(Addr) /\ IsInjective(bins[t][k])
      /\ counts[t][k] \in 0 .. BinLimit /\ counts[t][k] = Len(bins[t][k])
      /\ \A d \in Range(bins[t][k]) : BinOf(size[d]) = k
  BY DEF CacheInv
<1>3. b \notin Range(bins[t][k])
  BY CachedFacts
<1>4. PICK chain : chain = Cons(b, bins[t][k])
  OBVIOUS
<1>5. /\ chain \in Seq(Addr) /\ IsInjective(chain)
      /\ Len(chain) = Len(bins[t][k]) + 1
      /\ Range(chain) = Range(bins[t][k]) \union {b}
  <2>1. chain \in Seq(Addr) /\ Len(chain) = Len(bins[t][k]) + 1
    <3>1. \A q \in Seq(Addr) : Cons(b, q) \in Seq(Addr) /\ Len(Cons(b, q)) = Len(q) + 1
      BY ConsFacts
    <3> QED
      BY <1>2, <1>4, <3>1
  <2>2. Range(chain) = Range(bins[t][k]) \union {b} /\ IsInjective(chain)
    BY <1>2, <1>3, <1>4, ConsRange
  <2> QED
    BY <2>1, <2>2
<1>6. Len(chain) = counts[t][k] + 1 /\ Len(chain) \in 0 .. BinLimit
  BY <1>1, <1>2, <1>5, TcacheAssumption DEF Full
<1>7. /\ bins' = [bins EXCEPT ![t][k] = chain]
      /\ counts' = [counts EXCEPT ![t][k] = Len(chain)]
  BY <1>1, <1>4, <1>6 DEF Push
<1>8. \A d \in Range(chain) : BinOf(size[d]) = k
  BY <1>1, <1>2, <1>5
<1>11. \A d \in Range(chain) : d \in Range(bins[t][k]) \/ d \notin Cached
  BY <1>5
<1>9. CacheInv' /\ Cached' = (Cached \ Range(bins[t][k])) \union Range(chain)
  BY <1>5, <1>6, <1>7, <1>8, <1>11, BinChanges
<1>10. \A d \in Range(bins[t][k]) : d \in Cached
  BY CachedFacts
<1> QED
  BY <1>5, <1>9, <1>10

\* The bins stay, and so do the sizes of the blocks in them.
LEMMA StillCache ==
    ASSUME CacheInv, UNCHANGED tcacheVars, \A b \in Cached : size'[b] = size[b]
    PROVE  CacheInv' /\ Cached' = Cached
<1>1. bins' = bins /\ counts' = counts
  BY DEF tcacheVars
<1>2. Cached' = Cached
  BY <1>1 DEF Cached, CachedIn
<1>3. \A t \in Thread, k \in Bin : \A b \in Range(bins'[t][k]) : BinOf(size'[b]) = k
  <2>1. \A t \in Thread, k \in Bin : \A b \in Range(bins[t][k]) :
          BinOf(size[b]) = k /\ size'[b] = size[b]
    BY CachedFacts DEF CacheInv
  <2> QED
    BY <1>1, <2>1 DEF BinOf
<1> QED
  BY <1>1, <1>2, <1>3 DEF CacheInv

-----------------------------------------------------------------------------
(* Calls                                                                   *)

\* The step of a thread leaves the calls of the others as they are.
LEMMA OthersKeepShape ==
    ASSUME CallShape, NEW t \in Thread, ShapeOf(t)',
           \A u \in Thread \ {t} :
             /\ arg'[u] = arg[u] /\ pc'[u] = pc[u]
             /\ fbin'[u] = fbin[u] /\ pending'[u] = pending[u]
             /\ locker' = u <=> locker = u
             /\ pending[u] # NoBlock => size'[pending[u]] = size[pending[u]]
    PROVE  CallShape'
  BY DEF CallShape, ShapeOf, BinOf

\* All calls stay where they are.
LEMMA CallsRest ==
    ASSUME CallShape, LocalTypes, HeldApart(arg), HeldApart(pending),
           UNCHANGED callVars, locker' = locker, live' \subseteq Addr,
           \A b \in Pending : size'[b] = size[b]
    PROVE  /\ CallShape' /\ LocalTypes' /\ HeldApart(arg)' /\ HeldApart(pending)'
           /\ Pending' = Pending /\ InTransit' = InTransit
<1>1. pc' = pc /\ arg' = arg /\ fbin' = fbin /\ pending' = pending
  BY DEF callVars
<1>2. \A t \in Thread : pending[t] # NoBlock => size'[pending[t]] = size[pending[t]]
  BY DEF Pending
<1>3. CallShape'
  BY <1>1, <1>2 DEF CallShape, ShapeOf, BinOf
<1> QED
  BY <1>1, <1>3 DEF LocalTypes, HeldApart, Pending, InTransit

\* A thread passes a block to the allocator.
LEMMA PassCalls ==
    ASSUME CallShape, LocalTypes, HeldApart(arg), HeldApart(pending),
           NEW t \in Thread, pc[t] \in {"idle", "flush"},
           NEW b \in Addr, b \notin InTransit, PassToAllocator(t, b),
           locker' = locker, live' \subseteq Addr, \A d \in Pending : size'[d] = size[d]
    PROVE  /\ CallShape' /\ LocalTypes' /\ HeldApart(arg)' /\ HeldApart(pending)'
           /\ Pending' = Pending /\ InTransit' = InTransit \union {b}
<1>1. /\ pc' = [pc EXCEPT ![t] = "drain"]
      /\ arg' = [arg EXCEPT ![t] = b]
      /\ fbin' = fbin /\ pending' = pending
  BY DEF PassToAllocator, Goto
<1>2. arg[t] = NoBlock /\ locker # t
  BY DEF CallShape, ShapeOf
<1>3. arg \in [Thread -> Addr \union {NoBlock}] /\ b \notin Held(arg)
  BY DEF LocalTypes, InTransit, Held
<1>4. /\ arg' \in [Thread -> Addr \union {NoBlock}]
      /\ HeldApart(arg') /\ Held(arg') = Held(arg) \union {b}
  BY <1>1, <1>2, <1>3, HeldGains
<1>5. LocalTypes'
  BY <1>1, <1>4 DEF LocalTypes
<1>6. /\ Pending' = Pending /\ InTransit' = InTransit \union {b}
      /\ HeldApart(arg)' /\ HeldApart(pending)'
  BY <1>1, <1>4 DEF Pending, InTransit, Held, HeldApart
<1>7. b # NoBlock
  BY MemoryAssumption DEF Addr, NoBlock
<1>8. \A u \in Thread : pending[u] # NoBlock => size'[pending[u]] = size[pending[u]]
  BY DEF Pending
<1>9. /\ arg'[t] = b /\ pc'[t] = "drain"
      /\ \A u \in Thread \ {t} : arg'[u] = arg[u] /\ pc'[u] = pc[u]
  BY <1>1 DEF LocalTypes
<1>10. ShapeOf(t)'
  BY <1>1, <1>2, <1>7, <1>8, <1>9 DEF CallShape, ShapeOf, BinOf
<1>11. CallShape'
  BY <1>1, <1>8, <1>9, <1>10, OthersKeepShape
<1> QED
  BY <1>5, <1>6, <1>11

-----------------------------------------------------------------------------
(* The heap under the API                                                  *)

\* What a step of the allocator guarantees to those who hold blocks.
LEMMA AllocatorStep ==
    ASSUME HeapInv, ListedFree, [AllocatorNext]_allocatorVars
    PROVE  /\ HeapInv' /\ ListedFree'
           /\ \A d \in alloc \intersect alloc' : size'[d] = size[d] /\ inuse'[d] = inuse[d]
           /\ \A d \in alloc' \ alloc : inuse'[d]
<1>1. HeapInv' /\ ListedFree'
  BY StepKeepsHeap, StepKeepsListed
<1>2. \A d \in alloc \intersect alloc' : size'[d] = size[d] /\ inuse'[d] = inuse[d]
  BY HandedOutKept
<1>3. \A d \in alloc' \ alloc : inuse'[d]
  BY HandedOutMarked
<1> QED
  BY <1>1, <1>2, <1>3

\* A step that moves nothing in the heap and may write the flag of one block
\* that is handed out.
LEMMA QuietStep ==
    ASSUME HeapInv, ListedFree,
           UNCHANGED <<memVars, size, freeList, locker, phase, node, alloc>>,
           NEW b \in alloc, NEW v \in BOOLEAN,
           inuse' = [inuse EXCEPT ![b] = v], asked' \in [Addr -> Nat]
    PROVE  HeapInv' /\ ListedFree'
<1>1. inuse \in [Addr -> BOOLEAN] /\ b \in Addr /\ b \notin Listed /\ Listed \subseteq Addr
  BY DEF HeapInv, HeapTypeOK, OneOwner, Listed, Range
<1>2. inuse' \in [Addr -> BOOLEAN]
  BY <1>1
<1>3. Listed' = Listed
  BY DEF Listed
<1>4. ListedFree'
  BY <1>1, <1>3 DEF ListedFree
<1>5. HeapInv'
  BY <1>2 DEF memVars, HeapInv, HeapTypeOK, HeapTiled, Tiled, OneOwner, Coalesced,
              TopReleased, MergedInHand, Blocks, Listed, InHand, End
<1> QED
  BY <1>4, <1>5

\* The blocks that are handed out lie in the heap and are not empty.
LEMMA BlockFacts ==
    ASSUME HeapInv, NEW b \in alloc
    PROVE  b \in Addr /\ OwnsAddress(b) /\ size[b] \in Nat /\ size[b] >= 1
<1>1. b \in Blocks /\ b \in Addr
  BY DEF Blocks, HeapInv, HeapTypeOK
<1>2. /\ heapStart =< b /\ b < End(b) /\ End(b) =< sysBreak
      /\ b \in Nat /\ End(b) \in Nat /\ size[b] \in Nat
  BY <1>1, HeapFacts DEF Total, HeaderUnits
<1>3. curBreak = sysBreak /\ sysBreak \in Nat /\ size[b] >= 1
  BY <1>1, HeapFacts, MemoryAssumption DEF Tiled
<1> QED
  BY <1>1, <1>2, <1>3 DEF OwnsAddress

-----------------------------------------------------------------------------
(* Every action of the API keeps the invariant                             *)

\* Where the holders' blocks are, and what is excluded.
LEMMA HolderFacts ==
    ASSUME ApiInv
    PROVE  /\ HeapInv /\ CacheInv /\ Partition /\ LocalTypes
           /\ HeldApart(arg) /\ HeldApart(pending)
           /\ CallShape /\ HolderFlags /\ ListedFree
           /\ \A b \in live \union Cached \union Pending \union InTransit :
                b \in alloc /\ b \in Addr
           /\ \A b \in live \union InTransit : Accepts(b)
           /\ size \in [Addr -> Nat] /\ inuse \in [Addr -> BOOLEAN]
           /\ asked \in [Addr -> Nat]
<1>1. /\ HeapInv /\ CacheInv /\ Partition /\ LocalTypes
      /\ HeldApart(arg) /\ HeldApart(pending)
      /\ CallShape /\ HolderFlags /\ ListedFree
  BY ApiParts
<1>2. \A b \in live \union Cached \union Pending \union InTransit : b \in alloc
  BY <1>1 DEF Partition
<1>3. \A b \in alloc : b \in Addr /\ OwnsAddress(b)
  BY <1>1, BlockFacts
<1>4. \A b \in live \union InTransit : Accepts(b)
  BY <1>1, <1>2, <1>3 DEF HolderFlags, Accepts
<1>5. /\ size \in [Addr -> Nat] /\ inuse \in [Addr -> BOOLEAN] /\ asked \in [Addr -> Nat]
  BY <1>1 DEF HeapInv, HeapTypeOK
<1> QED
  BY <1>1, <1>2, <1>3, <1>4, <1>5

\* A hit moves the first block of a bin to the program.
LEMMA MallocCachedKeepsApi ==
    ASSUME ApiInv, NEW t \in Thread, NEW n \in Request, MallocCached(t, n)
    PROVE  ApiInv'
<1> DEFINE h == Head(bins[t][BinOf(n)])
<1>1. n \in Nat \ {0} /\ BinOf(n) \in Bin
  BY AllocatorAssumption, TcacheAssumption DEF MallocCached, Covers, BinOf, Bin
<1>2. /\ UNCHANGED <<memVars, size, freeList, locker, phase, node, alloc, callVars>>
      /\ inuse' = [inuse EXCEPT ![h] = TRUE]
      /\ asked' = [asked EXCEPT ![h] = n]
      /\ live' = live \union {h}
      /\ TakeFirst(t, BinOf(n))
  BY DEF MallocCached, TakeFirst
<1> HIDE DEF h
<1>3. CacheInv' /\ h \in Cached /\ Cached' = Cached \ {h}
  BY <1>1, <1>2, HolderFacts, TakeKeepsCache DEF h
<1>4. h \in alloc /\ h \in Addr
  BY <1>3, HolderFacts
<1>5. HeapInv' /\ ListedFree'
  <2>1. asked' \in [Addr -> Nat]
    BY <1>1, <1>2, HolderFacts
  <2> QED
    BY <1>2, <1>4, <2>1, HolderFacts, QuietStep
<1>6. /\ CallShape' /\ LocalTypes' /\ HeldApart(arg)' /\ HeldApart(pending)'
      /\ Pending' = Pending /\ InTransit' = InTransit
  <2>1. live' \subseteq Addr
    BY <1>2, <1>4, HolderFacts
  <2> QED
    BY <1>2, <2>1, HolderFacts, CallsRest
<1>7. Partition'
  BY <1>2, <1>3, <1>6, HolderFacts DEF Partition
<1>8. HolderFlags'
  BY <1>2, <1>3, <1>4, <1>6, HolderFacts DEF HolderFlags, Partition
<1> QED
  BY <1>3, <1>5, <1>6, <1>7, <1>8, ApiPartsNext

\* What the allocator's malloc hands out is the program's.
LEMMA AllocatorMallocKeepsApi ==
    ASSUME ApiInv, NEW n \in Request, AllocatorMalloc(n), UNCHANGED callVars
    PROVE  ApiInv'
<1>1. [AllocatorNext]_allocatorVars /\ live' = live \union (alloc' \ alloc)
      /\ UNCHANGED tcacheVars
  BY DEF AllocatorMalloc, AllocatorNext
<1>2. alloc \subseteq alloc' /\ locker' = locker
  BY DEF AllocatorMalloc, Malloc, MallocReuse, MallocExtend, MallocFails
<1>3. /\ HeapInv' /\ ListedFree'
      /\ \A d \in alloc \intersect alloc' : size'[d] = size[d] /\ inuse'[d] = inuse[d]
      /\ \A d \in alloc' \ alloc : inuse'[d]
  BY <1>1, HolderFacts, AllocatorStep
<1>4. \A b \in live \union Cached \union Pending \union InTransit :
        size'[b] = size[b] /\ inuse'[b] = inuse[b] /\ b \in alloc
  BY <1>2, <1>3, HolderFacts
<1>5. CacheInv' /\ Cached' = Cached
  BY <1>1, <1>4, HolderFacts, StillCache
<1>6. /\ CallShape' /\ LocalTypes' /\ HeldApart(arg)' /\ HeldApart(pending)'
      /\ Pending' = Pending /\ InTransit' = InTransit
  <2>1. alloc' \subseteq Addr
    BY <1>3 DEF HeapInv, HeapTypeOK
  <2>2. live' \subseteq Addr
    BY <1>1, <2>1, HolderFacts
  <2> QED
    BY <1>2, <1>4, <2>2, HolderFacts, CallsRest
<1>7. Partition'
  BY <1>1, <1>2, <1>4, <1>5, <1>6, HolderFacts DEF Partition
<1>8. HolderFlags'
  BY <1>1, <1>3, <1>4, <1>5, <1>6, HolderFacts DEF HolderFlags
<1> QED
  BY <1>3, <1>5, <1>6, <1>7, <1>8, ApiPartsNext

\* A freed block goes into a bin that has room.
LEMMA FreeCachedKeepsApi ==
    ASSUME ApiInv, NEW t \in Thread, NEW b \in live, FreeCached(t, b)
    PROVE  ApiInv'
<1>1. /\ UNCHANGED <<memVars, size, freeList, locker, phase, node, alloc, callVars>>
      /\ ~ Full(t, BinOf(size[b])) /\ Push(t, b)
      /\ inuse' = [inuse EXCEPT ![b] = FALSE]
      /\ asked' = [asked EXCEPT ![b] = 0]
      /\ live' = live \ {b}
      /\ Covers(size[b])
  BY HolderFacts DEF FreeCached
<1>2. b \in alloc /\ b \in Addr /\ b \notin Cached /\ b \notin Pending /\ b \notin InTransit
  BY HolderFacts DEF Partition
<1>3. BinOf(size[b]) \in Bin
  <2>1. size[b] \in Nat /\ size[b] >= 1
    BY <1>2, HolderFacts, BlockFacts
  <2> QED
    BY <1>1, <2>1, TcacheAssumption DEF Covers, BinOf, Bin
<1>4. CacheInv' /\ Cached' = Cached \union {b}
  BY <1>1, <1>2, <1>3, HolderFacts, PushKeepsCache
<1>5. HeapInv' /\ ListedFree'
  <2>1. asked' \in [Addr -> Nat]
    BY <1>1, HolderFacts
  <2> QED
    BY <1>1, <1>2, <2>1, HolderFacts, QuietStep
<1>6. /\ CallShape' /\ LocalTypes' /\ HeldApart(arg)' /\ HeldApart(pending)'
      /\ Pending' = Pending /\ InTransit' = InTransit
  <2>1. live' \subseteq Addr
    BY <1>1, HolderFacts
  <2> QED
    BY <1>1, <2>1, HolderFacts, CallsRest
<1>7. Partition'
  BY <1>1, <1>2, <1>4, <1>6, HolderFacts DEF Partition
<1>8. HolderFlags'
  BY <1>1, <1>2, <1>4, <1>6, HolderFacts DEF HolderFlags, Partition
<1> QED
  BY <1>4, <1>5, <1>6, <1>7, <1>8, ApiPartsNext

\* A block of the program, or the first one of a bin, is passed to the
\* allocator; the heap stays.
LEMMA FreePassesKeepsApi ==
    ASSUME ApiInv, NEW t \in Thread, NEW b \in live, pc[t] = "idle",
           PassToAllocator(t, b), live' = live \ {b},
           UNCHANGED <<allocatorVars, tcacheVars>>
    PROVE  ApiInv'
<1>1. /\ UNCHANGED <<memVars, size, freeList, locker, phase, node, alloc>>
      /\ inuse' = inuse /\ asked' = asked
  BY DEF allocatorVars, heapVars
<1>2. b \in alloc /\ b \in Addr /\ b \notin Cached /\ b \notin Pending /\ b \notin InTransit
  BY HolderFacts DEF Partition
<1>3. HeapInv' /\ ListedFree'
  BY HolderFacts, AllocatorStep
<1>4. CacheInv' /\ Cached' = Cached
  BY <1>1, HolderFacts, StillCache
<1>5. /\ CallShape' /\ LocalTypes' /\ HeldApart(arg)' /\ HeldApart(pending)'
      /\ Pending' = Pending /\ InTransit' = InTransit \union {b}
  <2>1. live' \subseteq Addr
    BY HolderFacts
  <2> QED
    BY <1>1, <1>2, <2>1, HolderFacts, PassCalls
<1>6. Partition'
  BY <1>1, <1>2, <1>4, <1>5, HolderFacts DEF Partition
<1>7. HolderFlags'
  BY <1>1, <1>2, <1>4, <1>5, HolderFacts DEF HolderFlags
<1> QED
  BY <1>3, <1>4, <1>5, <1>6, <1>7, ApiPartsNext

\* The bin is full: the block waits, marked free, for the flush to end.
LEMMA FreeFlushesKeepsApi ==
    ASSUME ApiInv, NEW t \in Thread, NEW b \in live, FreeFlushes(t, b)
    PROVE  ApiInv'
<1>1. /\ UNCHANGED <<memVars, size, freeList, locker, phase, node, alloc, tcacheVars, arg>>
      /\ inuse' = [inuse EXCEPT ![b] = FALSE]
      /\ asked' = [asked EXCEPT ![b] = 0]
      /\ live' = live \ {b}
      /\ pc[t] = "idle" /\ pc' = [pc EXCEPT ![t] = "flush"]
      /\ fbin' = [fbin EXCEPT ![t] = BinOf(size[b])]
      /\ pending' = [pending EXCEPT ![t] = b]
      /\ Covers(size[b])
  BY DEF FreeFlushes, Goto
<1>2. b \in alloc /\ b \in Addr /\ b \notin Cached /\ b \notin Pending /\ b \notin InTransit
  BY HolderFacts DEF Partition
<1>3. BinOf(size[b]) \in Bin /\ BinOf(size[b]) # NoBin
  <2>1. size[b] \in Nat /\ size[b] >= 1
    BY <1>2, HolderFacts, BlockFacts
  <2> QED
    BY <1>1, <2>1, TcacheAssumption DEF Covers, BinOf, Bin, NoBin
<1>4. pending[t] = NoBlock /\ arg[t] = NoBlock /\ locker # t
  BY <1>1, HolderFacts DEF CallShape, ShapeOf
<1>5. /\ pending' \in [Thread -> Addr \union {NoBlock}]
      /\ HeldApart(pending') /\ Held(pending') = Held(pending) \union {b}
  <2>1. pending \in [Thread -> Addr \union {NoBlock}] /\ b \notin Held(pending)
    BY <1>2, HolderFacts DEF LocalTypes, Pending, Held
  <2> QED
    BY <1>1, <1>2, <1>4, <2>1, HolderFacts, HeldGains
<1>6. LocalTypes'
  BY <1>1, <1>3, <1>5, HolderFacts DEF LocalTypes
<1>7. Pending' = Pending \union {b} /\ InTransit' = InTransit
      /\ HeldApart(arg)' /\ HeldApart(pending)'
  BY <1>1, <1>5, HolderFacts, PendingChanges
<1>8. CacheInv' /\ Cached' = Cached
  BY <1>1, HolderFacts, StillCache
<1>9. HeapInv' /\ ListedFree'
  <2>1. asked' \in [Addr -> Nat]
    BY <1>1, HolderFacts
  <2> QED
    BY <1>1, <1>2, <2>1, HolderFacts, QuietStep
<1>10. CallShape'
  <2>1. /\ pc'[t] = "flush" /\ fbin'[t] = BinOf(size[b]) /\ pending'[t] = b
        /\ \A u \in Thread \ {t} : pc'[u] = pc[u] /\ fbin'[u] = fbin[u]
                                     /\ pending'[u] = pending[u]
    BY <1>1, HolderFacts DEF LocalTypes
  <2>2. ShapeOf(t)'
    BY <1>1, <1>3, <1>4, <2>1 DEF ShapeOf, BinOf
  <2> QED
    BY <1>1, <2>1, <2>2, HolderFacts, OthersKeepShape
<1>11. Partition'
  BY <1>1, <1>2, <1>7, <1>8, HolderFacts DEF Partition
<1>12. HolderFlags'
  BY <1>1, <1>2, <1>7, <1>8, HolderFacts DEF HolderFlags, Partition
<1> QED
  BY <1>6, <1>7, <1>8, <1>9, <1>10, <1>11, <1>12, ApiPartsNext

\* flush_bin's loop takes a block off the bin, marks it in use and passes it on.
LEMMA FlushFirstKeepsApi ==
    ASSUME ApiInv, NEW t \in Thread, FlushFirst(t)
    PROVE  ApiInv'
<1>1. PICK k, h : k = fbin[t] /\ h = Head(bins[t][k])
  OBVIOUS
<1>2. /\ UNCHANGED <<memVars, size, freeList, locker, phase, node, alloc, asked, live>>
      /\ pc[t] = "flush" /\ TakeFirst(t, k) /\ PassToAllocator(t, h)
      /\ inuse' = [inuse EXCEPT ![h] = TRUE]
  BY <1>1 DEF FlushFirst, TakeFirst
<1>3. k \in Bin
  BY <1>1, <1>2, HolderFacts DEF CallShape, ShapeOf, LocalTypes
<1>4. CacheInv' /\ h \in Cached /\ Cached' = Cached \ {h}
  BY <1>1, <1>2, <1>3, HolderFacts, TakeKeepsCache
<1>5. h \in alloc /\ h \in Addr /\ h \notin live /\ h \notin Pending /\ h \notin InTransit
  BY <1>4, HolderFacts DEF Partition
<1>6. HeapInv' /\ ListedFree'
  <2>1. asked' \in [Addr -> Nat]
    BY <1>2, HolderFacts
  <2> QED
    BY <1>2, <1>5, <2>1, HolderFacts, QuietStep
<1>7. /\ CallShape' /\ LocalTypes' /\ HeldApart(arg)' /\ HeldApart(pending)'
      /\ Pending' = Pending /\ InTransit' = InTransit \union {h}
  <2>1. live' \subseteq Addr
    BY <1>2, HolderFacts
  <2> QED
    BY <1>2, <1>5, <2>1, HolderFacts, PassCalls
<1>8. Partition'
  BY <1>2, <1>4, <1>5, <1>7, HolderFacts DEF Partition
<1>9. HolderFlags'
  BY <1>2, <1>4, <1>5, <1>7, HolderFacts DEF HolderFlags, Partition
<1> QED
  BY <1>4, <1>6, <1>7, <1>8, <1>9, ApiPartsNext

\* After the flush of its bin the pending block is pushed: there is room.
LEMMA FlushPushesKeepsApi ==
    ASSUME ApiInv, NEW t \in Thread, FlushDone(t), pending[t] # NoBlock
    PROVE  ApiInv'
<1>1. PICK b : b = pending[t]
  OBVIOUS
<1>2. /\ UNCHANGED <<allocatorVars, live, arg>>
      /\ pc[t] = "flush" /\ bins[t][fbin[t]] = <<>>
      /\ Push(t, b)
      /\ fbin' = [fbin EXCEPT ![t] = NoBin]
      /\ pending' = [pending EXCEPT ![t] = NoBlock]
  BY <1>1 DEF FlushDone
<1>3. fbin'[t] = NoBin
  BY <1>2, HolderFacts DEF LocalTypes
<1>4. pc' = [pc EXCEPT ![t] = "idle"]
  BY <1>3 DEF FlushDone, Goto
<1>5. /\ size' = size /\ inuse' = inuse /\ alloc' = alloc /\ locker' = locker
  BY <1>2 DEF allocatorVars, heapVars
<1>6. /\ pending' \in [Thread -> Addr \union {NoBlock}]
      /\ HeldApart(pending') /\ Held(pending') = Held(pending) \ {b} /\ b \in Held(pending)
  BY <1>1, <1>2, HolderFacts, HeldLoses DEF LocalTypes
<1>7. b \in Pending /\ Pending' = Pending \ {b} /\ InTransit' = InTransit
      /\ HeldApart(arg)' /\ HeldApart(pending)'
  BY <1>2, <1>6, HolderFacts, PendingChanges
<1>8. b \in Addr /\ b \notin Cached /\ b \notin live /\ b \notin InTransit
  BY <1>7, HolderFacts DEF Partition
<1>9. BinOf(size[b]) = fbin[t] /\ fbin[t] \in Bin
  BY <1>1, <1>2, HolderFacts DEF CallShape, ShapeOf, LocalTypes
<1>10. ~ Full(t, fbin[t])
  <2>1. counts[t][fbin[t]] = Len(bins[t][fbin[t]])
    BY <1>9, HolderFacts DEF CacheInv
  <2>2. counts[t][fbin[t]] = 0
    BY <1>2, <2>1
  <2> QED
    BY <2>2, TcacheAssumption DEF Full
<1>11. CacheInv' /\ Cached' = Cached \union {b}
  BY <1>2, <1>5, <1>8, <1>9, <1>10, HolderFacts, PushKeepsCache
<1>12. HeapInv' /\ ListedFree'
  BY <1>2, HolderFacts, AllocatorStep
<1>13. LocalTypes'
  BY <1>2, <1>4, <1>6, HolderFacts DEF LocalTypes
<1>14. CallShape'
  <2>1. /\ pc'[t] = "idle" /\ pending'[t] = NoBlock
        /\ \A u \in Thread \ {t} : pc'[u] = pc[u] /\ fbin'[u] = fbin[u]
                                     /\ pending'[u] = pending[u]
    BY <1>2, <1>4, HolderFacts DEF LocalTypes
  <2>2. arg[t] = NoBlock /\ locker # t
    BY <1>2, HolderFacts DEF CallShape, ShapeOf
  <2>3. ShapeOf(t)'
    BY <1>2, <1>3, <1>5, <2>1, <2>2 DEF ShapeOf
  <2> QED
    BY <1>2, <1>5, <2>1, <2>3, HolderFacts, OthersKeepShape
<1>15. Partition'
  BY <1>2, <1>5, <1>7, <1>8, <1>11, HolderFacts DEF Partition
<1>16. HolderFlags'
  BY <1>2, <1>5, <1>7, <1>11, HolderFacts DEF HolderFlags
<1> QED
  BY <1>7, <1>11, <1>12, <1>13, <1>14, <1>15, <1>16, ApiPartsNext

\* A step that moves no block: it only changes where thread t is.
LEMMA MovesNothing ==
    ASSUME ApiInv, NEW t \in Thread,
           UNCHANGED <<allocatorVars, tcacheVars, live, arg, pending>>,
           NEW label \in {"idle", "flush", "exited"}, pc' = [pc EXCEPT ![t] = label],
           NEW k \in Bin \union {NoBin}, fbin' = [fbin EXCEPT ![t] = k],
           pc[t] \in {"idle", "flush"}, pending[t] = NoBlock,
           label = "flush" <=> k # NoBin
    PROVE  ApiInv'
<1>1. /\ size' = size /\ inuse' = inuse /\ alloc' = alloc /\ locker' = locker
  BY DEF allocatorVars, heapVars
<1>2. HeapInv' /\ ListedFree'
  BY HolderFacts, AllocatorStep
<1>3. CacheInv' /\ Cached' = Cached
  BY <1>1, HolderFacts, StillCache
<1>4. Pending' = Pending /\ InTransit' = InTransit /\ HeldApart(arg)' /\ HeldApart(pending)'
  BY HolderFacts DEF Pending, InTransit, HeldApart
<1>5. LocalTypes'
  BY HolderFacts DEF LocalTypes
<1>6. CallShape'
  <2>1. /\ pc'[t] = label /\ fbin'[t] = k
        /\ \A u \in Thread \ {t} : pc'[u] = pc[u] /\ fbin'[u] = fbin[u]
    BY HolderFacts DEF LocalTypes
  <2>2. arg[t] = NoBlock /\ locker # t
    BY HolderFacts DEF CallShape, ShapeOf
  <2>3. ShapeOf(t)'
    BY <1>1, <2>1, <2>2 DEF ShapeOf
  <2> QED
    BY <1>1, <2>1, <2>3, HolderFacts, OthersKeepShape
<1>7. Partition' /\ HolderFlags'
  BY <1>1, <1>3, <1>4, HolderFacts DEF Partition, HolderFlags
<1> QED
  BY <1>2, <1>3, <1>4, <1>5, <1>6, <1>7, ApiPartsNext

\* The allocator takes the lock and the block out of the caller's hands.
LEMMA DrainKeepsApi ==
    ASSUME ApiInv, NEW t \in Thread, Drain(t)
    PROVE  ApiInv'
<1>1. PICK b : b = arg[t]
  OBVIOUS
<1>2. pc[t] = "drain" /\ b # NoBlock /\ b \in InTransit
  BY <1>1, HolderFacts DEF Drain, CallShape, ShapeOf, InTransit
<1>3. /\ b \in alloc /\ b \in Addr /\ Accepts(b)
      /\ b \notin live /\ b \notin Cached /\ b \notin Pending
  BY <1>2, HolderFacts DEF Partition
<1>4. /\ FreeBegin(t, b)
      /\ pc' = [pc EXCEPT ![t] = "free"]
      /\ arg' = [arg EXCEPT ![t] = NoBlock]
      /\ UNCHANGED <<tcacheVars, live, fbin, pending>>
  BY <1>1, <1>3 DEF Drain, Goto
<1>5. /\ locker = NoThread /\ locker' = t /\ alloc' = alloc \ {b}
      /\ size' = size /\ inuse' = inuse
  BY <1>4 DEF FreeBegin, heapVars
<1>6. HeapInv' /\ ListedFree'
  <2>1. AllocatorNext
    BY <1>3, <1>4 DEF AllocatorNext
  <2> QED
    BY <2>1, HolderFacts, AllocatorStep
<1>7. /\ arg' \in [Thread -> Addr \union {NoBlock}]
      /\ HeldApart(arg') /\ Held(arg') = Held(arg) \ {b}
  <2>1. arg \in [Thread -> Addr \union {NoBlock}] /\ HeldApart(arg)
    BY HolderFacts DEF LocalTypes
  <2> QED
    BY <1>1, <1>2, <1>4, <2>1, HeldLoses
<1>8. /\ InTransit' = InTransit \ {b} /\ Pending' = Pending
      /\ HeldApart(arg)' /\ HeldApart(pending)'
  BY <1>4, <1>7, HolderFacts, ArgChanges
<1>9. CacheInv' /\ Cached' = Cached
  BY <1>4, <1>5, HolderFacts, StillCache
<1>10. LocalTypes'
  BY <1>4, <1>7, HolderFacts DEF LocalTypes
<1>11. CallShape'
  <2>1. /\ pc'[t] = "free" /\ arg'[t] = NoBlock
        /\ \A u \in Thread \ {t} : pc'[u] = pc[u] /\ arg'[u] = arg[u]
    BY <1>4, HolderFacts DEF LocalTypes
  <2>2. ShapeOf(t)'
    BY <1>2, <1>4, <1>5, <2>1, HolderFacts DEF CallShape, ShapeOf, BinOf
  <2>3. \A u \in Thread \ {t} : locker' = u <=> locker = u
    BY <1>5, AllocatorAssumption
  <2> QED
    BY <1>4, <1>5, <2>1, <2>2, <2>3, HolderFacts, OthersKeepShape
<1>12. Partition'
  BY <1>3, <1>4, <1>5, <1>8, <1>9, HolderFacts DEF Partition
<1>13. HolderFlags'
  BY <1>4, <1>5, <1>8, <1>9, HolderFacts DEF HolderFlags
<1> QED
  BY <1>6, <1>8, <1>9, <1>10, <1>11, <1>12, <1>13, ApiPartsNext

\* Allocator::free goes on, and returns when it unlocks: no block that somebody
\* holds is touched.
LEMMA FreeingKeepsApi ==
    ASSUME ApiInv, NEW t \in Thread, Freeing(t)
    PROVE  ApiInv'
<1>1. /\ FreeStep(t) /\ pc[t] = "free"
      /\ UNCHANGED <<tcacheVars, live, fbin, pending>>
  BY DEF Freeing
<1>2. /\ locker = t /\ arg[t] = NoBlock
      /\ locker' \in {t, NoThread} /\ t # NoThread
  BY <1>1, HolderFacts, AllocatorAssumption
     DEF CallShape, ShapeOf, FreeStep, MergeNext, MergePrev, ReleaseToMemory,
         ReleaseToList, Unlock
<1>3. arg' = arg
  BY <1>2, HolderFacts DEF Freeing, Return, LocalTypes
<1>4. pc' = [pc EXCEPT ![t] = IF locker' = t THEN "free"
                                ELSE IF fbin[t] = NoBin THEN "idle" ELSE "flush"]
  BY <1>1, <1>2, HolderFacts DEF Freeing, Return, Goto, LocalTypes
<1>5. alloc' = alloc
  BY <1>1, HolderFacts, FreeWrites
<1>6. /\ HeapInv' /\ ListedFree'
      /\ \A d \in alloc : size'[d] = size[d] /\ inuse'[d] = inuse[d]
  <2>1. AllocatorNext
    BY <1>1 DEF AllocatorNext
  <2> QED
    BY <1>5, <2>1, HolderFacts, AllocatorStep
<1>7. \A b \in live \union Cached \union Pending \union InTransit :
        size'[b] = size[b] /\ inuse'[b] = inuse[b]
  BY <1>6, HolderFacts
<1>8. CacheInv' /\ Cached' = Cached
  BY <1>1, <1>7, HolderFacts, StillCache
<1>9. /\ InTransit' = InTransit /\ Pending' = Pending
      /\ HeldApart(arg)' /\ HeldApart(pending)'
  BY <1>1, <1>3, HolderFacts DEF InTransit, Pending, HeldApart
<1>10. LocalTypes'
  BY <1>1, <1>3, <1>4, HolderFacts DEF LocalTypes
<1>11. CallShape'
  <2>1. /\ pc'[t] = IF locker' = t THEN "free"
                      ELSE IF fbin[t] = NoBin THEN "idle" ELSE "flush"
        /\ \A u \in Thread \ {t} : pc'[u] = pc[u]
    BY <1>4, HolderFacts DEF LocalTypes
  <2>2. \A u \in Thread : pending[u] # NoBlock => size'[pending[u]] = size[pending[u]]
    BY <1>7 DEF Pending
  <2>3. ShapeOf(t)'
    BY <1>1, <1>2, <1>3, <2>1, <2>2, HolderFacts DEF CallShape, ShapeOf, BinOf
  <2>4. \A u \in Thread \ {t} : locker' = u <=> locker = u
    BY <1>2, AllocatorAssumption
  <2> QED
    BY <1>1, <1>3, <2>1, <2>2, <2>3, <2>4, HolderFacts, OthersKeepShape
<1>12. Partition'
  BY <1>1, <1>5, <1>8, <1>9, HolderFacts DEF Partition
<1>13. HolderFlags'
  BY <1>1, <1>7, <1>8, <1>9, HolderFacts DEF HolderFlags
<1> QED
  BY <1>6, <1>8, <1>9, <1>10, <1>11, <1>12, <1>13, ApiPartsNext

\* A block that is handed out takes the place of the one passed to free.
LEMMA ReallocMovesKeepsApi ==
    ASSUME ApiInv, NEW t \in Thread, NEW b \in live, NEW n \in Request,
           ReallocMoves(t, b, n)
    PROVE  ApiInv'
<1>1. /\ AllocatorNext /\ pc[t] = "idle"
      /\ live' = (live \ {b}) \union (alloc' \ alloc)
      /\ PassToAllocator(t, b) /\ UNCHANGED tcacheVars
  BY DEF ReallocMoves, AllocatorNext
<1>2. alloc \subseteq alloc' /\ locker' = locker
  BY DEF ReallocMoves, Malloc, MallocReuse, MallocExtend, MallocFails
<1>3. /\ HeapInv' /\ ListedFree'
      /\ \A d \in alloc \intersect alloc' : size'[d] = size[d] /\ inuse'[d] = inuse[d]
      /\ \A d \in alloc' \ alloc : inuse'[d]
  BY <1>1, HolderFacts, AllocatorStep
<1>4. \A d \in live \union Cached \union Pending \union InTransit :
        size'[d] = size[d] /\ inuse'[d] = inuse[d] /\ d \in alloc
  BY <1>2, <1>3, HolderFacts
<1>5. CacheInv' /\ Cached' = Cached
  BY <1>1, <1>4, HolderFacts, StillCache
<1>6. b \in Addr /\ b \in alloc /\ b \notin Cached /\ b \notin Pending /\ b \notin InTransit
  BY HolderFacts DEF Partition
<1>7. /\ CallShape' /\ LocalTypes' /\ HeldApart(arg)' /\ HeldApart(pending)'
      /\ Pending' = Pending /\ InTransit' = InTransit \union {b}
  <2>1. alloc' \subseteq Addr
    BY <1>3 DEF HeapInv, HeapTypeOK
  <2>2. live' \subseteq Addr
    BY <1>1, <2>1, HolderFacts
  <2>3. \A d \in Pending : size'[d] = size[d]
    BY <1>4
  <2> QED
    BY <1>1, <1>2, <1>6, <2>2, <2>3, HolderFacts, PassCalls
<1>8. Partition'
  BY <1>1, <1>2, <1>4, <1>5, <1>6, <1>7, HolderFacts DEF Partition
<1>9. HolderFlags'
  BY <1>1, <1>3, <1>4, <1>5, <1>7, HolderFacts DEF HolderFlags
<1> QED
  BY <1>3, <1>5, <1>7, <1>8, <1>9, ApiPartsNext

\* Only what the program asked for changes.
LEMMA ReallocStaysKeepsApi ==
    ASSUME ApiInv, NEW t \in Thread, NEW b \in live, NEW n \in Request,
           ReallocStays(t, b, n)
    PROVE  ApiInv'
<1>1. /\ UNCHANGED <<memVars, size, freeList, locker, phase, node, alloc>>
      /\ inuse' = inuse /\ live' = live
      /\ UNCHANGED tcacheVars /\ UNCHANGED callVars
      /\ asked' = [asked EXCEPT ![b] = n]
  BY DEF ReallocStays, heapVars
<1>2. HeapInv' /\ ListedFree'
  <2>1. asked' \in [Addr -> Nat]
    BY <1>1, HolderFacts, AllocatorAssumption
  <2>2. b \in alloc /\ inuse[b] \in BOOLEAN /\ inuse' = [inuse EXCEPT ![b] = inuse[b]]
    BY <1>1, HolderFacts
  <2> QED
    BY <1>1, <2>1, <2>2, HolderFacts, QuietStep
<1>3. CacheInv' /\ Cached' = Cached
  BY <1>1, HolderFacts, StillCache
<1>4. /\ CallShape' /\ LocalTypes' /\ HeldApart(arg)' /\ HeldApart(pending)'
      /\ Pending' = Pending /\ InTransit' = InTransit
  <2>1. live' \subseteq Addr
    BY <1>1, HolderFacts
  <2> QED
    BY <1>1, <2>1, HolderFacts, CallsRest
<1>5. Partition' /\ HolderFlags'
  BY <1>1, <1>3, <1>4, HolderFacts DEF Partition, HolderFlags
<1> QED
  BY <1>2, <1>3, <1>4, <1>5, ApiPartsNext

\* realloc that finds no memory is a malloc that finds none.
LEMMA ReallocFailsKeepsApi ==
    ASSUME ApiInv, NEW t \in Thread, NEW b \in live, NEW n \in Request,
           ReallocFails(t, b, n)
    PROVE  ApiInv'
<1>1. alloc' = alloc /\ live' = live
  BY DEF ReallocFails, MallocFails
<1>2. AllocatorMalloc(n) /\ UNCHANGED callVars
  BY <1>1 DEF ReallocFails, AllocatorMalloc, Malloc
<1> QED
  BY <1>2, AllocatorMallocKeepsApi

\* The steps that move no block.
LEMMA FlushTcacheKeepsApi ==
    ASSUME ApiInv, NEW t \in Thread, FlushTcache(t)
    PROVE  ApiInv'
<1>1. 0 \in Bin /\ 0 # NoBin
  BY TcacheAssumption DEF Bin, NoBin
<1>2. pc[t] = "idle" /\ pending[t] = NoBlock
  BY HolderFacts DEF FlushTcache, CallShape, ShapeOf
<1> QED
  BY <1>1, <1>2, MovesNothing DEF FlushTcache, Goto

\* flush goes on to the next bin.
LEMMA FlushTurnsKeepsApi ==
    ASSUME ApiInv, NEW t \in Thread, FlushDone(t), pending[t] = NoBlock
    PROVE  ApiInv'
<1>1. /\ UNCHANGED <<allocatorVars, tcacheVars, live, arg, pending>>
      /\ fbin' = [fbin EXCEPT ![t] = fbin[t] + 1]
      /\ pc[t] = "flush"
  BY DEF FlushDone
<1>2. fbin[t] \in Bin /\ fbin[t] + 1 \in Bin \union {NoBin}
  BY <1>1, HolderFacts, TcacheAssumption DEF LocalTypes, CallShape, ShapeOf, Bin, NoBin
<1>3. PICK k \in Bin \union {NoBin} : k = fbin[t] + 1
  BY <1>2
<1>4. fbin'[t] = k
  BY <1>1, <1>3, HolderFacts DEF LocalTypes
<1>5. PICK label \in {"idle", "flush", "exited"} :
        label = IF k = NoBin THEN "idle" ELSE "flush"
  OBVIOUS
<1>6. pc' = [pc EXCEPT ![t] = label]
  BY <1>4, <1>5 DEF FlushDone, Goto
<1>7. label = "flush" <=> k # NoBin
  BY <1>5
<1> QED
  BY <1>1, <1>3, <1>6, <1>7, MovesNothing

\* A thread exits: its flush begins at the first bin.
LEMMA ExitKeepsApi ==
    ASSUME ApiInv, NEW t \in Thread, Exit(t)
    PROVE  ApiInv'
<1>1. pc[t] = "idle" /\ pending[t] = NoBlock /\ fbin[t] = NoBin
  BY HolderFacts DEF Exit, CallShape, ShapeOf
<1>2. fbin' = [fbin EXCEPT ![t] = NoBin]
  BY <1>1, HolderFacts DEF Exit, LocalTypes
<1> QED
  BY <1>1, <1>2, MovesNothing DEF Exit, Goto

-----------------------------------------------------------------------------

\* Nothing is held before the first call.
LEMMA InitApi == Init => ApiInv
<1> SUFFICES ASSUME Init
             PROVE  ApiInv
  OBVIOUS
<1>1. HeapInv /\ ListedFree
  BY InitHeap DEF Init, AllocatorInit, ListedFree, Listed, Range
<1>2. CacheInv /\ Cached = {}
  <2>1. /\ bins = [t \in Thread |-> [k \in Bin |-> <<>>]]
        /\ counts = [t \in Thread |-> [k \in Bin |-> 0]]
    BY DEF Init, ConstructTcaches
  <2>2. \A t \in Thread, k \in Bin :
          /\ bins[t][k] = <<>> /\ counts[t][k] = 0
          /\ Range(bins[t][k]) = {} /\ IsInjective(bins[t][k]) /\ Len(bins[t][k]) = 0
    BY <2>1 DEF Range, IsInjective
  <2>3. /\ bins \in [Thread -> [Bin -> Seq(Addr)]]
        /\ counts \in [Thread -> [Bin -> 0 .. BinLimit]]
    BY <2>1, TcacheAssumption
  <2> QED
    BY <2>2, <2>3, CachedFacts DEF CacheInv
<1>3. Pending = {} /\ InTransit = {}
  BY DEF Init, Pending, InTransit
<1>4. alloc = {} /\ live = {} /\ locker = NoThread
  BY DEF Init, AllocatorInit
<1>5. LocalTypes /\ HeldApart(arg) /\ HeldApart(pending)
  BY DEF Init, LocalTypes, HeldApart
<1>6. CallShape
  BY <1>4, AllocatorAssumption DEF Init, CallShape, ShapeOf
<1>7. Partition /\ HolderFlags
  BY <1>2, <1>3, <1>4 DEF Partition, HolderFlags
<1> QED
  BY <1>1, <1>2, <1>5, <1>6, <1>7, ApiParts

\* Every step of the API keeps the invariant.
LEMMA StepKeepsApi == ApiInv /\ [Next]_vars => ApiInv'
<1> SUFFICES ASSUME ApiInv, [Next]_vars
             PROVE  ApiInv'
  OBVIOUS
<1>1. CASE UNCHANGED vars
  <2>1. /\ [AllocatorNext]_allocatorVars /\ UNCHANGED tcacheVars /\ UNCHANGED callVars
        /\ live' = live /\ size' = size /\ inuse' = inuse /\ alloc' = alloc
        /\ locker' = locker
    BY <1>1 DEF vars, allocatorVars, heapVars, callVars
  <2>2. HeapInv' /\ ListedFree'
    BY <2>1, HolderFacts, AllocatorStep
  <2>3. CacheInv' /\ Cached' = Cached
    BY <2>1, HolderFacts, StillCache
  <2>4. /\ CallShape' /\ LocalTypes' /\ HeldApart(arg)' /\ HeldApart(pending)'
        /\ Pending' = Pending /\ InTransit' = InTransit
    <3>1. live' \subseteq Addr
      BY <2>1, HolderFacts
    <3> QED
      BY <2>1, <3>1, HolderFacts, CallsRest
  <2>5. Partition' /\ HolderFlags'
    BY <2>1, <2>3, <2>4, HolderFacts DEF Partition, HolderFlags
  <2> QED
    BY <2>2, <2>3, <2>4, <2>5, ApiPartsNext
<1>2. ASSUME NEW t \in Thread, NEW n \in Request,
             MallocCached(t, n) \/ MallocUncached(t, n) \/ Calloc(t, n)
      PROVE  ApiInv'
  BY <1>2, MallocCachedKeepsApi, AllocatorMallocKeepsApi DEF MallocUncached, Calloc
<1>3. ASSUME NEW t \in Thread, NEW b \in live,
             \/ FreeCached(t, b) \/ FreeFlushes(t, b)
             \/ FreeLarge(t, b) \/ ReallocZero(t, b)
      PROVE  ApiInv'
  BY <1>3, FreeCachedKeepsApi, FreeFlushesKeepsApi, FreePassesKeepsApi
     DEF FreeLarge, ReallocZero
<1>4. ASSUME NEW t \in Thread, NEW b \in live, NEW n \in Request,
             ReallocMoves(t, b, n) \/ ReallocStays(t, b, n) \/ ReallocFails(t, b, n)
      PROVE  ApiInv'
  BY <1>4, ReallocMovesKeepsApi, ReallocStaysKeepsApi, ReallocFailsKeepsApi
<1>5. ASSUME NEW t \in Thread, FlushTcache(t) \/ Exit(t) \/ Inner(t)
      PROVE  ApiInv'
  BY <1>5, FlushTcacheKeepsApi, ExitKeepsApi, FlushFirstKeepsApi, FlushPushesKeepsApi,
     FlushTurnsKeepsApi, DrainKeepsApi, FreeingKeepsApi DEF Inner
<1> QED
  BY <1>1, <1>2, <1>3, <1>4, <1>5 DEF Next

\* The invariant holds in every state of the API.
THEOREM ApiInvariant == Spec => []ApiInv
BY InitApi, StepKeepsApi, PTL DEF Spec

-----------------------------------------------------------------------------
(* What the invariant gives the program that calls malloc, free and        *)
(* realloc through the caches.                                             *)

\* The heap, the bins and the locals of the calls have their types.
THEOREM ApiTypeCorrect == Spec => []TypeOK
<1>1. ApiInv => TypeOK
  BY DEF ApiInv
<1> QED
  BY ApiInvariant, <1>1, PTL

\* Caches, flushes and returns lose no block and never give one two holders:
\* push after a flush always finds room.
THEOREM HasOneHolder == Spec => []OneHolder
<1>1. ApiInv => OneHolder
  BY DEF ApiInv
<1> QED
  BY ApiInvariant, <1>1, PTL

\* A cached block fits its bin exactly, and the counts are right.
THEOREM BinsAreExact == Spec => []BinExact
<1>1. ApiInv => BinExact
  BY DEF ApiInv
<1> QED
  BY ApiInvariant, <1>1, PTL

\* Under the caches the heap stays tiled.
THEOREM ApiTilesHeap == Spec => []HeapTiled
<1>1. ApiInv => HeapTiled
  BY DEF ApiInv, HeapInv
<1> QED
  BY ApiInvariant, <1>1, PTL

\* free accepts what the program owns and what a flush returns, and rejects
\* blocks at rest in a cache or in the list.
THEOREM FlagsTellHolder == Spec => []FlagTellsHolder
<1>1. ASSUME ApiInv
      PROVE  FlagTellsHolder
  <2>1. \A b \in live \union InTransit : Accepts(b)
    BY <1>1, HolderFacts
  <2>2. \A b \in Cached \union Pending \union Listed : ~ inuse[b]
    BY <1>1, HolderFacts DEF HolderFlags, ListedFree
  <2> QED
    BY <2>1, <2>2 DEF FlagTellsHolder, Accepts
<1> QED
  BY ApiInvariant, <1>1, PTL

\* With nothing owned and nothing cached the heap is back to nothing.
THEOREM ApiReclaimsAll == Spec => []ApiReclaims
<1>1. ASSUME ApiInv
      PROVE  ApiReclaims
  <2> SUFFICES ASSUME ~ BrkMayFail, live = {}, Cached = {},
                      \A t \in Thread : pc[t] \in {"idle", "exited"}
               PROVE  sysBreak = heapStart
    BY DEF ApiReclaims
  <2>1. HeapInv /\ Partition /\ CallShape
    BY <1>1, HolderFacts
  <2>2. \A t \in Thread : arg[t] = NoBlock /\ pending[t] = NoBlock /\ locker # t
    BY <2>1 DEF CallShape, ShapeOf
  <2>3. alloc = {}
    BY <2>1, <2>2 DEF Partition, Pending, InTransit
  <2>4. locker = NoThread
    BY <2>1, <2>2 DEF HeapInv, HeapTypeOK
  <2> QED
    BY <2>1, <2>3, <2>4, NothingLeft DEF FullyReclaimed
<1> QED
  BY ApiInvariant, <1>1, PTL

-----------------------------------------------------------------------------
(* Nobody writes into what the program owns                                *)

\* A step of the API is one of the allocator, or it leaves all sizes alone and
\* writes at most the flag of a block that enters or leaves the program's hands.
LEMMA StepSorts ==
    ASSUME ApiInv, [Next]_vars
    PROVE  \/ [AllocatorNext]_allocatorVars
           \/ /\ UNCHANGED <<memVars, size, freeList, locker, node, alloc>>
              /\ \E b \in alloc : /\ b \notin live \intersect live'
                                  /\ \A a \in Addr \ {b} : inuse'[a] = inuse[a]
           \/ UNCHANGED <<memVars, size, inuse, freeList, locker, node, alloc>>
<1> DEFINE Rest == UNCHANGED <<memVars, size, freeList, locker, node, alloc>>
           Quiet(b) ==
             /\ Rest
             /\ b \in alloc /\ b \notin live \intersect live'
             /\ \A a \in Addr \ {b} : inuse'[a] = inuse[a]
<1>1. ASSUME NEW t \in Thread, NEW n \in Request, MallocCached(t, n)
      PROVE  \E b : Quiet(b)
  <2>1. PICK k, h : k = BinOf(n) /\ h = Head(bins[t][k])
    OBVIOUS
  <2>2. /\ Rest /\ size' = size /\ TakeFirst(t, k)
        /\ inuse' = [inuse EXCEPT ![h] = TRUE]
    BY <1>1, <2>1 DEF MallocCached, TakeFirst
  <2>3. k \in Bin
    BY <1>1, <2>1, AllocatorAssumption, TcacheAssumption
       DEF MallocCached, Covers, BinOf, Bin
  <2>4. h \in Cached
    BY <2>1, <2>2, <2>3, HolderFacts, TakeKeepsCache
  <2>5. h \in alloc /\ h \notin live
    BY <2>4, HolderFacts DEF Partition
  <2> QED
    BY <2>2, <2>5, HolderFacts
<1>2. ASSUME NEW t \in Thread, FlushFirst(t)
      PROVE  \E b : Quiet(b)
  <2>1. PICK k, h : k = fbin[t] /\ h = Head(bins[t][k])
    OBVIOUS
  <2>2. /\ Rest /\ size' = size /\ TakeFirst(t, k) /\ pc[t] = "flush"
        /\ inuse' = [inuse EXCEPT ![h] = TRUE]
    BY <1>2, <2>1 DEF FlushFirst, TakeFirst
  <2>3. k \in Bin
    BY <2>1, <2>2, HolderFacts DEF CallShape, ShapeOf, LocalTypes
  <2>4. h \in Cached
    BY <2>1, <2>2, <2>3, HolderFacts, TakeKeepsCache
  <2>5. h \in alloc /\ h \notin live
    BY <2>4, HolderFacts DEF Partition
  <2> QED
    BY <2>2, <2>5, HolderFacts
<1>3. ASSUME NEW t \in Thread, NEW b \in live, FreeCached(t, b) \/ FreeFlushes(t, b)
      PROVE  Quiet(b)
  <2>1. /\ Rest /\ live' = live \ {b}
        /\ inuse' = inuse \/ inuse' = [inuse EXCEPT ![b] = FALSE]
    BY <1>3 DEF FreeCached, FreeFlushes
  <2> QED
    BY <2>1, HolderFacts
<1>4. ASSUME NEW t \in Thread, Drain(t)
      PROVE  [AllocatorNext]_allocatorVars
  <2>1. arg[t] \in InTransit
    BY <1>4, HolderFacts DEF Drain, CallShape, ShapeOf, InTransit
  <2>2. arg[t] \in alloc /\ Accepts(arg[t])
    BY <2>1, HolderFacts
  <2> QED
    BY <1>4, <2>2 DEF Drain, AllocatorNext
<1>5. ASSUME NEW t \in Thread, NEW n \in Request, MallocUncached(t, n) \/ Calloc(t, n)
      PROVE  AllocatorNext
  BY <1>5 DEF MallocUncached, Calloc, AllocatorMalloc, AllocatorNext
<1>6. ASSUME NEW t \in Thread, NEW b \in live, NEW n \in Request,
             ReallocMoves(t, b, n) \/ ReallocFails(t, b, n)
      PROVE  AllocatorNext
  BY <1>6 DEF ReallocMoves, ReallocFails, Malloc, AllocatorNext
<1>7. ASSUME NEW t \in Thread, NEW b \in live, NEW n \in Request, ReallocStays(t, b, n)
      PROVE  Rest /\ inuse' = inuse
  BY <1>7 DEF ReallocStays, heapVars
<1>8. ASSUME NEW t \in Thread, NEW b \in live, FreeLarge(t, b) \/ ReallocZero(t, b)
      PROVE  UNCHANGED allocatorVars
  BY <1>8 DEF FreeLarge, ReallocZero
<1>9. ASSUME NEW t \in Thread, FlushTcache(t) \/ Exit(t) \/ FlushDone(t)
      PROVE  UNCHANGED allocatorVars
  BY <1>9 DEF FlushTcache, Exit, FlushDone
<1>10. ASSUME NEW t \in Thread, Freeing(t)
       PROVE  AllocatorNext
  BY <1>10 DEF Freeing, AllocatorNext
<1>11. CASE UNCHANGED vars
  BY <1>11 DEF vars
<1> DEFINE Sorted == \/ [AllocatorNext]_allocatorVars
                     \/ \E b : Quiet(b)
                     \/ Rest /\ inuse' = inuse
<1>12. ASSUME NEW t \in Thread, NEW n \in Request,
              MallocCached(t, n) \/ MallocUncached(t, n) \/ Calloc(t, n)
       PROVE  Sorted
  BY <1>1, <1>5, <1>12
<1>13. ASSUME NEW t \in Thread, NEW b \in live,
              \/ FreeCached(t, b) \/ FreeFlushes(t, b)
              \/ FreeLarge(t, b) \/ ReallocZero(t, b)
       PROVE  Sorted
  BY <1>3, <1>8, <1>13
<1>14. ASSUME NEW t \in Thread, NEW b \in live, NEW n \in Request,
              ReallocMoves(t, b, n) \/ ReallocStays(t, b, n) \/ ReallocFails(t, b, n)
       PROVE  Sorted
  BY <1>6, <1>7, <1>14
<1>15. ASSUME NEW t \in Thread, FlushTcache(t) \/ Exit(t) \/ Inner(t)
       PROVE  Sorted
  BY <1>2, <1>4, <1>9, <1>10, <1>15 DEF Inner
<1>16. CASE UNCHANGED vars
  BY <1>11, <1>16
<1>17. Sorted
  BY <1>12, <1>13, <1>14, <1>15, <1>16 DEF Next
<1> QED
  BY <1>17

\* A block that stays handed out keeps its size.
LEMMA SizeKept ==
    ASSUME ApiInv, [Next]_vars, NEW d \in alloc \intersect alloc'
    PROVE  size'[d] = size[d]
<1>1. HeapInv
  BY HolderFacts
<1>2. CASE [AllocatorNext]_allocatorVars
  BY <1>1, <1>2, HandedOutKept
<1> QED
  BY <1>2, StepSorts

\* No header changes inside a block that stays with the program.
LEMMA StepLeavesLive ==
    ASSUME ApiInv, ApiInv', [Next]_vars,
           NEW a \in Addr, size'[a] # size[a] \/ inuse'[a] # inuse[a],
           NEW d \in live \intersect live'
    PROVE  ~ Inside(a, d)
<1>1. HeapInv /\ d \in alloc /\ d \in alloc'
  BY HolderFacts DEF ApiInv, OneHolder
<1>2. CASE [AllocatorNext]_allocatorVars
  <2>1. AllocatorNext
    BY <1>2 DEF allocatorVars, heapVars
  <2> QED
    BY <1>1, <2>1, StepLeavesHandedOut
<1>3. ASSUME size' = size, NEW b \in alloc, b \notin live \intersect live',
             \A e \in Addr \ {b} : inuse'[e] = inuse[e]
      PROVE  ~ Inside(a, d)
  <2>1. a = b /\ b # d
    BY <1>3
  <2>2. b \in Blocks /\ d \in Blocks /\ Inside(b, b)
    BY <1>1, OwnHeader DEF Blocks
  <2> QED
    BY <1>1, <2>1, <2>2, InsideOne
<1> QED
  BY <1>2, <1>3, StepSorts

\* The data of a block is the program's alone as long as it owns the block.
THEOREM LeavesLive == Spec => LiveUntouched
<1>1. ApiInv /\ ApiInv' /\ [Next]_vars
        => [\A a \in Addr : size'[a] # size[a] \/ inuse'[a] # inuse[a] =>
              \A b \in live \intersect live' : ~ Inside(a, b)]_vars
  BY StepLeavesLive
<1> QED
  BY ApiInvariant, <1>1, PTL DEF Spec, LiveUntouched

-----------------------------------------------------------------------------
(* The API implements the contract                                         *)

\* What malloc hands out was nobody's, and nothing else changes for those who
\* hold blocks.
LEMMA MallocGives ==
    ASSUME HeapInv, NEW n \in Request, Malloc(n), alloc' # alloc
    PROVE  \E b \in Addr :
             /\ b \notin alloc /\ alloc' = alloc \union {b}
             /\ asked' = [asked EXCEPT ![b] = n]
             /\ size'[b] \in n .. n + 1
             /\ \A d \in alloc : size'[d] = size[d]
<1>1. /\ alloc \subseteq Addr /\ alloc \subseteq Blocks
      /\ alloc \intersect Listed = {}
  BY DEF HeapInv, HeapTypeOK, OneOwner, Blocks
<1>2. CASE MallocReuse(n)
  <2>1. PICK b \in Listed :
          /\ alloc' = alloc \union {b}
          /\ asked' = [asked EXCEPT ![b] = n]
          /\ \A a \in Addr : size'[a] # size[a] \/ inuse'[a] # inuse[a]
                               => Inside(a, b)
          /\ size'[b] \in n .. n + 1
    BY <1>2, ReuseWrites
  <2>2. b \in Blocks /\ b \in Addr /\ b \notin alloc
    BY <1>1, OwnHeader DEF Blocks
  <2>3. ASSUME NEW d \in alloc
        PROVE  size'[d] = size[d]
    BY <1>1, <2>1, <2>2, OwnHeader, InsideOne
  <2> QED
    BY <2>1, <2>2, <2>3
<1>3. CASE MallocExtend(n)
  <2>1. /\ alloc' = alloc \union {sysBreak}
        /\ asked' = [asked EXCEPT ![sysBreak] = n]
        /\ sysBreak \in Addr /\ size'[sysBreak] = n
        /\ \A a \in Addr \ {sysBreak} : size'[a] = size[a]
        /\ \A b \in Blocks : ~ Inside(sysBreak, b)
    BY <1>3, ExtendWrites
  <2>2. sysBreak \notin alloc
    BY <1>1, <2>1, OwnHeader
  <2>3. size'[sysBreak] \in n .. n + 1
    BY <2>1, AllocatorAssumption
  <2>4. \A d \in alloc : size'[d] = size[d]
    BY <1>1, <2>1, <2>2
  <2> QED
    BY <2>1, <2>2, <2>3, <2>4
<1> QED
  BY <1>2, <1>3 DEF Malloc, MallocFails

\* A block that was not the program's and is handed out with the right size
\* does not overlap with any the program has.
LEMMA Newcomer ==
    ASSUME HeapInv', live \subseteq alloc', NEW b \in alloc', b \notin live,
           NEW n, asked'[b] = n,
           \A d \in live : size'[d] = size[d] /\ asked'[d] = asked[d]
    PROVE  /\ b + 1 \in Addr
           /\ AreaOf(b, size', asked') = ApiContract!Area(b + 1, size'[b], n)
           /\ \A x \in LiveAreas : ApiContract!Disjoint(x, AreaOf(b, size', asked'))
<1>1. /\ Blocks' \in SUBSET Addr /\ size' \in [Addr -> Nat]
      /\ sysBreak' \in 0 .. MaxBreak
      /\ Tiled(Blocks', size', heapStart', sysBreak')
      /\ alloc' \subseteq Blocks'
  <2>1. freeList' \in Seq(Addr)
    BY DEF HeapInv, HeapTypeOK
  <2>2. Listed' \subseteq Addr
    BY <2>1 DEF Listed, Range
  <2> QED
    BY <2>2 DEF HeapInv, HeapTypeOK, HeapTiled, Blocks, InHand
<1>2. b + 1 \in Addr
  <2>1. b + Total(size'[b]) =< sysBreak' /\ size'[b] >= 1 /\ b \in Addr
    BY <1>1 DEF Tiled
  <2>2. size'[b] \in Nat /\ sysBreak' \in Nat /\ sysBreak' =< MaxBreak
    BY <1>1, <2>1, MemoryAssumption
  <2> QED
    BY <2>1, <2>2, MemoryAssumption DEF Total, HeaderUnits, Addr
<1>3. AreaOf(b, size', asked') = ApiContract!Area(b + 1, size'[b], n)
  BY DEF AreaOf, HeaderUnits, ApiContract!Area
<1>4. ASSUME NEW d \in live
      PROVE  ApiContract!Disjoint(AreaOf(d, size, asked), AreaOf(b, size', asked'))
  <2>1. AreaOf(d, size, asked) = AreaOf(d, size', asked')
    BY DEF AreaOf
  <2>2. AllocatorContract!Disjoint(AreaOf(d, size', asked'), AreaOf(b, size', asked'))
    BY <1>1, AreasDisjoint
  <2> QED
    BY <2>1, <2>2 DEF AllocatorContract!Disjoint, ApiContract!Disjoint
<1> QED
  BY <1>2, <1>3, <1>4 DEF LiveAreas

\* The areas of different blocks are different: each starts behind its header.
LEMMA AreasDiffer ==
    ASSUME NEW b \in Addr, NEW d \in Addr, b # d, NEW s, NEW n, NEW r, NEW m
    PROVE  AreaOf(b, s, n) # AreaOf(d, r, m)
  BY DEF AreaOf, HeaderUnits, Addr

\* The program gets a block: by a hit, or from the allocator.
LEMMA LiveGains ==
    ASSUME HeapInv', live \subseteq alloc', NEW b \in alloc', b \notin live,
           NEW n \in Request, asked'[b] = n, size'[b] \in n .. n + 1,
           \A d \in live : size'[d] = size[d] /\ asked'[d] = asked[d],
           live' = live \union {b}
    PROVE  ApiContract!Next
<1>1. PICK area : area = AreaOf(b, size', asked')
  OBVIOUS
<1>2. /\ b + 1 \in Addr /\ area = ApiContract!Area(b + 1, size'[b], n)
      /\ \A x \in LiveAreas : ApiContract!Disjoint(x, area)
  BY <1>1, Newcomer
<1>3. LiveAreas' = LiveAreas \union {area}
  <2>1. \A d \in live : AreaOf(d, size', asked') = AreaOf(d, size, asked)
    BY DEF AreaOf
  <2> QED
    BY <1>1, <2>1 DEF LiveAreas
<1>4. ApiContract!Malloc(n)
  BY <1>2, <1>3 DEF ApiContract!Malloc
<1> QED
  BY <1>4 DEF ApiContract!Next

\* The program gives a block up.
LEMMA LiveLoses ==
    ASSUME live \subseteq Addr, NEW b \in live, live' = live \ {b},
           \A d \in live \ {b} : size'[d] = size[d] /\ asked'[d] = asked[d]
    PROVE  ApiContract!Next
<1>1. PICK area : area = AreaOf(b, size, asked)
  OBVIOUS
<1>2. area \in LiveAreas
  BY <1>1 DEF LiveAreas
<1>3. \A d \in live \ {b} : AreaOf(d, size', asked') = AreaOf(d, size, asked)
  BY DEF AreaOf
<1>4. \A d \in live \ {b} : AreaOf(d, size, asked) # area
  BY <1>1, AreasDiffer
<1>5. LiveAreas' = LiveAreas \ {area}
  <2>1. LiveAreas' = {AreaOf(d, size, asked) : d \in live \ {b}}
    BY <1>3 DEF LiveAreas
  <2> QED
    BY <1>1, <1>4, <2>1 DEF LiveAreas
<1>6. ApiContract!Free(area)
  BY <1>5 DEF ApiContract!Free
<1> QED
  BY <1>2, <1>6 DEF ApiContract!Next

\* One block takes the place of another.
LEMMA LiveMoves ==
    ASSUME HeapInv', live \subseteq alloc', NEW b \in alloc', b \notin live,
           live \subseteq Addr, NEW old \in live,
           NEW n \in Request, asked'[b] = n, size'[b] \in n .. n + 1, size[old] < n,
           \A d \in live : size'[d] = size[d] /\ asked'[d] = asked[d],
           live' = (live \ {old}) \union {b}
    PROVE  ApiContract!Next
<1>1. PICK area, gone : area = AreaOf(b, size', asked') /\ gone = AreaOf(old, size, asked)
  OBVIOUS
<1>2. /\ b + 1 \in Addr /\ area = ApiContract!Area(b + 1, size'[b], n)
      /\ \A x \in LiveAreas : ApiContract!Disjoint(x, area)
  BY <1>1, Newcomer
<1>3. gone \in LiveAreas /\ gone.len = size[old]
  BY <1>1 DEF LiveAreas, AreaOf
<1>4. \A d \in live : AreaOf(d, size', asked') = AreaOf(d, size, asked)
  BY DEF AreaOf
<1>5. \A d \in live \ {old} : AreaOf(d, size, asked) # gone
  BY <1>1, AreasDiffer
<1>6. LiveAreas' = (LiveAreas \ {gone}) \union {area}
  <2>1. LiveAreas' = {AreaOf(d, size, asked) : d \in live \ {old}} \union {area}
    BY <1>1, <1>4 DEF LiveAreas
  <2>2. {AreaOf(d, size, asked) : d \in live \ {old}} = LiveAreas \ {gone}
    BY <1>1, <1>5 DEF LiveAreas
  <2> QED
    BY <2>1, <2>2
<1>7. ApiContract!Move(gone, n)
  BY <1>2, <1>3, <1>6 DEF ApiContract!Move
<1> QED
  BY <1>3, <1>7 DEF ApiContract!Next

\* A block stays where it is and answers a new request.
LEMMA LiveStays ==
    ASSUME live \subseteq Addr, NEW b \in live, NEW n \in Request, size[b] >= n,
           asked \in [Addr -> Nat], asked' = [asked EXCEPT ![b] = n],
           size' = size, live' = live
    PROVE  ApiContract!Next
<1>1. PICK area, gone :
        /\ area = ApiContract!Area(b + 1, size[b], n)
        /\ gone = AreaOf(b, size, asked)
  OBVIOUS
<1>2. gone \in LiveAreas /\ gone.len = size[b] /\ gone.start = b + 1
  BY <1>1 DEF LiveAreas, AreaOf, HeaderUnits
<1>3. AreaOf(b, size', asked') = area
  BY <1>1 DEF AreaOf, HeaderUnits, ApiContract!Area
<1>4. \A d \in live \ {b} : AreaOf(d, size', asked') = AreaOf(d, size, asked)
  BY DEF AreaOf
<1>5. \A d \in live \ {b} : AreaOf(d, size, asked) # gone
  BY <1>1, AreasDiffer
<1>6. LiveAreas' = (LiveAreas \ {gone}) \union {area}
  <2>1. LiveAreas' = {AreaOf(d, size, asked) : d \in live \ {b}} \union {area}
    BY <1>3, <1>4 DEF LiveAreas
  <2>2. {AreaOf(d, size, asked) : d \in live \ {b}} = LiveAreas \ {gone}
    BY <1>1, <1>5 DEF LiveAreas
  <2> QED
    BY <2>1, <2>2
<1>7. ApiContract!Stay(gone, n)
  BY <1>1, <1>2, <1>6 DEF ApiContract!Stay
<1> QED
  BY <1>2, <1>7 DEF ApiContract!Next

\* What the program does not see.
LEMMA LiveUnseen ==
    ASSUME live' = live, \A d \in live : size'[d] = size[d] /\ asked'[d] = asked[d]
    PROVE  UNCHANGED LiveAreas
  BY DEF LiveAreas, AreaOf

\* A hit is exact: the size of a cached block is the size its bin is for.
LEMMA HitKeepsContract ==
    ASSUME ApiInv, ApiInv', NEW t \in Thread, NEW n \in Request, MallocCached(t, n)
    PROVE  ApiContract!Next
<1>1. PICK k, h : k = BinOf(n) /\ h = Head(bins[t][k])
  OBVIOUS
<1>2. /\ size' = size /\ alloc' = alloc /\ TakeFirst(t, k)
      /\ asked' = [asked EXCEPT ![h] = n]
      /\ live' = live \union {h}
  BY <1>1 DEF MallocCached
<1>3. n \in Nat \ {0} /\ k \in Bin
  BY <1>1, AllocatorAssumption, TcacheAssumption DEF MallocCached, Covers, BinOf, Bin
<1>4. h \in Cached /\ BinOf(size[h]) = k
  BY <1>1, <1>2, <1>3, HolderFacts, TakeKeepsCache
<1>5. h \in alloc /\ h \in Addr /\ h \notin live /\ size[h] \in Nat
  BY <1>4, HolderFacts DEF Partition
<1>6. size'[h] \in n .. n + 1
  BY <1>1, <1>2, <1>3, <1>4, <1>5 DEF BinOf
<1>7. /\ asked'[h] = n
      /\ \A d \in live : size'[d] = size[d] /\ asked'[d] = asked[d]
  BY <1>2, <1>5, HolderFacts
<1>8. HeapInv' /\ live \subseteq alloc'
  BY <1>2, HolderFacts DEF ApiInv
<1> QED
  BY <1>2, <1>5, <1>6, <1>7, <1>8, LiveGains

\* malloc without a hit, and calloc.
LEMMA MallocKeepsContract ==
    ASSUME ApiInv, ApiInv', NEW n \in Request, AllocatorMalloc(n)
    PROVE  ApiContract!Next \/ UNCHANGED LiveAreas
<1>1. Malloc(n) /\ live' = live \union (alloc' \ alloc)
  BY DEF AllocatorMalloc
<1>2. CASE alloc' # alloc
  <2>1. PICK b \in Addr :
          /\ b \notin alloc /\ alloc' = alloc \union {b}
          /\ asked' = [asked EXCEPT ![b] = n]
          /\ size'[b] \in n .. n + 1
          /\ \A d \in alloc : size'[d] = size[d]
    BY <1>1, <1>2, HolderFacts, MallocGives
  <2>2. b \notin live /\ live \subseteq alloc' /\ live' = live \union {b}
    BY <1>1, <2>1, HolderFacts
  <2>3. /\ asked'[b] = n
        /\ \A d \in live : size'[d] = size[d] /\ asked'[d] = asked[d]
    BY <2>1, <2>2, HolderFacts
  <2>4. HeapInv'
    BY DEF ApiInv
  <2> QED
    BY <2>1, <2>2, <2>3, <2>4, LiveGains
<1>3. CASE alloc' = alloc
  <2>1. MallocFails(n)
    <3>1. ~ MallocReuse(n)
      BY <1>3, HolderFacts, ReuseWrites DEF HeapInv, OneOwner
    <3>2. ~ MallocExtend(n)
      <4>1. ASSUME MallocExtend(n)
            PROVE  FALSE
        <5>1. /\ alloc' = alloc \union {sysBreak} /\ sysBreak \in Addr
              /\ \A b \in Blocks : ~ Inside(sysBreak, b)
          BY <4>1, HolderFacts, ExtendWrites
        <5>2. sysBreak \in Blocks
          BY <1>3, <5>1 DEF Blocks
        <5> QED
          BY <5>1, <5>2, HolderFacts, OwnHeader
      <4> QED
        BY <4>1
    <3> QED
      BY <1>1, <3>1, <3>2 DEF Malloc
  <2>2. size' = size /\ asked' = asked
    BY <2>1 DEF MallocFails
  <2> QED
    BY <1>1, <1>3, <2>2, LiveUnseen
<1> QED
  BY <1>2, <1>3

\* realloc that moves the data.
LEMMA MoveKeepsContract ==
    ASSUME ApiInv, ApiInv', NEW t \in Thread, NEW old \in live, NEW n \in Request,
           ReallocMoves(t, old, n)
    PROVE  ApiContract!Next
<1>1. /\ Malloc(n) /\ alloc' # alloc /\ size[old] < n
      /\ live' = (live \ {old}) \union (alloc' \ alloc)
  BY DEF ReallocMoves
<1>2. PICK b \in Addr :
        /\ b \notin alloc /\ alloc' = alloc \union {b}
        /\ asked' = [asked EXCEPT ![b] = n]
        /\ size'[b] \in n .. n + 1
        /\ \A d \in alloc : size'[d] = size[d]
  BY <1>1, HolderFacts, MallocGives
<1>3. /\ b \notin live /\ live \subseteq alloc' /\ live \subseteq Addr
      /\ live' = (live \ {old}) \union {b}
  BY <1>1, <1>2, HolderFacts
<1>4. /\ asked'[b] = n
      /\ \A d \in live : size'[d] = size[d] /\ asked'[d] = asked[d]
  BY <1>2, <1>3, HolderFacts
<1>5. HeapInv'
  BY DEF ApiInv
<1> QED
  BY <1>1, <1>2, <1>3, <1>4, <1>5, LiveMoves

\* free, and realloc to nothing.
LEMMA FreeKeepsContract ==
    ASSUME ApiInv, NEW t \in Thread, NEW b \in live,
           \/ FreeCached(t, b) \/ FreeFlushes(t, b)
           \/ FreeLarge(t, b) \/ ReallocZero(t, b)
    PROVE  ApiContract!Next
<1>1. /\ live' = live \ {b} /\ size' = size
      /\ asked' = asked \/ asked' = [asked EXCEPT ![b] = 0]
  BY DEF FreeCached, FreeFlushes, FreeLarge, ReallocZero, allocatorVars, heapVars
<1>2. live \subseteq Addr /\ asked \in [Addr -> Nat]
  BY HolderFacts
<1>3. \A d \in live \ {b} : size'[d] = size[d] /\ asked'[d] = asked[d]
  BY <1>1, <1>2
<1> QED
  BY <1>1, <1>2, <1>3, LiveLoses

\* Inside a call, between the program's two looks at it, nothing shows.
LEMMA InnerKeepsContract ==
    ASSUME ApiInv, NEW t \in Thread, FlushTcache(t) \/ Exit(t) \/ Inner(t)
    PROVE  UNCHANGED LiveAreas
<1>1. CASE FlushTcache(t) \/ Exit(t) \/ FlushFirst(t) \/ FlushDone(t)
  <2>1. live' = live /\ size' = size /\ asked' = asked
    BY <1>1 DEF FlushTcache, Exit, FlushFirst, FlushDone, allocatorVars, heapVars
  <2> QED
    BY <2>1, LiveUnseen
<1>2. CASE Drain(t)
  <2>1. arg[t] \in InTransit
    BY <1>2, HolderFacts DEF Drain, CallShape, ShapeOf, InTransit
  <2>2. arg[t] \notin live /\ Accepts(arg[t])
    BY <2>1, HolderFacts DEF Partition
  <2>3. live' = live /\ size' = size /\ asked' = [asked EXCEPT ![arg[t]] = 0]
    BY <1>2, <2>2 DEF Drain, FreeBegin, heapVars
  <2>4. \A d \in live : asked'[d] = asked[d]
    BY <2>2, <2>3, HolderFacts
  <2> QED
    BY <2>3, <2>4, LiveUnseen
<1>3. CASE Freeing(t)
  <2>1. FreeStep(t) /\ live' = live
    BY <1>3 DEF Freeing
  <2>2. alloc' = alloc /\ asked' = asked
    BY <2>1, HolderFacts, FreeWrites
  <2>3. AllocatorNext
    BY <2>1 DEF AllocatorNext
  <2>4. \A d \in alloc : size'[d] = size[d]
    BY <2>2, <2>3, HolderFacts, AllocatorStep
  <2>5. \A d \in live : size'[d] = size[d]
    BY <2>4, HolderFacts
  <2> QED
    BY <2>1, <2>2, <2>5, LiveUnseen
<1> QED
  BY <1>1, <1>2, <1>3 DEF Inner

\* Each step of the API is a step of the contract or a stutter.
LEMMA ApiStepKeepsContract ==
    ASSUME ApiInv, ApiInv', [Next]_vars
    PROVE  ApiContract!Next \/ UNCHANGED LiveAreas
<1>1. ASSUME NEW t \in Thread, NEW n \in Request,
             MallocCached(t, n) \/ MallocUncached(t, n) \/ Calloc(t, n)
      PROVE  ApiContract!Next \/ UNCHANGED LiveAreas
  BY <1>1, HitKeepsContract, MallocKeepsContract DEF MallocUncached, Calloc
<1>2. ASSUME NEW t \in Thread, NEW b \in live,
             \/ FreeCached(t, b) \/ FreeFlushes(t, b)
             \/ FreeLarge(t, b) \/ ReallocZero(t, b)
      PROVE  ApiContract!Next
  BY <1>2, FreeKeepsContract
<1>3. ASSUME NEW t \in Thread, NEW b \in live, NEW n \in Request, ReallocMoves(t, b, n)
      PROVE  ApiContract!Next
  BY <1>3, MoveKeepsContract
<1>4. ASSUME NEW t \in Thread, NEW b \in live, NEW n \in Request, ReallocStays(t, b, n)
      PROVE  ApiContract!Next
  <2>1. /\ size[b] >= n /\ asked' = [asked EXCEPT ![b] = n]
        /\ size' = size /\ live' = live
    BY <1>4 DEF ReallocStays, heapVars
  <2>2. live \subseteq Addr /\ asked \in [Addr -> Nat]
    BY HolderFacts
  <2> QED
    BY <2>1, <2>2, LiveStays
<1>5. ASSUME NEW t \in Thread, NEW b \in live, NEW n \in Request, ReallocFails(t, b, n)
      PROVE  UNCHANGED LiveAreas
  <2>1. live' = live /\ size' = size /\ asked' = asked
    BY <1>5 DEF ReallocFails, MallocFails
  <2> QED
    BY <2>1, LiveUnseen
<1>6. ASSUME NEW t \in Thread, FlushTcache(t) \/ Exit(t) \/ Inner(t)
      PROVE  UNCHANGED LiveAreas
  BY <1>6, InnerKeepsContract
<1>7. CASE UNCHANGED vars
  <2>1. live' = live /\ size' = size /\ asked' = asked
    BY <1>7 DEF vars, allocatorVars, heapVars
  <2> QED
    BY <2>1, LiveUnseen
<1> QED
  BY <1>1, <1>2, <1>3, <1>4, <1>5, <1>6, <1>7 DEF Next

\* The program sees areas that never overlap, of the size it asked for or one
\* unit more, that stay put until it frees or resizes them: hits, flushes and
\* the steps of free in between do not show.
THEOREM ApiImplementsContract == Spec => ApiKeepsContract
<1>1. Init => ApiContract!Init
  BY DEF Init, ApiContract!Init, LiveAreas
<1>2. ApiInv /\ ApiInv' /\ [Next]_vars => [ApiContract!Next]_LiveAreas
  BY ApiStepKeepsContract
<1> QED
  BY ApiInvariant, <1>1, <1>2, PTL DEF Spec, ApiKeepsContract, ApiContract!Spec

=============================================================================
