# A verification development for mmemory

mmemory is a `malloc` in C++: a public API with a cache per thread, one
allocator under a lock, a free list kept in the free memory itself, and a heap
that grows and shrinks through `sbrk`. This directory holds TLA+ models of it,
the TLC configurations that check them, and theorems proved with TLAPS.

## 1. Inventory

| component | state | operations | talks to |
|---|---|---|---|
| **SbrkMemory** `src/memory.cpp` | `heap_start_`, cached break `cur_break_`, the kernel's break | `allocate`, `release_block`, `owns_address`, `supports_random_release` | the kernel: `sbrk`, `brk` |
| **HeaderList** `src/list.cpp` | `head_`, `count_`, the links `pre`/`next` inside free blocks | `insert`, `remove`, `find_first_fit`, `contains`, `find_prev_phys`, `find_next_phys`, `for_each` | reads sizes through a callback |
| **Find strategies** `include/find_strategy.h` | none | `find` of FirstFit, BestFit | HeaderList |
| **Allocator** `src/allocator.cpp` | the mutex `locker_`, the block headers (`size`, `inuse`) in the heap | `malloc`, `free`, `calloc`, `realloc` | list, strategy, provider |
| **Tcache** `src/tcache.cpp` | `bins_`, `counts_` of each thread | `pop`, `push`, `full`, `flush_bin`, `flush_all` | calls back into `Allocator::free` (`drain_`) |
| **Public API** `src/mmemory.cpp` | one cache per thread, the one allocator | `malloc`, `free`, `calloc`, `realloc`, `flush_tcache` | cache first, then allocator |
| **Size arithmetic** in `allocator.cpp`, `tcache.cpp` | none | alignment, guards, bin numbers | |
| **DEBUG leak tracker** in `allocator.cpp`, `memory.cpp` | table of pointers and sizes, byte counters | `track_alloc`, `track_free`, the destructors, `dump_stats` | allocator, logger |
| **Logging** `src/log.cpp` | one logger, the guard of its static, the sink's mutex | `get_logger` | everybody, also under the allocator's lock |
| **Override** `src/override.cpp` | none | `__wrap_*` | public API; makes the logger a caller of it |

What is hard here:

* **Two regimes of concurrency.** The allocator is serialised by one mutex. The
  caches take no lock and still write `inuse` in headers that lie between
  headers the lock protects. A flush takes and releases the lock once per
  block, so other threads run in its middle.
* **State that is only in the heap.** A block's owner is nowhere written down:
  it is what `inuse`, the list, the bins and the program's pointers say
  together. Links, cache entries and data share the same bytes.
* **Order.** Frees come in any order, and the heap shrinks only from the top.
* **Partial failure.** `sbrk` and `brk` may fail at any step, also after a
  merge was done; `push` may refuse a block and its result is ignored.
* **Arithmetic** on `size_t` mixed with `unsigned`.
* **Locks behind locks.** Failures, and in DEBUG builds every call, are logged
  while the allocator's mutex is held; the logger has locks of its own and
  allocates.
* **One break per process.** Tests construct a second allocator beside the
  global one; both move the same break.

What makes each component correct: the *provider's* cached break is the real
one; the *list* is one ring and its loops look at every node; the *allocator*
keeps the heap tiled by blocks with exactly one owner each, merges all free
neighbours and returns everything that is on top; the *cache* hands out only
blocks of the exact size and loses none; the *API* keeps the promise every
caller relies on, areas that do not overlap and stay put.

`PROJECT.json` lists the hazards with the line where each one bites and the
properties that cover it; hazards without a property yet carry a note.

## 2. Modules

```
HeapContract      what malloc/free/realloc promise (abstract)
     ^ implemented by Allocator and by MMemory (both checked and proved)
SbrkMemory -> Allocator -> Tcache -> MMemory -> MCMMemory
                  |                     |-> Tracker -> MCTracker     DEBUG build
                  |                     |-> UserData -> MCUserData   contents
                  |                     |-> DoubleFree
                  |-> MCAllocator
                  |=> TwoAllocators           two instances on one break
                  |-> AllocatorProofs
                            MMemory, AllocatorProofs -> ApiProofs
                            UserData, Tracker, ApiProofs -> ExtendedApiProofs
            TwoAllocators -> TwoAllocatorsProofs <= AllocatorProofs
FreeListContract  the list as a sequence (abstract)
     ^ implemented by HeaderList -> MCHeaderList   (both checked and proved)
                      HeaderList -> HeaderListProofs
SizeArith -> MCSizeArith, SizeArithProofs
LogLocks -> LogProofs
```

An arrow `->` reads "is extended by", `=>` and `<=` "is instantiated by".

**Units.** Everything the allocator does is a multiple of `align_to` = 16
bytes, which is also `sizeof(block_t)`. Addresses and sizes are counted in that
unit from the break at construction: a block at `b` has its header at `b` and
its user area in `b+1 .. b+size[b]`. That requests arrive as multiples of the
unit is the subject of SizeArith.

**SbrkMemory.** `heapStart`, `curBreak`, `sysBreak`. `Allocate` and
`AllocateFails` are the outcomes of `allocate`, `ReleaseBlock` and
`ReleaseBlockFails` those of `release_block`. Memory ends at `MaxBreak`, and
`sbrk` may also fail before; `BrkMayFail` lets `brk` fail on a block that does
touch the break.

**Allocator.** `size` and `inuse` are functions on all addresses, because
headers of blocks that no longer exist stay in memory. `freeList` is the list
as a sequence, head first. `locker` is the mutex. A `malloc` holds the lock from
its first read to its last write, so it is one action: `MallocReuse` (with the
split), `MallocExtend` or `MallocFails`. `free` is a sequence of actions,
`FreeBegin`, `MergeNext`, `MergePrev` and one `ReleaseToMemory` or
`ReleaseToList` for each iteration of the loop, with the local variable in
`node`. Other threads cannot enter, so the steps serve the properties that
speak about the middle of a `free` and the induction of the proofs. `alloc` is
history: the blocks handed out and not yet passed to `free`; so is `asked`,
the size each of them was asked for. No guard reads either of them but to say
which blocks a caller may pass to `free`. `HeapContract` speaks about these
two: `malloc` gives an area apart from all others, as long as asked for or one
unit longer; `realloc` keeps an area where it is when it is long enough and
replaces it otherwise; nothing else moves, resizes or ends an area but `free`.

**Tcache, MMemory.** Each thread has its bins as sequences. `pc` says where a
thread is: idle, in a flush, about to enter `Allocator::free` (`drain`), inside
it (`free`), or exited. `fbin` and `pending` are the locals of a flush: the bin,
and the block `free` pushes afterwards. The fast paths touch only the thread's
bins and the header of a block that this thread owns, so they are one action.
The unlocked read of `cur_break_` in `free` races with the lock holder; the
block is live, both the old and the new break are above it, and so the two
outcomes are the same: the model reads once. `realloc` moves by a `malloc` and
then the steps of `Allocator::free`; the new block is the program's only when
realloc returns, but nothing in between touches it. For the same reason the
`memset` of `calloc` and the `memcpy` of `realloc`, which run without the lock,
need no step of their own. Any thread may free or
resize any live block.

**HeaderList.** The links as functions `pre` and `next`. A node that is not in
the list may at any time be overwritten by data (`WriteData`). `init_free` is
part of `InsertNode`, because every insertion in the repository is preceded by
it. The loops are recursive functions: `Behind` over the number of steps from the
head, `Scan` and `BestOf` over the number of nodes already looked at.

**SizeArith.** Every size in turn, with the widths of `size_t` and `unsigned`
as parameters.

**UserData.** MMemory with the contents of every unit: a header, a link, a datum
of the program (its offset in the block, or the zero `calloc` wrote), or
something nobody relies on. Each action writes what the library writes: headers
that come to be or change, the list nodes, the cache link, `memset`, `memcpy`.
`Fill` is the program writing to its block. `promise` is history: what the
program may expect to find. List nodes are written more liberally than in the
code (any listed node instead of the neighbours); what is listed is free anyway.

**DoubleFree.** The API with a program that frees a pointer again, as long as its
header lies below the break; above it the read of the header may fault, which is
not modelled.

**TwoAllocators.** Two instances of Allocator, first-fit and best-fit, over the
same break, headers and flags, each with its own list, mutex and provider
(`heapStart`, `curBreak`). As in BestFitTest (`unittest_malloc.cpp` 353-376) one
thread uses them in turn; the second may be constructed at any time.

**Tracker.** MMemory in a DEBUG build. Each action also does what the code path
does to the leak table and the byte counters; `EndProcess` is the report of
`~Allocator`. The table has room for `MaxTracked` blocks and the counters wrap at
`CounterRange`. `dropped` is history: the blocks that found no room.

**LogLocks.** The mutex, the guard of the static in `get_logger` and the mutex of
the sink. A thread is a stack of program points; `build` is fixed at the start,
with or without DEBUG and with or without the override. A DEBUG build logs in
every critical section, other builds only failures. The ways out of the critical
section differ: `Unlock` at the end of `malloc` and `free`, `UnlockExtended` where
`malloc` has extended the heap and a DEBUG build writes its message after the
unlock, `UnlockFailed` at the two early returns, after a message. `Complain` is the
rejection in the API's own `free`; it starts from the program only, because the
logger frees nothing but what the library gave it, and `free` never rejects that
(`FlagTellsHolder`). With the override the logger's
allocations may call the library again; a cached block may serve them, so they
may also not. A thread that comes to `get_logger` inside its own construction of
the logger waits for itself; in C++ that is undefined, and waiting is what the
usual implementation does.

Operators named `X_Something` beside an operator `X` are faulty variants of it,
one per plausible slip in the code. They are not part of any specification; they
show that each property can fail.

## 3. What the runs check

| run | instance | what it shows |
|---|---|---|
| `alloc_safety` | heap of 8 units, 2 threads, requests 1-2, BestFit, brk may fail, fairness | the blocks tile the heap, one owner each, the flag agrees, free neighbours are merged, nothing handed out is written to; the lock is released; malloc/free implement HeapContract |
| `api_calls` | 6 units, 2 threads, requests 1-3, 2 bins of 2, FirstFit, brk works, fairness | no block lost or held twice, also between the steps of a flush; bins exact; flags agree with the holder; live blocks untouched; memory goes back, with one release per free; the API implements HeapContract; every call returns |
| `user_data` | 6 units, 2 threads, requests 1-2, 1 bin of 1, brk may fail | data survive, realloc keeps them, calloc clears them, links and headers survive the data |
| `two_allocators` | 7 units, 1 thread, requests 1-2, brk may fail | two allocators on one break never take each other's memory, and each cached break stays above its allocator's blocks |
| `log_locks` | 3 threads, all four builds, fairness | no deadlock without the override, and only after a failure with it (release builds); every call returns |
| `debug_tracker` | 6 units, 2 threads, 1 bin of 1, table of 2, counters modulo 8, brk may fail | table and counters are exact; the report misses no leak |
| `free_list` | 4 nodes, sizes 1-2 | the ring, all queries, BestFit, refinement of the sequence |
| `size_ordinary` | 10-bit `size_t`, 8-bit `unsigned`, sizes below the width of `unsigned` | least block, bins, calloc |
| `exit_report` | as `debug_tracker`; violation | see finding 1 |
| `second_start` | as `two_allocators`; violation | see finding 2 |
| `double_free` | violation | see finding 3 |
| `size_huge` | violation | see finding 4 |

**Why the bounds are enough.** A block takes at least two units. Eight units
hold four blocks: a block with two neighbours and one more between it and the
break, which is every local situation `free` distinguishes (each neighbour free
or not, top of the heap or not). Requests of 1 and 2 give an exact fit, a fit
with one unit to spare (no split) and splits. In `api_calls` six units hold three
blocks: enough for a full bin of two and the block whose `free` flushes it, while
the other thread allocates what is returned. Two threads suffice for the caches
because a cache is private: a third thread would only be another caller of the
serialised allocator. A table of two is full with the third block; a heap of six
units turns counters modulo eight round. Four nodes give lists with a head, a
tail and two inner nodes, in all orders. Three threads can each hold one of the
three locks of LogLocks. The theorems remove the bounds where they exist.

**Symmetry** is used for threads in `user_data`, `debug_tracker` and `exit_report`, which check
invariants only; threads differ in name only.

**Fairness.** `FairAllocatorSpec` has weak fairness of each thread's steps inside
`free`: there is no blocking call in the critical section, so a scheduler that
runs every runnable thread gives exactly that. MMemory's `FairSpec` has weak
fairness of the steps of a call and strong fairness of `Drain`, which waits for
the mutex: between two attempts of a thread others take and release it. POSIX
promises no such thing of a mutex; it is an assumption, and with weak fairness
instead `FreeReturns` fails. LogLocks' `FairSpec` is the same for its three locks.
No fairness is assumed of the program.

**Deadlock** is checked in every run but `log_locks`: a build with the override
really may stop, which is what `StuckAfterFailure` is about.

### Findings

1. `exit_report`: `Tcache` has no destructor. When a thread ends its bins vanish
   with their blocks still marked free: they are neither listed nor reachable,
   the memory below the topmost of them never returns to the system, and the
   report at the end of a DEBUG build lists them as leaks although the program
   freed them. The comment in `mmemory.cpp:63-65` says that the caches are poured
   back at a thread's end and that leak detection relies on it,
   `allocator.cpp:275-276` that the report prints what was not freed, and the
   README (line 101) that a cache only delays reclaiming.
2. `second_start`: `heap_start_` is set once, at construction. When the heap
   shrinks below the place where the second allocator was constructed and grows
   again, the second one hands out blocks that its own `owns_address`, and so its
   `free`, rejects. `memory.cpp:24-25` says that all blocks requested later lie
   between `heap_start_` and the break, and `unittest_malloc.cpp:352` that the two
   allocators do not disturb each other. All users of the break are the library's,
   as lines 25-26 ask for.
3. `double_free`: a freed block that its predecessor absorbs keeps `inuse =
   true` in its old header, so a second `free` of the pointer passes the check.
   The comment at `unittest_malloc.cpp:199-201` says a second free is detected.
4. `size_huge`: `~(align_to - 1)` is computed in `unsigned` and zero-extended,
   so a total of 2^32 bytes or more loses its high half. The guard and its
   comment (`allocator.cpp:39-41`) look at the width of `size_t` only.

### Other things a reader of the code should know

These follow from the models; no run is kept for them.

* `free` reads `head.size` (`mmemory.cpp:95`) before the address is checked,
  although the comment at 97-99 says the check comes first. For a block the
  program owns this is harmless (`FlagTellsHolder`: it lies below the break). A
  second `free` of a block that went back to the system reads unmapped memory.
* With the override and a DEBUG build the first `malloc` that reaches the
  allocator waits for itself: it logs under the mutex, and constructing the
  logger allocates. In a release build it takes a failure under the mutex
  (`StuckAfterFailure`). That presumes that the logger's allocations are
  redirected, as `override.cpp` 7-8 says of all calls; allocations made inside a
  shared library are not.
* `total_alloc_bytes_` (`allocator.h` 66) is printed by `dump_stats` and never
  written.
* Over sbrk, `release_block` is given blocks that splits and merges made, which no
  `allocate` returned, against `memory.h` 35; SbrkMemory does not mind.

## 4. What is proved

The theorems about the heap hold for every heap size, set of threads, set of
requests, both strategies, both values of `BrkMayFail`, and any number of bins of
any length. They assume `MemoryAssumption`, `AllocatorAssumption` and
`TcacheAssumption`; the other modules' assumptions are named where they are used.

The allocator alone (`AllocatorSpec`):

| theorem | property |
|---|---|
| `HeapInvariant` | the inductive invariant `HeapInv` |
| `TypeCorrect` | `HeapTypeOK` |
| `TilesHeap` | `HeapTiled` |
| `SingleOwner` | `OneOwner` |
| `AlwaysCoalesced` | `Coalesced` |
| `ReleasesTop` | `TopReleased` |
| `ReclaimsAll` | `FullyReclaimed` |
| `ReleasesOnce` | `ReleaseOnce` |
| `FlagsTellOwner` | `FlagTellsOwner` |
| `LeavesHandedOut` | `HandedOutUntouched` |
| `ImplementsContract` | `AllocatorKeepsContract` |

**The argument.** The heap's shape is a statement about a set of blocks and a
function of sizes (`Tiled`), and four facts about it carry everything: cutting
a block, merging it with the next one, appending one, and dropping the last one
keep the heap tiled (the section Tilings of AllocatorProofs). What insertion and
removal do to the list's set of blocks is in its section Sequences.

`Coalesced` is not inductive: between taking a block from its caller and
listing it, `free` relies on what it has merged. `MergedInHand` records that:
after `MergeNext` nothing listed is behind `node`, after `MergePrev` nothing
listed ends at `node` either. That the searches miss nothing
(`NextPhysComplete`, `PrevPhysComplete`) needs tiling: no two blocks end at the
same address. With it, a block that is listed touches no listed block, and a
block given back leaves no listed block on top, so the release loop ends after
one round (`ReleasesOnce`). `ReclaimsAll` follows without induction: with no
block handed out and no `free` going on all blocks are listed, each of them
would end at a listed block or at the break, and both are excluded.

`FlagTellsOwner` needs one more invariant, `FlagInv`. It is apart from `HeapInv`
because the caches write flags: the lemmas that each action keeps `HeapInv` do
not mention `inuse` and can be used for MMemory as they stand.

For `ImplementsContract`, every step that hands out a block is a `Malloc` of the
contract (`HandingOut`), taking a block in `free` is a `Free`, and the rest are
stutters, because no header of a block that is handed out changes.

The public API with its caches (MMemory's `Spec`):

| theorem | property |
|---|---|
| `ApiInvariant` | the inductive invariant `ApiInv` |
| `ApiTypeCorrect` | `TypeOK` |
| `HasOneHolder` | `OneHolder` |
| `BinsAreExact` | `BinExact` |
| `ApiTilesHeap` | `HeapTiled` |
| `FlagsTellHolder` | `FlagTellsHolder` |
| `ApiReclaimsAll` | `ApiReclaims` |
| `LeavesLive` | `LiveUntouched` |
| `ApiImplementsContract` | `ApiKeepsContract` |

**The argument.** `ApiInv` is `HeapInv` (taken over from the allocator, because
none of it mentions `inuse`), `TypeOK`, `OneHolder`, `BinExact`, and three parts
that make it inductive. `CallShape` says what the locals of a call mean together:
a block is on its way to the allocator exactly when the thread is about to take
the lock, and `pending` belongs to the bin that is being flushed.
`HolderFlags` says whose blocks are marked in use, `ListedFree` that listed ones
are not. An action is either a step of the allocator, for which the lemmas of
AllocatorProofs hold as they stand, or moves one block from one holder to another
(`HeldGains`, `HeldLoses` and the lemmas on bins). That the bin has room when
`FlushDone` pushes the pending block, so that ignoring the result of `push` loses
nothing, is `BinExact` and the emptiness of the flushed bin. For
`ApiImplementsContract` each action adds an area, ends one, resizes or moves one,
or leaves all as they are (`LiveGains`, `LiveLoses`, `LiveStays`, `LiveMoves`);
that a block from the cache is apart from all other areas is tiling and
`OneHolder`, that it fits is `BinExact`.

The locks behind a call (LogLocks' `Spec`, in LogProofs):

| theorem | property |
|---|---|
| `LogInvariant` | the inductive invariant `LogInv` |
| `TypeCorrect` | `TypeOK`, with the depth of two |
| `LocksHeldInside` | `HeldInside` |
| `NoThreadsInACircle` | `NoWaitCycle` |
| `StuckOnlyAfterFailure` | `StuckAfterFailure` |

**The argument.** Neither who holds a lock nor who waits for whom is inductive by
itself, because a stack may be of any depth once malloc is redirected. `LogInv`
says which point may be right above which (`Chain`): above a call that holds the
mutex only a point of the logger, and above a point of the logger only a call,
and only with the override. And it says that the points that hold a lock occur at
most once, in the stack of the lock's holder (`Owner`). A step replaces the
innermost point (`Moves`) and so keeps, takes or gives back each of the three
locks (`OwnerKept`, `OwnerTaken`, `OwnerGiven`). Without the override nothing is
above a point of the logger: the holder of the sink or of the guard is at work
and waits for nobody, so a circle would have to close over the mutex alone, whose
holder is never at `call` (`NoThreadsInACircle`). With it, in a release build,
a holder at `inside` is at work too; what remains is a holder at `leave`.

What is in the memory (UserData's `DataSpec`, in ExtendedApiProofs):

| theorem | property |
|---|---|
| `DataInvariant` | the inductive invariant `DataInv` |
| `DataStaysIntact` | `DataIntact` |
| `LibraryStaysIntact` | `LibraryIntact` |

**The argument.** A step of UserData is a step of the API that also writes, so
`ApiInv` holds. Two facts join the two properties in `DataInv`: a block is as long
as it was asked for (`AskedFits`, which the API takes from its contract,
`ContractFits`), so `Fill` stays inside it; and a promise ends inside its block
(`PromiseFits`). `Apart` says what tiling and `OneHolder` mean for units: the user
areas of two blocks share none, and none of them is a header. `DataKept` looks at
every unit a step writes: a header of the next state, or the link of a block that
is listed or cached before or after it, hence not of one the program keeps. The one
delicate case of `LibraryKept` is a link that is written where a header has just come
to be: a split puts the new header behind at least one unit of the block in front,
which is where that block's link was (`NoHeaderOnLink`). `Overlay` then adds what
`memset`, `memcpy` and the program write to one block. No assumption on the contents
is used, not even that a header differs from a link.

The DEBUG build (Tracker's `DebugSpec`, in ExtendedApiProofs; assumes
`TrackerAssumption` too):

| theorem | property |
|---|---|
| `DebugInvariant` | the inductive invariant `DebugInv` |
| `TracksExactly` | `TableExact` |
| `CountsExactly` | `CountersExact` |
| `ReportsEveryLeak` | `LeaksReported` |

**The argument.** `TableOf(s, B, d, sz)` relates any table, set of blocks, set of
dropped blocks and sizes; `EntryAdded`, `EntryRemoved` and `TableStands` say what an
entry at the end, the move of the last entry into a gap, and a step that resizes
no block of B do to it. A step of the API hands out one block, takes one back or
neither (`OneBlockMoves`), and resizes none that stays handed out; the table follows
that, not the single actions. The counters are known only modulo their range: their difference is the heap's length
or short of it by one range (`Difference`), because the heap fits into the range
(`TrackerAssumption`), and a step changes one of them by less than a range. The
report is the table at the end of the process, which waits until no call is going
on; then the allocator's blocks are those of the program and of the caches
(`ApiInv`). So `DebugInv` can say exactly what the report is (`ReportIs`): what the
program and the caches hold, but for the dropped blocks. `LeaksReported` takes
from it what the documentation promises and the code keeps; the caches' part is
finding 1.

The list (HeaderList's `Spec`, in HeaderListProofs, for any set of nodes and any
sizes; assumes `ListAssumption`):

| theorem | property |
|---|---|
| `ListInvariant` | the inductive invariant `ListInv` |
| `ListTypeCorrect` | `TypeOK` |
| `IsRing` | `Ring` |
| `ListImplementsSequence` | `ImplementsList` |
| `FindsExactly` | `QueriesExact` |
| `BestFitsExactly` | `BestFitExact` |

**The argument.** `ListInv` says that some sequence is spelled out by the links
(`IsListing`): link by link, without following any chain. Each operation maps such
a sequence to the next one (`InsertSpells`, `RemoveSpells`), and `Ring` can be read
off it. Only then do the recursive functions come in. A recursive function is a
`CHOOSE` in TLA+, and nothing follows from its equation until a solution is known
to exist. So each is used in three steps: a solution is built from the sequence,
the equation of the function follows, and an induction shows that the function is
that solution. Induction is over sets of numbers (`LeastNat`, from the
well-foundedness of `<`), which needs no operator as a parameter. That gives
`Listing = s` for the one sequence there is (`Spelled`), hence the refinement; the
first match for a scan; and for `BestOf`, that after each turn of the loop it holds
the first of the smallest nodes that fit among those already seen (`Leads`).

The SMT backend takes the equation of a recursive function for true without asking
for a solution. Therefore no leaf that SMT may try expands such a definition:
those leaves are left to Zenon, after the solution has been given.

The arithmetic (SizeArith's `Spec`, in SizeArithProofs, for any widths; assumes
`SizeAssumption` and `PowersAssumption`):

| theorem | property |
|---|---|
| `GetsLeastBlock` | `LeastBlock`, for `OrdinarySizes` |
| `FindsTheSameBin` | `BinsAgree`, for `OrdinarySizes` |
| `RejectsExactly` | `CallocExact` |

**The argument.** `OrdinarySizes` is what finding 4 leaves: the largest size asked
for fits an `unsigned` together with the header and the alignment (2^32 - 32 bytes
on a 64-bit machine, 224 in `size_ordinary`). Then neither width wraps, the
mask takes off exactly the remainder, and the user area is the least multiple of
`AlignTo` that holds the request (`OrdinaryUserSize`). `CallocExact` has no such
condition: `n > t \div s` is `n * s > t` (`Fits`) for all numbers. The provers have
no definition of `^`; `PowersAssumption` states the three facts of arithmetic about
the two powers that are needed, and the runs evaluate it.

Two allocators on one break (TwoAllocators' `Spec`, in TwoAllocatorsProofs; assumes
`SharedAssumption`):

| theorem | property |
|---|---|
| `TwoInvariant` | the inductive invariant `TwoInv` |
| `TilesJointly` | `JointlyTiled` |
| `LeavesOthers` | `OthersUntouched` |
| `StaysUnderBreak` | `KeepsUnderBreak` |

**The argument.** `HeapInv` does not hold of either allocator: the other one's
blocks lie between its own. `Beside(O)`, in AllocatorProofs, is what does hold of
one allocator when any other blocks `O` are in the same memory: together they tile
it. Every action keeps `Beside(O)` and writes no header inside a block of `O` or a
block still handed out (`StepBeside`), because what `free` merges is in its own list
and what it gives back ends at the real break. Seen from the other side such a step
only changes which blocks the others are (`OthersBeside`). The two lemmas are used
once with each allocator in the leading part, through two instances of
AllocatorProofs, and construction is a third case (`ConstructBeside`).

**Only model-checked** are the liveness properties (`LockReleased`, `FreeReturns` and
`CallsReturn`), which are out of the prover's reach. The four properties of the
violation runs do not hold.

## 5. Not modelled

* The branch of `free` for a provider with random release (`allocator.cpp`
  163-169): the repository has no such provider, SbrkMemory says it is not one.
* A second `free` of memory that went back to the system: it reads an unmapped
  header.
* `dump_stats` and `Tcache::count` only read.
* Message texts and levels; which of several messages comes first.
* Static destruction beyond the report of `~Allocator`: what the destructor of the
  provider prints is `CountersExact`.
* Tests, benchmark and build files; the tests are quoted and one of them is the
  setting of TwoAllocators.

## 6. Plan

All parts that the repository's own code can reach are modelled but for the
above, and every safety property of the passing runs is proved.
What could follow:

1. **The link between the layers.** Allocator's free list is a sequence and
   HeaderList implements one; the composition, Allocator over HeaderList's links
   in place of the sequence, is stated nowhere as one refinement.
2. **SizeArith and Allocator.** That requests arrive as whole units is
   `OrdinaryUserSize`; the allocator's `Request` could be derived from it.
