------------------------------ MODULE LogLocks ------------------------------
(***************************************************************************)
(* The locks behind an API call: the allocator's mutex, the guard of the   *)
(* function-local static in get_logger (src/src/log.cpp) and the mutex of  *)
(* the logger's sink (a spdlog *_mt logger).  Failures are logged, some of *)
(* them while the allocator's mutex is held.                               *)
(*                                                                         *)
(* The logger allocates memory.  When the library is linked with --wrap    *)
(* (src/src/override.cpp) these calls come back to the library.            *)
(*                                                                         *)
(* A thread is a stack of program points, innermost last.  The caches are  *)
(* left out: what is modelled are the calls that reach the allocator.      *)
(*                                                                         *)
(* The logger frees only what the library gave it, and free never rejects  *)
(* such a block (FlagTellsHolder of MMemory), so only the program's own    *)
(* calls end in a rejection by the cache's free.                           *)
(***************************************************************************)
EXTENDS Naturals, SequencesExt

CONSTANTS
    Thread,
    NoThread    \* nobody

ASSUME LogAssumption == NoThread \notin Thread

VARIABLES
    build,      \* how the library was built: with DEBUG, with the override
    stack,      \* the program points of each thread
    locker,     \* who holds the allocator's mutex
    guard,      \* who initialises the logger
    ready,      \* the logger is initialised
    sink        \* who holds the sink's mutex

vars == <<build, stack, locker, guard, ready, sink>>

Build == [debug : BOOLEAN, override : BOOLEAN]

Point == {"call", "inside", "leave", "unlocked",
          "logger", "init", "built", "sink", "write", "written"}

Init ==
    /\ build \in Build
    /\ stack = [t \in Thread |-> <<>>]
    /\ locker = NoThread /\ guard = NoThread /\ sink = NoThread
    /\ ready = FALSE

-----------------------------------------------------------------------------

At(t, point) == stack[t] # <<>> /\ Last(stack[t]) = point

\* The innermost point of t becomes the points of path.
Continue(t, path) ==
    /\ stack' = [stack EXCEPT ![t] = Front(@) \o path]
    /\ UNCHANGED build

\* Faulty variants: the logger always uses the library; a failure returns, or
\* malloc that extended the heap, without unlocking; all builds log under the
\* mutex.
Allocating_ByLibrary(t, point) ==
    Continue(t, <<point>>) \/ Continue(t, <<point, "call">>)

UnlockFailed_Forgotten(t) ==
    /\ At(t, "leave")
    /\ Continue(t, <<>>)
    /\ UNCHANGED <<locker, guard, ready, sink>>

UnlockExtended_Forgotten(t) ==
    /\ At(t, "inside")
    /\ Continue(t, IF build.debug THEN <<"unlocked", "logger">> ELSE <<>>)
    /\ UNCHANGED <<locker, guard, ready, sink>>

Lock_Announces(t) ==
    /\ At(t, "call")
    /\ locker = NoThread
    /\ locker' = t
    /\ Continue(t, <<"inside", "logger">>)
    /\ UNCHANGED <<guard, ready, sink>>

\* The logger goes on to point, and may need memory for that: a call of the
\* library if malloc is redirected and the cache cannot serve it.
Allocating(t, point) ==
    \/ Continue(t, <<point>>)
    \/ build.override /\ Continue(t, <<point, "call">>)

\* The program calls malloc or free, and the call needs the allocator.
Call(t) ==
    /\ stack[t] = <<>>
    /\ stack' = [stack EXCEPT ![t] = <<"call">>]
    /\ UNCHANGED <<build, locker, guard, ready, sink>>

\* The program's request is too large, its product overflows, or the cache's
\* free rejects its pointer: logged without the mutex.
Complain(t) ==
    /\ stack[t] = <<>>
    /\ stack' = [stack EXCEPT ![t] = <<"logger">>]
    /\ UNCHANGED <<build, locker, guard, ready, sink>>

\* A DEBUG build logs what it is going to do.
Lock(t) ==
    /\ At(t, "call")
    /\ locker = NoThread
    /\ locker' = t
    /\ Continue(t, IF build.debug THEN <<"inside", "logger">> ELSE <<"inside">>)
    /\ UNCHANGED <<guard, ready, sink>>

\* malloc got no memory, or free rejects the pointer: logged under the mutex.
\* A DEBUG build also logs when malloc found a listed block.
Fail(t) ==
    /\ At(t, "inside")
    /\ Continue(t, <<"leave", "logger">>)
    /\ UNCHANGED <<locker, guard, ready, sink>>

\* malloc that took a block from the list, and free.
Unlock(t) ==
    /\ At(t, "inside")
    /\ locker' = NoThread
    /\ Continue(t, <<>>)
    /\ UNCHANGED <<guard, ready, sink>>

\* malloc that extended the heap: a DEBUG build logs that after it unlocked.
UnlockExtended(t) ==
    /\ At(t, "inside")
    /\ locker' = NoThread
    /\ Continue(t, IF build.debug THEN <<"unlocked", "logger">> ELSE <<>>)
    /\ UNCHANGED <<guard, ready, sink>>

\* What had to be logged first has been logged.
UnlockFailed(t) ==
    /\ At(t, "leave")
    /\ locker' = NoThread
    /\ Continue(t, <<>>)
    /\ UNCHANGED <<guard, ready, sink>>

\* The call that unlocked before it logged returns.
Finish(t) ==
    /\ At(t, "unlocked")
    /\ Continue(t, <<>>)
    /\ UNCHANGED <<locker, guard, ready, sink>>

\* get_logger: the first caller constructs the logger, callers that come
\* meanwhile wait for it.
GetLogger(t) ==
    /\ At(t, "logger")
    /\ \/ ready /\ Continue(t, <<"sink">>) /\ UNCHANGED guard
       \/ ~ ready /\ guard = NoThread /\ guard' = t /\ Continue(t, <<"init">>)
    /\ UNCHANGED <<locker, ready, sink>>

\* The logger and its sink are allocated.
Construct(t) ==
    /\ At(t, "init")
    /\ Allocating(t, "built")
    /\ UNCHANGED <<locker, guard, ready, sink>>

Constructed(t) ==
    /\ At(t, "built")
    /\ ready' = TRUE
    /\ guard' = NoThread
    /\ Continue(t, <<"sink">>)
    /\ UNCHANGED <<locker, sink>>

TakeSink(t) ==
    /\ At(t, "sink")
    /\ sink = NoThread
    /\ sink' = t
    /\ Continue(t, <<"write">>)
    /\ UNCHANGED <<locker, guard, ready>>

\* The message is formatted; a long one needs memory.
Write(t) ==
    /\ At(t, "write")
    /\ Allocating(t, "written")
    /\ UNCHANGED <<locker, guard, ready, sink>>

Written(t) ==
    /\ At(t, "written")
    /\ sink' = NoThread
    /\ Continue(t, <<>>)
    /\ UNCHANGED <<locker, guard, ready>>

\* What a thread waits for, and what it does on its own.
Acquire(t) == Lock(t) \/ GetLogger(t) \/ TakeSink(t)
Proceed(t) ==
    \/ Unlock(t) \/ UnlockExtended(t) \/ UnlockFailed(t) \/ Finish(t)
    \/ Construct(t) \/ Constructed(t) \/ Write(t) \/ Written(t)

Next ==
    \E t \in Thread :
        Call(t) \/ Complain(t) \/ Fail(t) \/ Acquire(t) \/ Proceed(t)

Spec == Init /\ [][Next]_vars

\* Threads are scheduled, and a lock that is released again and again is one
\* day got by each of its waiters (an assumption on the mutexes: POSIX makes
\* no such promise).
FairSpec ==
    /\ Spec
    /\ \A t \in Thread :
         /\ WF_vars(Proceed(t))
         /\ SF_vars(Lock(t)) /\ SF_vars(GetLogger(t)) /\ SF_vars(TakeSink(t))

-----------------------------------------------------------------------------
(* Properties                                                              *)

\* Every variable has its type.  Unless malloc is redirected the logger never
\* comes back to the library, so no call is more than two levels deep.
TypeOK ==
    /\ build \in Build
    /\ stack \in [Thread -> Seq(Point)]
    /\ ~ build.override => \A t \in Thread : Len(stack[t]) =< 2
    /\ locker \in Thread \union {NoThread}
    /\ guard \in Thread \union {NoThread}
    /\ sink \in Thread \union {NoThread}
    /\ ready \in BOOLEAN

Passes(t, points) == Range(stack[t]) \intersect points # {}

\* Each lock is held exactly while its holder is between taking it and giving
\* it back, on every way out: malloc that fails and free that rejects unlock
\* after they logged (allocator.cpp 86-88, 127-129), malloc that extended the
\* heap before it logs (96-97); and only one thread constructs the logger.
HeldInside ==
    \A t \in Thread :
        /\ locker = t <=> Passes(t, {"inside", "leave"})
        /\ guard = t  <=> Passes(t, {"init", "built"})
        /\ sink = t   <=> Passes(t, {"write", "written"})
        /\ Passes(t, {"init", "built"}) => ~ ready

\* The thread that t waits for.
WaitsFor(t) ==
    CASE At(t, "call")             -> locker
      [] At(t, "logger") /\ ~ ready -> guard
      [] At(t, "sink")             -> sink
      [] OTHER                     -> NoThread

\* These threads wait for each other in a circle, or one for itself.
Stuck(S) == S # {} /\ \A t \in S : WaitsFor(t) \in S

\* The mutex, the guard and the sink are taken in this order (allocator.cpp
\* 86, 127; log.cpp 20), so no threads wait for each other in a circle.
NoWaitCycle ==
    ~ build.override => \A S \in SUBSET Thread : ~ Stuck(S)

\* With the redirection (override.cpp 21) they may: what the logger allocates
\* asks for the mutex that its own caller holds, in a DEBUG build on every call
\* (allocator.cpp 51).  In other builds messages logged without the mutex do no
\* harm: there is always a thread that failed while it held the mutex and logs
\* that before it unlocks.
StuckAfterFailure ==
    ~ build.debug =>
        \A S \in SUBSET Thread : Stuck(S) => \E t \in S : Passes(t, {"leave"})

\* Without the redirection each call returns, also when it fails and has to
\* log that.
CallsReturn ==
    \A t \in Thread : ~ build.override /\ stack[t] # <<>> ~> stack[t] = <<>>

=============================================================================
