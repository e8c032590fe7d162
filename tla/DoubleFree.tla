----------------------------- MODULE DoubleFree -----------------------------
(***************************************************************************)
(* The public API with a program that may free a block twice.  The history *)
(* variable freed keeps the pointers the program freed, as long as the     *)
(* memory they point to has not been handed out again.                     *)
(***************************************************************************)
EXTENDS MMemory

VARIABLE freed

againVars == <<vars, freed>>

AgainInit == Init /\ freed = {}

\* What a call frees is remembered; what it hands out is the program's again.
Remember ==
    freed' = {a \in freed \union (live \ live') :
                \A b \in live' \ live : a < b \/ a >= b + Total(size'[b])}

\* The same call of free as for a block of the program.  It begins with a read
\* of the header (mmemory.cpp 95): above the break that memory is gone and the
\* read may end the process, which is not modelled.
FreeAgain(t, a) ==
    /\ a < sysBreak
    /\ FreeCached(t, a) \/ FreeFlushes(t, a) \/ FreeLarge(t, a)
    /\ UNCHANGED freed

AgainNext ==
    \/ Next /\ Remember
    \/ \E t \in Thread, a \in freed : FreeAgain(t, a)

AgainSpec == AgainInit /\ [][AgainNext]_againVars

-----------------------------------------------------------------------------
(* Properties                                                              *)

\* A second free of a pointer is detected by the address and the inuse flag
\* and ignored (unittest_malloc.cpp:199-201).
SecondFreeDetected ==
    (\A t \in Thread : pc[t] \in {"idle", "exited"}) => \A a \in freed : ~ Accepts(a)

=============================================================================
