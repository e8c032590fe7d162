------------------------------ MODULE MCMMemory ------------------------------
(***************************************************************************)
(* MMemory on a small heap, for TLC.                                       *)
(***************************************************************************)
EXTENDS MMemory

\* Threads differ only in their name.
ThreadSymmetry == Permutations(Thread)

=============================================================================
