----------------------------- MODULE MCAllocator -----------------------------
(***************************************************************************)
(* Allocator on a small heap, for TLC.                                     *)
(***************************************************************************)
EXTENDS Allocator

\* Threads differ only in their name.
ThreadSymmetry == Permutations(Thread)

=============================================================================
