----------------------------- MODULE MCTracker -----------------------------
(***************************************************************************)
(* Tracker on a small heap, for TLC.                                       *)
(***************************************************************************)
EXTENDS Tracker

\* Threads differ only in their name.
ThreadSymmetry == Permutations(Thread)

=============================================================================
