----------------------------- MODULE MCUserData -----------------------------
(***************************************************************************)
(* UserData on a small heap, for TLC.                                      *)
(***************************************************************************)
EXTENDS UserData

\* Threads differ only in their name.
ThreadSymmetry == Permutations(Thread)

=============================================================================
