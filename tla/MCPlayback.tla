----------------------------- MODULE MCPlayback -----------------------------
(***************************************************************************)
(* Instances of Playback for TLC.                                          *)
(***************************************************************************)
EXTENDS Playback, TLC

CONSTANTS d1, d2, v1, v2, t1, t2

TaskSymmetry == Permutations(Tasks)

=============================================================================
