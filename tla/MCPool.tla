------------------------------- MODULE MCPool -------------------------------
(* Instances of Pool for TLC.                                              *)
EXTENDS Pool, TLC

Symmetry == Permutations(Procs) \cup Permutations(Res)
=============================================================================
