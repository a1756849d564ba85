----------------------------- MODULE MCObjects -----------------------------
(* An instance of Objects for TLC.                                         *)
EXTENDS Objects, TLC

Symmetric == Permutations(Procs) \cup Permutations(Inodes)
=============================================================================
