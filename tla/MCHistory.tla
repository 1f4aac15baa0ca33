------------------------------ MODULE MCHistory -----------------------------
(* Small instances of History for TLC.                                     *)
EXTENDS History, TLC

CONSTANTS s1, s2, t1, t2

Symmetry == Permutations(Servers) \cup Permutations(Targets)
=============================================================================
