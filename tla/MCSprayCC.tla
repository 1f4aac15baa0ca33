----------------------------- MODULE MCSprayCC -----------------------------
(* Small instances of SprayCC for TLC.                                     *)
EXTENDS SprayCCService, TLC

CONSTANTS c1, c2, c3, e1, e2, e3

NoHistory == [c \in {} |-> 0]
LongFirst == (c1 :> 400) @@ (c2 :> 20)      \* c1 took longest last time
Symmetry == Permutations(Clients) \cup Permutations(Execs)
ExecSymmetry == Permutations(Execs)
=============================================================================
