----------------------------- MODULE MCStartup ------------------------------
(* A small instance of Startup for TLC: everybody is started in the root   *)
(* of a source tree or in a directory below it.                            *)
EXTENDS Startup, TLC

CONSTANTS s1, s2, c1, e1, p1, p2, root, sub

MCPath == root :> <<root>> @@ sub :> <<sub, root>>
Symmetry == Permutations(Ports)
=============================================================================
