------------------------------ MODULE MCRelay -------------------------------
(* Small instances of Relay for TLC.                                       *)
EXTENDS Relay, TLC

CONSTANTS c1, c2, e1

First == e1 :> c1
=============================================================================
