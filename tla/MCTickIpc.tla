------------------------------ MODULE MCTickIpc ------------------------------
(* Constants of the small instances of TickIpc. *)
EXTENDS TickIpc

CONSTANTS s1, s2, k1, k2
=============================================================================
