--------------------------- MODULE MCScopedExits ---------------------------
(* Constants of the small instance of ScopedExits. *)
EXTENDS ScopedExits

CONSTANTS t1, t2, a1, a2
=============================================================================
