-------------------------- MODULE MCAccountSession --------------------------
(* Constants of the small instances of AccountSession. *)
EXTENDS AccountSession, TLC

CONSTANTS r1, m1, w1, h1, a1, a2, a3, a4

(* the history worker; and all the threads that use the terminal *)
HistoryRole == h1 :> "history"
AllRoles ==
  (r1 :> "request") @@ (m1 :> "monitor") @@ (w1 :> "ticks") @@ (h1 :> "history")
=============================================================================
