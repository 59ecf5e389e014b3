----------------------- MODULE MCHistoryPublication -----------------------
(* Constants of the small instances of HistoryPublication. *)
EXTENDS HistoryPublication, TLC

CONSTANTS w1, w2, a1, a2, a3, n1, n2

(* The terminal is logged in at first to an account with enough history.   *)
PublicationInit == Init /\ terminal = a1

PublicationSpec ==
  /\ PublicationInit /\ [][Next]_vars
  /\ \A w \in Workers : WF_vars(Refresh(w)) /\ WF_vars(Execute(w))

(* two accounts of one broker name, one of another *)
TwoNames == (a1 :> n1) @@ (a2 :> n1) @@ (a3 :> n2)
=============================================================================
