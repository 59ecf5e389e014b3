------------------------------ MODULE EntryOnce ------------------------------
(***************************************************************************)
(* What the execution service promises about one client order id, whatever *)
(* threads, crashes and store errors happen underneath: at any time at     *)
(* most one request holds the right to send the order, the right is given  *)
(* out once in the life of the databases, it is spent by the first         *)
(* order_send, and once it has been given up (an error, a crash, a         *)
(* restart) nobody ever holds it again.  "An ambiguous operation remains   *)
(* non-retryable" and "Do not resend after a timeout, pending state, lost  *)
(* connection or crash" (OPERATOR_RUNBOOK.md) are this specification.      *)
(***************************************************************************)
EXTENDS Naturals

CONSTANT Clients        \* client order ids

VARIABLES
  right,                \* right[c]: has the right to send c been given out?
  sent                  \* sent[c]: how many times c went to the terminal

vars == <<right, sent>>

Init ==
  /\ right = [c \in Clients |-> "unclaimed"]
  /\ sent = [c \in Clients |-> 0]

(* A request reserves the client order id and becomes its only owner. *)
Own(c) ==
  /\ right[c] = "unclaimed"
  /\ right' = [right EXCEPT ![c] = "held"]
  /\ UNCHANGED sent

(* The owner hands the order to the terminal, which spends the right. *)
Send(c) ==
  /\ right[c] = "held"
  /\ right' = [right EXCEPT ![c] = "spent"]
  /\ sent' = [sent EXCEPT ![c] = @ + 1]

(* The owners of some orders give up or disappear.  A request can also     *)
(* reserve an id it is not allowed to send, which spends it at once.       *)
GiveUp ==
  \E C \in SUBSET Clients :
    /\ right' = [c \in Clients |-> IF c \in C THEN "spent" ELSE right[c]]
    /\ UNCHANGED sent

Next == GiveUp \/ \E c \in Clients : Own(c) \/ Send(c)

Spec == Init /\ [][Next]_vars
=============================================================================
