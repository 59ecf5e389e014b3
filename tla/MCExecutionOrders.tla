------------------------- MODULE MCExecutionOrders -------------------------
(* Constants of the small instances of ExecutionOrders. *)
EXTENDS ExecutionOrders, TLC

CONSTANTS t1, t2, t3, c1, c2, p1, p2, g1, g2, a1, a2

Sym == Permutations(Threads)

(* sound where the authorizations differ only in name *)
SymGrants == Permutations(Threads) \cup Permutations(Grants)

(* one client order id, two payloads under it *)
OneClientOf == (p1 :> c1) @@ (p2 :> c1)
SinglePayload == p1 :> c1
OneGrantClient == g1 :> c1
(* two authorizations for the same client order id *)
SharedGrantClient == (g1 :> c1) @@ (g2 :> c1)
(* two client order ids on one symbol, one authorization each *)
TwoClientOf == (p1 :> c1) @@ (p2 :> c2)
TwoGrantClient == (g1 :> c1) @@ (g2 :> c2)

OpensAtZero == [g \in Grants |-> 0]
OpensAtOne == [g \in Grants |-> 1]
ClosesAtOne == [g \in Grants |-> 1]
ClosesAtTwo == [g \in Grants |-> 2]
=============================================================================
