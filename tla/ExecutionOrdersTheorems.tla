---------------------- MODULE ExecutionOrdersTheorems ----------------------
(***************************************************************************)
(* What follows from the invariant of the entry path: one send per client  *)
(* order, rows that agree with the broker, grants bound to their own       *)
(* order, authorized sends, final kills, answers that agree, unknown       *)
(* outcomes that end in a kill, and the refinement of EntryOnce.           *)
(***************************************************************************)
EXTENDS ExecutionOrdersProofs

-----------------------------------------------------------------------------
(* What no step does, whoever takes it. *)

LEMMA OnlySenderSends ==
  ASSUME [Next]_vars
  PROVE  UNCHANGED sends \/ \E t \in Threads : OrderSend(t)
<1> USE DEF broker, vars
<1>1. ASSUME NEW t \in Threads, Entry(t), ~OrderSend(t) PROVE UNCHANGED sends
  BY <1>1 DEF Entry, Lookup, ClaimEntry, Reserve, Replay, CheckScope,
     RefusedBeforeSend, BrokenBeforeSend, EnterSend, Authorize,
     OrderSendReturns, OrderSendAmbiguous, FinishSucceeded, BindOrder,
     KillGrant, Settle, SettleUnknown, KillLast, StoreFailsEarly
<1>2. ASSUME NEW t \in Threads, Recovery(t) \/ Arrive(t)
      PROVE  UNCHANGED sends
  BY <1>2 DEF Recovery, Arrive, FindOrder, Resolve, Capture, GetByClient
<1>3. CASE Environment
  BY <1>3 DEF Environment, Provision, KillEntry, BrokerDecides,
     PositionCloses, SwitchAccount, ConnectionLost, Tick, Restart
<1> QED BY <1>1, <1>2, <1>3 DEF Next

LEMMA RowsStay ==
  ASSUME TypeInv, [Next]_vars, NEW c \in Clients, rec[c].state # "absent"
  PROVE  rec'[c].state # "absent"
<1> USE DEF stores, vars
<1>a. rec \in [Clients -> Record] BY DEF TypeInv, TypeOK, StoresOK
<1>b. ASSUME NEW d, NEW s, s # "absent", Finish(d, s)
      PROVE  rec'[c].state # "absent"
  BY <1>a, <1>b DEF Finish, Record
<1>1. ASSUME NEW t \in Threads, Entry(t) PROVE rec'[c].state # "absent"
  <2>1. CASE Reserve(t)
    <3>1. rec'[c] = rec[c]
      BY <1>a, <2>1, Zenon DEF Reserve
    <3> QED BY <3>1
  <2>2. CASE Settle(t)
    BY <1>b, <2>2 DEF Settle, FinishRaises, TypeInv, NoteFits, Fits
  <2>3. CASE FinishSucceeded(t) \/ SettleUnknown(t)
    BY <1>b, <2>3 DEF FinishSucceeded, SettleUnknown, FinishRaises
  <2>4. CASE ~(Reserve(t) \/ Settle(t) \/ FinishSucceeded(t) \/ SettleUnknown(t))
    <3>1. UNCHANGED rec
      BY <1>1, <2>4 DEF Entry, Lookup, ClaimEntry, Replay, CheckScope,
         RefusedBeforeSend, BrokenBeforeSend, EnterSend, Authorize,
         OrderSend, OrderSendReturns, OrderSendAmbiguous, BindOrder,
         KillGrant, KillLast, StoreFailsEarly
    <3> QED BY <3>1
  <2> QED BY <2>1, <2>2, <2>3, <2>4
<1>2. ASSUME NEW t \in Threads, Recovery(t) \/ Arrive(t)
      PROVE  rec'[c].state # "absent"
  <2>1. CASE Resolve(t)
    BY <1>b, <2>1 DEF Resolve, FinishRaises, TypeInv, NoteFits, Fits
  <2>2. CASE FindOrder(t) \/ Arrive(t)
    <3>1. UNCHANGED rec BY <2>2 DEF Arrive, FindOrder, Capture, GetByClient
    <3> QED BY <3>1
  <2> QED BY <1>2, <2>1, <2>2 DEF Recovery
<1>3. CASE Environment
  <2>1. UNCHANGED rec
    BY <1>3 DEF Environment, Provision, KillEntry, BrokerDecides,
       PositionCloses, SwitchAccount, ConnectionLost, Tick, Restart
  <2> QED BY <2>1
<1> QED BY <1>1, <1>2, <1>3 DEF Next

LEMMA KilledStays ==
  ASSUME TypeInv, [Next]_vars, NEW g \in Grants, grant[g].killed
  PROVE  grant'[g].killed
<1> USE DEF stores, vars
<1>a. grant \in [Grants -> Grant] BY DEF TypeInv, TypeOK, StoresOK
<1>b. ASSUME NEW h, DisableEntry(h) PROVE grant'[g].killed
  BY <1>a, <1>b DEF DisableEntry, Grant
<1>1. ASSUME NEW t \in Threads, Entry(t) PROVE grant'[g].killed
  <2>1. CASE ClaimEntry(t)
    <3>1. \/ UNCHANGED grant
          \/ grant' = [grant EXCEPT ![req[t].grant].claim = req[t].payload]
      BY <2>1, Zenon DEF ClaimEntry
    <3> QED BY <1>a, <3>1 DEF Grant
  <2>2. CASE BindOrder(t)
    <3>1. \/ UNCHANGED grant
          \/ grant' = [grant EXCEPT ![req[t].grant].order = req[t].client]
      BY <2>2, Zenon DEF BindOrder
    <3> QED BY <1>a, <3>1 DEF Grant
  <2>3. CASE KillGrant(t) \/ KillLast(t)
    BY <1>b, <2>3 DEF KillGrant, KillLast
  <2>4. CASE ~(ClaimEntry(t) \/ BindOrder(t) \/ KillGrant(t) \/ KillLast(t))
    <3>1. UNCHANGED grant
      BY <1>1, <2>4 DEF Entry, Lookup, Reserve, Replay, CheckScope,
         RefusedBeforeSend, BrokenBeforeSend, EnterSend, Authorize,
         OrderSend, OrderSendReturns, OrderSendAmbiguous, FinishSucceeded,
         Settle, SettleUnknown, StoreFailsEarly
    <3> QED BY <3>1
  <2> QED BY <2>1, <2>2, <2>3, <2>4
<1>2. ASSUME NEW t \in Threads, Recovery(t) \/ Arrive(t)
      PROVE  grant'[g].killed
  BY <1>2 DEF Recovery, Arrive, FindOrder, Resolve, Capture, GetByClient
<1>3. ASSUME NEW h \in Grants, Provision(h) \/ KillEntry(h)
      PROVE  grant'[g].killed
  BY <1>a, <1>b, <1>3 DEF Provision, KillEntry, Grant
<1>4. CASE UNCHANGED grant BY <1>4
<1>5. Environment =>
        UNCHANGED grant \/ \E h \in Grants : Provision(h) \/ KillEntry(h)
  BY DEF Environment, BrokerDecides, PositionCloses, SwitchAccount,
     ConnectionLost, Tick, Restart
<1> QED BY <1>1, <1>2, <1>3, <1>4, <1>5 DEF Next

(* A thread owns an order only by reserving it, and reaches order_send     *)
(* only through the check of its grant under the client lock.              *)
OwnerCame(u) ==
  \/ /\ pc[u] \in OwnerSteps /\ req'[u] = req[u]
     /\ pc'[u] = "invoke" =>
          pc[u] = "invoke" \/ ValidateEntry(req[u].grant, u)
  \/ /\ Reserve(u) /\ pc'[u] = "scope" /\ rec[req[u].client].state = "absent"

LEMMA OthersStay ==
  ASSUME TypeOK, NEW t \in Threads, Entry(t) \/ Recovery(t) \/ Arrive(t)
  PROVE  \A u \in Threads \ {t} : pc'[u] = pc[u] /\ req'[u] = req[u]
<1>1. \A u \in Threads \ {t} : req'[u] = req[u]
  <2>1. CASE Arrive(t)
    BY <2>1 DEF Arrive, Capture, GetByClient, TypeOK, ThreadsOK
  <2>2. CASE Entry(t) \/ Recovery(t)
    <3>1. UNCHANGED req
      BY <2>2 DEF Entry, Recovery, Lookup, ClaimEntry, Reserve, Replay,
         CheckScope, RefusedBeforeSend, BrokenBeforeSend, EnterSend,
         Authorize, OrderSend, OrderSendReturns, OrderSendAmbiguous,
         FinishSucceeded, BindOrder, KillGrant, Settle, SettleUnknown,
         KillLast, StoreFailsEarly, FindOrder, Resolve
    <3> QED BY <3>1
  <2> QED BY <2>1, <2>2
<1>2. \E l : Goto(t, l)
  <2>1. CASE Arrive(t)
    BY <2>1, Zenon DEF Arrive, Capture, GetByClient, Answer
  <2>2. CASE Recovery(t)
    BY <2>2, Zenon DEF Recovery, FindOrder, Resolve, Answer
  <2>3. CASE \/ Lookup(t) \/ ClaimEntry(t) \/ Reserve(t) \/ Replay(t)
             \/ CheckScope(t) \/ RefusedBeforeSend(t)
             \/ BrokenBeforeSend(t) \/ EnterSend(t) \/ StoreFailsEarly(t)
    BY <2>3, Zenon
    DEF Lookup, ClaimEntry, Reserve, NextAfterReserve, Replay, CheckScope,
        RefusedBeforeSend, BrokenBeforeSend, EnterSend, StoreFailsEarly,
        Answer
  <2>4. CASE \/ Authorize(t) \/ OrderSend(t) \/ OrderSendReturns(t)
             \/ OrderSendAmbiguous(t) \/ FinishSucceeded(t) \/ BindOrder(t)
             \/ KillGrant(t) \/ Settle(t) \/ SettleUnknown(t) \/ KillLast(t)
    BY <2>4, Zenon
    DEF Authorize, OrderSend, OrderSendReturns, OrderSendAmbiguous,
        FinishSucceeded, BindOrder, KillGrant, Settle, SettleUnknown,
        KillLast, Answer
  <2> QED BY <2>1, <2>2, <2>3, <2>4 DEF Entry
<1> QED BY <1>1, <1>2, AtGoto

LEMMA OwnersCome ==
  ASSUME TypeInv, [Next]_vars, NEW u \in Threads, pc'[u] \in OwnerSteps
  PROVE  OwnerCame(u)
<1>a. TypeOK BY DEF TypeInv
<1>b. pc'[u] \in {"scope", "send", "authorize", "invoke"} BY OwnerNames
<1>c. ASSUME pc'[u] = pc[u], req'[u] = req[u] PROVE OwnerCame(u)
  BY <1>c DEF OwnerCame
<1>1. CASE UNCHANGED vars BY <1>1, <1>c DEF vars
<1>2. CASE Environment
  <2>1. pc'[u] = pc[u] /\ req'[u] = req[u]
    BY <1>2, <1>b DEF Environment, Provision, KillEntry, BrokerDecides,
       PositionCloses, SwitchAccount, ConnectionLost, Tick, Restart, thread
  <2> QED BY <2>1, <1>c
<1>3. ASSUME NEW t \in Threads, t # u, Entry(t) \/ Recovery(t) \/ Arrive(t)
      PROVE  OwnerCame(u)
  BY <1>a, <1>c, <1>3, OthersStay
<1>4. CASE CheckScope(u) \/ EnterSend(u)
  <2>1. pc[u] \in OwnerSteps /\ req'[u] = req[u]
    BY <1>4, OwnerNames DEF CheckScope, EnterSend
  <2>2. pc'[u] # "invoke" BY <1>a, <1>4, AtGoto DEF CheckScope, EnterSend
  <2> QED BY <2>1, <2>2 DEF OwnerCame
<1>5. CASE Authorize(u)
  <2>1. pc[u] \in OwnerSteps /\ req'[u] = req[u]
    BY <1>5, OwnerNames DEF Authorize
  <2>2. \/ ValidateEntry(req[u].grant, u)
        \/ Goto(u, "kill") \/ Goto(u, "settle unknown")
    BY <1>5, Zenon DEF Authorize
  <2>3. ASSUME NEW l, l # "invoke", Goto(u, l) PROVE pc'[u] # "invoke"
    BY <1>a, <2>3, AtGoto
  <2>4. "kill" # "invoke" /\ "settle unknown" # "invoke" OBVIOUS
  <2> QED BY <2>1, <2>2, <2>3, <2>4, Zenon DEF OwnerCame
<1>6. CASE Reserve(u)
  <2>1. \/ rec[req[u].client].state = "absent" /\ Goto(u, "scope")
        \/ Goto(u, "done") \/ Goto(u, "replay")
    BY <1>6, Zenon DEF Reserve, NextAfterReserve, Answer
  <2> QED BY <1>a, <1>b, <1>6, <2>1, AtGoto DEF OwnerCame
<1>7. CASE /\ Entry(u) \/ Recovery(u) \/ Arrive(u)
           /\ ~(CheckScope(u) \/ EnterSend(u) \/ Authorize(u) \/ Reserve(u))
  <2>1. \E l \in {"lookup", "claim", "reserve", "replay", "find", "resolve",
                  "done", "await", "finish", "bind", "kill", "settle",
                  "settle unknown", "kill last"} : Goto(u, l)
    <3>1. CASE Arrive(u)
      BY <3>1, Zenon DEF Arrive, Capture, GetByClient, Answer
    <3>2. CASE Recovery(u)
      BY <3>2, Zenon DEF Recovery, FindOrder, Resolve, Answer
    <3>3. CASE \/ Lookup(u) \/ ClaimEntry(u) \/ Replay(u)
               \/ RefusedBeforeSend(u) \/ BrokenBeforeSend(u)
               \/ StoreFailsEarly(u)
      BY <3>3, Zenon DEF Lookup, ClaimEntry, Replay, RefusedBeforeSend,
         BrokenBeforeSend, StoreFailsEarly, Answer
    <3>4. CASE \/ OrderSend(u) \/ OrderSendReturns(u)
               \/ OrderSendAmbiguous(u) \/ FinishSucceeded(u) \/ BindOrder(u)
               \/ KillGrant(u) \/ Settle(u) \/ SettleUnknown(u)
               \/ KillLast(u)
      BY <3>4, Zenon DEF OrderSend, OrderSendReturns, OrderSendAmbiguous,
         FinishSucceeded, BindOrder, KillGrant, Settle, SettleUnknown,
         KillLast, Answer
    <3> QED BY <1>7, <3>1, <3>2, <3>3, <3>4 DEF Entry
  <2> QED BY <1>a, <1>b, <2>1, AtGoto
<1> QED BY <1>1, <1>2, <1>3, <1>4, <1>5, <1>6, <1>7 DEF Next

-----------------------------------------------------------------------------
(* A client order id is handed to order_send at most once, whatever the    *)
(* threads, the stores, the terminal and the process do.                   *)
THEOREM SendsAtMostOnce == Spec => []AtMostOneSend
<1>1. IInv => AtMostOneSend BY DEF IInv, ClientOK, AtMostOneSend
<1> QED BY InvariantHolds, <1>1, PTL

(* A "failed" row means the broker holds no such order.                    *)
THEOREM FailedIsFinalAtBroker == Spec => []FailedMeansNotAccepted
<1>1. IInv => FailedMeansNotAccepted
  BY DEF IInv, ClientOK, FailedMeansNotAccepted
<1> QED BY InvariantHolds, <1>1, PTL

(* A "succeeded" row means an order sent on the account of the row.        *)
THEOREM SucceededWasSent == Spec => []SucceededMeansSentHere
<1>1. IInv => SucceededMeansSentHere
  BY DEF IInv, ClientOK, SucceededMeansSentHere
<1> QED BY InvariantHolds, <1>1, PTL

(* The order bound to a grant is the one sent under its claim, on the      *)
(* account of the grant.                                                   *)
THEOREM BoundOrderIsGrants == Spec => []BoundOrderIsOwn
<1>1. IInv => BoundOrderIsOwn BY DEF IInv, GrantOK, BoundOrderIsOwn
<1> QED BY InvariantHolds, <1>1, PTL

(* order_send is called by the request that claimed the grant and created  *)
(* the row, under the boot and the session the grant was given for.        *)
THEOREM SendsAreAuthorized == Spec => SendIsAuthorized
<1> DEFINE Authorized(c) ==
      \E t \in Threads :
        LET g == req[t].grant IN
        /\ pc[t] = "invoke" /\ pc'[t] = "await" /\ req[t].client = c
        /\ note[t] = "first"
        /\ rec[c].state = "pending" /\ rec[c].payload = req[t].payload
        /\ grant[g].claim = rec[c].payload
        /\ grant[g].epoch = epoch /\ grant[g].gen = link.gen
        /\ sends'[c] = sends[c] + 1
<1>1. ASSUME IInv, [Next]_vars, NEW c \in Clients, sends'[c] # sends[c]
      PROVE  Authorized(c)
  <2>1. PICK t \in Threads : OrderSend(t) BY <1>1, OnlySenderSends
  <2>2. TypeOK /\ ThreadOK(t) BY <1>1 DEF IInv, TypeInv
  <2>3. /\ pc[t] = "invoke" /\ pc'[t] = "await" /\ req[t].client = c
        /\ sends'[c] = sends[c] + 1
    <3>1. pc[t] = "invoke" /\ pc'[t] = "await"
      BY <2>1, <2>2, AtGoto DEF OrderSend
    <3> QED BY <1>1, <2>1, <2>2, <3>1 DEF OrderSend, TypeOK, BrokerOK
  <2>4. pc[t] \in OwnerSteps /\ Sender(t) BY <2>3, OwnerNames DEF Sender
  <2>5. /\ note[t] = "first" /\ rec[c].state = "pending"
        /\ rec[c].payload = req[t].payload
    BY <2>2, <2>3, <2>4 DEF ThreadOK, FirstOK, RowOK, OwnRow
  <2>6. /\ grant[req[t].grant].claim = req[t].payload
        /\ grant[req[t].grant].epoch = epoch
        /\ grant[req[t].grant].gen = link.gen
    BY <2>2, <2>3, <2>4 DEF ThreadOK, ClaimOK, LockOK, Verified
  <2> QED BY <2>3, <2>5, <2>6
<1>2. ASSUME IInv, [Next]_vars
      PROVE  [\A c \in Clients : sends'[c] # sends[c] => Authorized(c)]_vars
  BY <1>1, <1>2
<1> QED BY <1>2, InvariantHolds, PTL DEF Spec, SendIsAuthorized

(* A killed grant stays killed, and no thread reaches order_send under it. *)
THEOREM KillsAreFinal == Spec => KillIsFinal
<1>1. ASSUME IInv, [Next]_vars, NEW g \in Grants, KilledAndQuiet(g)
      PROVE  KilledAndQuiet(g)'
  <2>a. TypeInv BY <1>1 DEF IInv
  <2>1. grant'[g].killed BY <1>1, <2>a, KilledStays DEF KilledAndQuiet
  <2>2. ASSUME NEW t \in Threads, pc'[t] = "invoke", req'[t].grant = g
        PROVE  FALSE
    <3>1. OwnerCame(t) BY <1>1, <2>a, <2>2, OwnerNames, OwnersCome
    <3>2. req[t].grant = g /\ ValidateEntry(req[t].grant, t)
      BY <1>1, <2>2, <3>1 DEF OwnerCame, KilledAndQuiet
    <3> QED BY <1>1, <3>2 DEF ValidateEntry, EntryOpen, KilledAndQuiet
  <2> QED BY <2>1, <2>2 DEF KilledAndQuiet
<1>2. ASSUME IInv, [Next]_vars
      PROVE  [\A g \in Grants : KilledAndQuiet(g) => KilledAndQuiet(g)']_vars
  BY <1>1, <1>2
<1> QED BY <1>2, InvariantHolds, PTL DEF Spec, KillIsFinal

-----------------------------------------------------------------------------
(* The refinement of EntryOnce. *)

LEMMA HolderOwnsRow ==
  ASSUME IInv, NEW t \in Threads, NEW c \in Clients, Holds(t, c)
  PROVE  rec[c].state # "absent" /\ sends[c] = 0
<1>1. Sender(t) /\ ThreadOK(t) BY DEF Holds, Sender, IInv
<1> QED BY <1>1 DEF Holds, ThreadOK, RowOK, OwnRow

(* A step that makes no new holder moves rights only to "spent". *)
LEMMA RightsOnlySpent ==
  ASSUME IInv, [Next]_vars, UNCHANGED sends,
         \A u \in Threads, c \in Clients : Holds(u, c)' => Holds(u, c)
  PROVE  Once!GiveUp
<1> DEFINE C == {c \in Clients : Right'[c] = "spent"}
<1>1. ASSUME NEW c \in Clients PROVE Right'[c] \in {Right[c], "spent"}
  <2>1. CASE rec'[c].state = "absent"
    <3>1. rec[c].state = "absent" BY <2>1, RowsStay DEF IInv
    <3> QED BY <2>1, <3>1 DEF Right
  <2>2. CASE rec'[c].state # "absent" /\ \E u \in Threads : Holds(u, c)'
    <3>1. PICK u \in Threads : Holds(u, c)' BY <2>2
    <3>2. Holds(u, c) BY <3>1
    <3>3. rec[c].state # "absent" BY <3>2, HolderOwnsRow
    <3> QED BY <2>2, <3>2, <3>3 DEF Right
  <2>3. CASE rec'[c].state # "absent" /\ ~\E u \in Threads : Holds(u, c)'
    BY <2>3 DEF Right
  <2> QED BY <2>1, <2>2, <2>3
<1>2. Right' = [c \in Clients |-> IF c \in C THEN "spent" ELSE Right[c]]
  <2>1. Right' = [c \in Clients |-> Right'[c]] BY DEF Right
  <2> QED BY <1>1, <2>1
<1> QED BY <1>2 DEF Once!GiveUp

LEMMA ReserveOwns ==
  ASSUME IInv, IInv', NEW t \in Threads, Reserve(t), pc'[t] = "scope",
         NEW c \in Clients, c = req[t].client, rec[c].state = "absent"
  PROVE  Once!Own(c)
<1>a. TypeOK BY DEF IInv, TypeInv
<1>b. UNCHANGED <<sends, req>> /\ pc[t] = "reserve"
  BY DEF Reserve, broker
<1>c. \A d \in Clients \ {c} : rec'[d] = rec[d]
  <2>1. rec' = [rec EXCEPT ![c] = [state |-> "pending",
                  payload |-> req[t].payload, gen |-> req[t].gen,
                  fp |-> req[t].fp]]
    BY Zenon DEF Reserve
  <2> QED BY <1>a, <2>1 DEF TypeOK, StoresOK
<1>d. \A u \in Threads \ {t} : pc'[u] = pc[u]
  BY <1>a, OthersStay DEF Entry
<1>e. pc'[t] \in OwnerSteps /\ pc[t] \notin OwnerSteps
  BY <1>b, OwnerNames
<1>1. Right[c] = "unclaimed" BY <1>a DEF Right
<1>2. Right'[c] = "held"
  <2>1. Holds(t, c)' BY <1>b, <1>e DEF Holds
  <2>2. rec'[c].state # "absent"
    BY <1>a, <1>b, <1>e, <2>1 DEF IInv, ThreadOK, RowOK, OwnRow, Sender
  <2> QED BY <1>a, <2>1, <2>2 DEF Right
<1>3. ASSUME NEW d \in Clients, d # c PROVE Right'[d] = Right[d]
  <2>1. \A u \in Threads : Holds(u, d)' <=> Holds(u, d)
    BY <1>b, <1>d, <1>3 DEF Holds
  <2> QED BY <1>c, <1>3, <2>1 DEF Right
<1>4. Right' = [Right EXCEPT ![c] = "held"]
  <2>1. Right' = [d \in Clients |-> Right'[d]] BY DEF Right
  <2>2. Right = [d \in Clients |-> Right[d]] BY DEF Right
  <2> QED BY <1>a, <1>2, <1>3, <2>1, <2>2
<1> QED BY <1>1, <1>4, <1>b DEF Once!Own

LEMMA SendSpends ==
  ASSUME IInv, IInv', NEW t \in Threads, OrderSend(t),
         NEW c \in Clients, c = req[t].client
  PROVE  Once!Send(c)
<1>a. TypeOK BY DEF IInv, TypeInv
<1>b. /\ UNCHANGED <<rec, req>> /\ pc[t] = "invoke"
      /\ sends' = [sends EXCEPT ![c] = @ + 1]
  BY DEF OrderSend, stores
<1>c. pc'[t] = "await" /\ \A u \in Threads \ {t} : pc'[u] = pc[u]
  BY <1>a, AtGoto DEF OrderSend
<1>d. pc[t] \in OwnerSteps /\ pc'[t] \notin OwnerSteps
  BY <1>b, <1>c, OwnerNames
<1>e. Holds(t, c) BY <1>d DEF Holds
<1>f. rec[c].state # "absent" BY <1>a, <1>e, HolderOwnsRow
<1>1. Right[c] = "held" BY <1>a, <1>e, <1>f DEF Right
<1>2. Right'[c] = "spent"
  <2>1. ASSUME NEW u \in Threads PROVE ~Holds(u, c)'
    BY <1>b, <1>c, <1>d, <2>1 DEF Holds, Sender, IInv, OneSender
  <2> QED BY <1>a, <1>b, <1>f, <2>1 DEF Right
<1>3. ASSUME NEW d \in Clients, d # c PROVE Right'[d] = Right[d]
  <2>1. \A u \in Threads : Holds(u, d)' <=> Holds(u, d)
    BY <1>b, <1>c, <1>3 DEF Holds
  <2> QED BY <1>b, <1>3, <2>1 DEF Right
<1>4. Right' = [Right EXCEPT ![c] = "spent"]
  <2>1. Right' = [d \in Clients |-> Right'[d]] BY DEF Right
  <2>2. Right = [d \in Clients |-> Right[d]] BY DEF Right
  <2> QED BY <1>a, <1>2, <1>3, <2>1, <2>2
<1> QED BY <1>1, <1>4, <1>b DEF Once!Send

LEMMA OnceStep ==
  ASSUME IInv, IInv', [Next]_vars
  PROVE  Once!Next
<1>1. CASE \E t \in Threads : OrderSend(t)
  <2>1. PICK t \in Threads : OrderSend(t) BY <1>1
  <2>2. req[t].client \in Clients
    BY DEF IInv, TypeInv, TypeOK, ThreadsOK, Asked
  <2>3. Once!Send(req[t].client) BY <2>1, <2>2, SendSpends
  <2> QED BY <2>2, <2>3 DEF Once!Next
<1>2. CASE \E t \in Threads :
             /\ Reserve(t) /\ pc'[t] = "scope"
             /\ rec[req[t].client].state = "absent"
  <2>1. PICK t \in Threads : /\ Reserve(t) /\ pc'[t] = "scope"
                             /\ rec[req[t].client].state = "absent"
    BY <1>2
  <2>2. req[t].client \in Clients
    BY DEF IInv, TypeInv, TypeOK, ThreadsOK, Asked
  <2>3. Once!Own(req[t].client) BY <2>1, <2>2, ReserveOwns
  <2> QED BY <2>2, <2>3 DEF Once!Next
<1>3. CASE /\ ~\E t \in Threads : OrderSend(t)
           /\ ~\E t \in Threads : /\ Reserve(t) /\ pc'[t] = "scope"
                                  /\ rec[req[t].client].state = "absent"
  <2>1. UNCHANGED sends BY <1>3, OnlySenderSends
  <2>2. ASSUME NEW u \in Threads, NEW c \in Clients, Holds(u, c)'
        PROVE  Holds(u, c)
    <3>1. OwnerCame(u) BY <2>2, OwnersCome DEF Holds, IInv
    <3> QED BY <1>3, <2>2, <3>1 DEF OwnerCame, Holds
  <2> QED BY <2>1, <2>2, RightsOnlySpent DEF Once!Next
<1> QED BY <1>1, <1>2, <1>3

(* The entry path implements EntryOnce: reserve hands out the right to     *)
(* send a client order, order_send spends it, nothing gives it back.       *)
THEOREM RefinesEntryOnce == Spec => ImplementsEntryOnce
<1>1. Init => Once!Init
  BY DEF Init, Once!Init, Right
<1>2. IInv /\ IInv' /\ [Next]_vars => [Once!Next]_(Once!vars)
  BY OnceStep
<1> QED BY <1>1, <1>2, InvariantHolds, PTL DEF Spec, Once!Spec, ImplementsEntryOnce

-----------------------------------------------------------------------------
(* Answers.  What has been answered stays true: a refused order can no     *)
(* longer be sent, and one that was accepted has been.                     *)

Unsendable(c) == rec[c].state # "absent" /\ \A u \in Threads : ~Holds(u, c)

Refused(c) ==
  \/ book[c].fate = "rejected"
  \/ book[c].fate = "none" /\ Unsendable(c)

(* A replay answers with what it read, and so do the last steps.           *)
AnswerTrue(t) ==
  LET c == req[t].client IN
  /\ pc[t] = "replay" /\ note[t] = "failed" => Refused(c)
  /\ pc[t] = "replay" /\ note[t] = "succeeded" => sends[c] = 1
  /\ pc[t] = "done" /\ note[t] = "rejected" => Refused(c)
  /\ pc[t] = "done" /\ note[t] = "accepted" => sends[c] = 1

AnswersTrue == \A t \in Threads : AnswerTrue(t)

LEMMA UnsendableStays ==
  ASSUME IInv, [Next]_vars, NEW c \in Clients, Unsendable(c)
  PROVE  Unsendable(c)'
<1>1. rec'[c].state # "absent" BY RowsStay DEF IInv, Unsendable
<1>2. ASSUME NEW u \in Threads, Holds(u, c)' PROVE FALSE
  <2>1. OwnerCame(u) BY <1>2, OwnersCome DEF IInv, Holds
  <2>2. CASE pc[u] \in OwnerSteps /\ req'[u] = req[u]
    BY <1>2, <2>2 DEF Holds, Unsendable
  <2>3. CASE Reserve(u) /\ rec[req[u].client].state = "absent"
    <3>1. req'[u] = req[u] BY <2>3 DEF Reserve
    <3> QED BY <1>2, <2>3, <3>1 DEF Holds, Unsendable
  <2> QED BY <2>1, <2>2, <2>3 DEF OwnerCame
<1> QED BY <1>1, <1>2 DEF Unsendable

LEMMA BookMoves ==
  ASSUME IInv, [Next]_vars, NEW c \in Clients, book[c].fate \in {"none", "rejected"}
  PROVE  \/ book'[c].fate = book[c].fate
         \/ \E t \in Threads : Holds(t, c) /\ sends[c] = 0
<1> USE DEF broker, vars
<1>a. TypeOK BY DEF IInv, TypeInv
<1>b. book \in [Clients -> [fate : Fates, acct : Accounts]] BY <1>a DEF TypeOK, BrokerOK
<1>1. ASSUME NEW t \in Threads, OrderSend(t)
      PROVE  book'[c] = book[c] \/ (Holds(t, c) /\ sends[c] = 0)
  <2>1. CASE req[t].client = c
    <3>1. Holds(t, c) BY <1>1, <2>1, OwnerNames DEF OrderSend, Holds
    <3> QED BY <3>1, HolderOwnsRow
  <2>2. CASE req[t].client # c
    BY <1>1, <1>b, <2>2 DEF OrderSend
  <2> QED BY <2>1, <2>2
<1>2. ASSUME NEW t \in Threads, Entry(t), ~OrderSend(t) PROVE UNCHANGED book
  BY <1>2 DEF Entry, Lookup, ClaimEntry, Reserve, Replay, CheckScope,
     RefusedBeforeSend, BrokenBeforeSend, EnterSend, Authorize,
     OrderSendReturns, OrderSendAmbiguous, FinishSucceeded, BindOrder,
     KillGrant, Settle, SettleUnknown, KillLast, StoreFailsEarly
<1>3. ASSUME NEW t \in Threads, Recovery(t) \/ Arrive(t) PROVE UNCHANGED book
  BY <1>3 DEF Recovery, Arrive, FindOrder, Resolve, Capture, GetByClient
<1>4. ASSUME NEW d \in Clients, BrokerDecides(d) \/ PositionCloses(d)
      PROVE  book'[c] = book[c]
  <2>1. d # c BY <1>4 DEF BrokerDecides, PositionCloses
  <2> QED BY <1>4, <1>b, <2>1 DEF BrokerDecides, PositionCloses
<1>5. CASE Environment /\ ~\E d \in Clients : BrokerDecides(d) \/ PositionCloses(d)
  BY <1>5 DEF Environment, Provision, KillEntry, SwitchAccount,
     ConnectionLost, Tick, Restart
<1> QED BY <1>1, <1>2, <1>3, <1>4, <1>5 DEF Next, Environment

LEMMA RefusedStays ==
  ASSUME IInv, [Next]_vars, NEW c \in Clients, Refused(c)
  PROVE  Refused(c)'
<1>1. CASE book[c].fate = "rejected"
  <2>1. sends[c] # 0 BY <1>1 DEF IInv, ClientOK
  <2> QED BY <1>1, <2>1, BookMoves DEF Refused
<1>2. CASE book[c].fate = "none" /\ Unsendable(c)
  <2>1. ~\E t \in Threads : Holds(t, c) BY <1>2 DEF Unsendable
  <2>2. book'[c].fate = "none" BY <1>2, <2>1, BookMoves
  <2> QED BY <1>2, <2>2, UnsendableStays DEF Refused
<1> QED BY <1>1, <1>2 DEF Refused

LEMMA SentStays ==
  ASSUME IInv, [Next]_vars, NEW c \in Clients, sends[c] = 1
  PROVE  sends'[c] = 1
<1>1. CASE UNCHANGED sends BY <1>1
<1>2. ASSUME NEW t \in Threads, OrderSend(t) PROVE sends'[c] = 1
  <2>1. Holds(t, req[t].client) /\ req[t].client \in Clients
    BY <1>2, OwnerNames DEF OrderSend, Holds, IInv, TypeInv, TypeOK, ThreadsOK, Asked
  <2>2. req[t].client # c BY <2>1, HolderOwnsRow
  <2> QED BY <1>2, <2>2 DEF OrderSend, IInv, TypeInv, TypeOK, BrokerOK
<1> QED BY <1>1, <1>2, OnlySenderSends

(* Notes too are each thread's own. *)
LEMMA NotesStay ==
  ASSUME TypeOK, NEW t \in Threads, Entry(t) \/ Recovery(t) \/ Arrive(t)
  PROVE  \A u \in Threads \ {t} : note'[u] = note[u]
<1>1. UNCHANGED note \/ \E n : Remember(t, n)
  <2>1. CASE Arrive(t) \/ Recovery(t)
    BY <2>1, Zenon DEF Arrive, Recovery, Capture, GetByClient, FindOrder,
       Resolve, Answer
  <2>2. CASE \/ Lookup(t) \/ ClaimEntry(t) \/ Reserve(t) \/ Replay(t)
             \/ CheckScope(t) \/ RefusedBeforeSend(t)
             \/ BrokenBeforeSend(t) \/ EnterSend(t) \/ StoreFailsEarly(t)
    BY <2>2, Zenon
    DEF Lookup, ClaimEntry, Reserve, NextAfterReserve, Replay, CheckScope,
        RefusedBeforeSend, BrokenBeforeSend, EnterSend, StoreFailsEarly,
        Answer
  <2>3. CASE \/ Authorize(t) \/ OrderSend(t) \/ OrderSendReturns(t)
             \/ OrderSendAmbiguous(t) \/ FinishSucceeded(t) \/ BindOrder(t)
             \/ KillGrant(t) \/ Settle(t) \/ SettleUnknown(t) \/ KillLast(t)
    BY <2>3, Zenon
    DEF Authorize, OrderSend, OrderSendReturns, OrderSendAmbiguous,
        FinishSucceeded, BindOrder, KillGrant, Settle, SettleUnknown,
        KillLast, Answer
  <2> QED BY <2>1, <2>2, <2>3 DEF Entry
<1> QED BY <1>1, AtRemember

(* A thread that answers neither way has nothing to keep true. *)
LEMMA Elsewhere ==
  ASSUME TypeOK, NEW t \in Threads,
         \/ \E l : l \notin {"replay", "done"} /\ Goto(t, l)
         \/ \E n : n \notin {"accepted", "rejected"} /\ Answer(t, n)
  PROVE  AnswerTrue(t)'
<1>1. ASSUME NEW l, l \notin {"replay", "done"}, Goto(t, l) PROVE AnswerTrue(t)'
  <2>1. pc'[t] = l BY <1>1, AtGoto
  <2> QED BY <1>1, <2>1 DEF AnswerTrue
<1>2. ASSUME NEW n, n \notin {"accepted", "rejected"}, Answer(t, n)
      PROVE  AnswerTrue(t)'
  <2>1. pc'[t] = "done" /\ note'[t] = n BY <1>2, AtAnswer, AtRemember DEF Answer
  <2> QED BY <1>2, <2>1 DEF AnswerTrue
<1> QED BY <1>1, <1>2

(* The row of a settled order, or of one refused before, is closed to      *)
(* every sender.                                                           *)
LEMMA FailedRowRefuses ==
  ASSUME IInv, NEW c \in Clients, rec[c].state = "failed"
  PROVE  Refused(c)
<1>1. ASSUME NEW u \in Threads, Holds(u, c) PROVE FALSE
  <2>1. RowOK(u) BY DEF IInv, ThreadOK
  <2> QED BY <1>1, <2>1 DEF Holds, RowOK
<1> QED BY <1>1 DEF IInv, ClientOK, Refused, Unsendable

LEMMA SettlingRefuses ==
  ASSUME IInv, NEW t \in Threads, pc[t] = "settle", note[t] = "failed"
  PROVE  Refused(req[t].client)
<1>1. Sender(t) /\ pc[t] \notin OwnerSteps BY SenderNames, OwnerNames DEF Sender
<1>2. ThreadOK(t) BY DEF IInv
<1>3. ASSUME NEW u \in Threads, Holds(u, req[t].client) PROVE FALSE
  <2>1. Sender(u) BY <1>3 DEF Holds, Sender
  <2>2. u = t BY <1>1, <1>3, <2>1 DEF IInv, OneSender, Holds
  <2> QED BY <1>1, <1>3, <2>2 DEF Holds
<1>4. rec[req[t].client].state # "absent"
  BY <1>1, <1>2 DEF ThreadOK, RowOK, OwnRow
<1>5. book[req[t].client].fate \in {"none", "rejected"}
  BY <1>2 DEF ThreadOK, SentOK
<1> QED BY <1>3, <1>4, <1>5 DEF Refused, Unsendable

LEMMA AnswerStep ==
  ASSUME IInv, [Next]_vars, NEW t \in Threads, AnswerTrue(t),
         Entry(t) \/ Recovery(t) \/ Arrive(t)
  PROVE  AnswerTrue(t)'
<1>a. TypeOK /\ ThreadOK(t) BY DEF IInv, TypeInv
<1>0. PICK c \in Clients : c = req[t].client
  BY <1>a DEF TypeOK, ThreadsOK, Asked
<1>b. /\ Refused(c) => Refused(c)'
      /\ sends[c] = 1 => sends'[c] = 1
  BY RefusedStays, SentStays
<1>1. CASE Reserve(t)
  <2>1. req'[t].client = c BY <1>0, <1>1 DEF Reserve
  <2>2. \/ Goto(t, "scope") \/ Answer(t, "unknown") \/ Answer(t, "conflict")
        \/ Goto(t, "replay") /\ Remember(t, rec[c].state)
    BY <1>0, <1>1, Zenon DEF Reserve, NextAfterReserve
  <2>3. ASSUME Goto(t, "replay"), Remember(t, rec[c].state)
        PROVE  AnswerTrue(t)'
    <3>1. pc'[t] = "replay" /\ note'[t] = rec[c].state
      BY <1>a, <2>3, AtGoto, AtRemember
    <3>2. rec[c].state = "failed" => Refused(c)' BY <1>b, FailedRowRefuses
    <3>3. rec[c].state = "succeeded" => sends'[c] = 1
      BY <1>b DEF IInv, ClientOK
    <3> QED BY <2>1, <3>1, <3>2, <3>3 DEF AnswerTrue, Refused, Unsendable, Holds
  <2>4. /\ "scope" \notin {"replay", "done"}
        /\ "unknown" \notin {"accepted", "rejected"}
        /\ "conflict" \notin {"accepted", "rejected"}
    OBVIOUS
  <2> QED BY <1>a, <2>2, <2>3, <2>4, Elsewhere
<1>2. CASE Replay(t)
  <2>1. req'[t].client = c /\ pc[t] = "replay" BY <1>0, <1>2 DEF Replay
  <2>2. \/ Answer(t, "denied")
        \/ Answer(t, ReplayAnswer(note[t]))
    BY <1>2, Zenon DEF Replay
  <2>3. CASE Answer(t, ReplayAnswer(note[t]))
    <3>1. pc'[t] = "done" /\ note'[t] = ReplayAnswer(note[t])
      BY <1>a, <2>3, AtAnswer, AtRemember DEF Answer
    <3>2. /\ note'[t] = "rejected" => note[t] = "failed"
          /\ note'[t] = "accepted" => note[t] = "succeeded"
      BY <3>1 DEF ReplayAnswer
    <3>3. /\ note'[t] = "rejected" => Refused(c)'
          /\ note'[t] = "accepted" => sends'[c] = 1
      BY <1>0, <1>b, <2>1, <3>2 DEF AnswerTrue
    <3> QED BY <2>1, <3>1, <3>3 DEF AnswerTrue, Refused, Unsendable, Holds
  <2>4. "denied" \notin {"accepted", "rejected"} OBVIOUS
  <2> QED BY <1>a, <2>2, <2>3, <2>4, Elsewhere
<1>3. CASE BindOrder(t)
  <2>1. req'[t].client = c /\ pc[t] = "bind" BY <1>0, <1>3 DEF BindOrder
  <2>2. Answer(t, "accepted") \/ Goto(t, "kill") \/ Goto(t, "settle unknown")
    BY <1>3, Zenon DEF BindOrder
  <2>3. CASE Answer(t, "accepted")
    <3>1. pc'[t] = "done" /\ note'[t] = "accepted"
      BY <1>a, <2>3, AtAnswer, AtRemember DEF Answer
    <3>2. sends'[c] = 1 BY <1>0, <1>a, <1>b, <2>1 DEF ThreadOK, SentOK
    <3> QED BY <2>1, <3>1, <3>2 DEF AnswerTrue
  <2>4. /\ "kill" \notin {"replay", "done"}
        /\ "settle unknown" \notin {"replay", "done"}
    OBVIOUS
  <2> QED BY <1>a, <2>2, <2>3, <2>4, Elsewhere
<1>4. CASE Settle(t)
  <2>1. req'[t].client = c /\ pc[t] = "settle" BY <1>0, <1>4 DEF Settle
  <2>2. \/ note[t] = "failed" /\ Answer(t, "rejected")
        \/ Answer(t, "unknown") \/ Answer(t, "error")
    BY <1>4, Zenon DEF Settle
  <2>3. CASE note[t] = "failed" /\ Answer(t, "rejected")
    <3>1. pc'[t] = "done" /\ note'[t] = "rejected"
      BY <1>a, <2>3, AtAnswer, AtRemember DEF Answer
    <3>2. Refused(c)' BY <1>0, <1>b, <2>1, <2>3, SettlingRefuses
    <3> QED BY <2>1, <3>1, <3>2 DEF AnswerTrue, Refused, Unsendable, Holds
  <2>4. /\ "unknown" \notin {"accepted", "rejected"}
        /\ "error" \notin {"accepted", "rejected"}
    OBVIOUS
  <2> QED BY <1>a, <2>2, <2>3, <2>4, Elsewhere
<1>5. CASE ~(Reserve(t) \/ Replay(t) \/ BindOrder(t) \/ Settle(t))
  <2>1. \/ \E l \in {"lookup", "claim", "reserve", "find", "resolve", "send",
                     "authorize", "invoke", "await", "finish", "bind", "kill",
                     "settle", "settle unknown", "kill last"} : Goto(t, l)
        \/ \E n \in {"denied", "conflict", "unknown", "not found", "found",
                     "error"} : Answer(t, n)
    <3>1. CASE Arrive(t)
      BY <3>1, Zenon DEF Arrive, Capture, GetByClient
    <3>2. CASE Recovery(t)
      BY <3>2, Zenon DEF Recovery, FindOrder, Resolve
    <3>3. CASE \/ Lookup(t) \/ ClaimEntry(t) \/ CheckScope(t)
               \/ RefusedBeforeSend(t) \/ BrokenBeforeSend(t)
               \/ EnterSend(t) \/ StoreFailsEarly(t)
      BY <3>3, Zenon
      DEF Lookup, ClaimEntry, CheckScope, RefusedBeforeSend,
          BrokenBeforeSend, EnterSend, StoreFailsEarly
    <3>4. CASE \/ Authorize(t) \/ OrderSend(t) \/ OrderSendReturns(t)
               \/ OrderSendAmbiguous(t) \/ FinishSucceeded(t)
               \/ KillGrant(t) \/ SettleUnknown(t) \/ KillLast(t)
      BY <3>4, Zenon
      DEF Authorize, OrderSend, OrderSendReturns, OrderSendAmbiguous,
          FinishSucceeded, KillGrant, SettleUnknown, KillLast
    <3> QED BY <1>5, <3>1, <3>2, <3>3, <3>4 DEF Entry
  <2> QED BY <1>a, <2>1, Elsewhere
<1> QED BY <1>1, <1>2, <1>3, <1>4, <1>5

LEMMA AnswersStayTrue ==
  ASSUME IInv, [Next]_vars, AnswersTrue
  PROVE  AnswersTrue'
<1> SUFFICES ASSUME NEW t \in Threads PROVE AnswerTrue(t)'
  BY DEF AnswersTrue
<1>a. TypeOK /\ AnswerTrue(t) BY DEF IInv, TypeInv, AnswersTrue
<1>0. PICK c \in Clients : c = req[t].client
  BY <1>a DEF TypeOK, ThreadsOK, Asked
<1>1. ASSUME UNCHANGED <<pc[t], req[t], note[t]>> PROVE AnswerTrue(t)'
  <2>1. /\ Refused(c) => Refused(c)'
        /\ sends[c] = 1 => sends'[c] = 1
    BY RefusedStays, SentStays
  <2> QED BY <1>0, <1>1, <1>a, <2>1 DEF AnswerTrue, Refused, Unsendable, Holds
<1>2. CASE Entry(t) \/ Recovery(t) \/ Arrive(t)
  BY <1>2, <1>a, AnswerStep
<1>3. ASSUME NEW u \in Threads, u # t, Entry(u) \/ Recovery(u) \/ Arrive(u)
      PROVE  AnswerTrue(t)'
  BY <1>3, <1>a, <1>1, OthersStay, NotesStay
<1>4. CASE Environment
  <2>1. CASE Restart
    <3>1. /\ req' = req /\ note' = note
          /\ pc'[t] = pc[t] \/ pc'[t] = "lost"
      BY <2>1 DEF Restart
    <3>2. CASE pc'[t] = "lost" BY <3>2 DEF AnswerTrue
    <3> QED BY <1>1, <3>1, <3>2
  <2>2. CASE ~Restart
    <3>1. UNCHANGED <<pc, req, note>>
      BY <1>4, <2>2 DEF Environment, Provision, KillEntry, BrokerDecides,
         PositionCloses, SwitchAccount, ConnectionLost, Tick, thread
    <3> QED BY <1>1, <3>1
  <2> QED BY <2>1, <2>2
<1>5. CASE UNCHANGED vars
  BY <1>1, <1>5 DEF vars
<1> QED BY <1>2, <1>3, <1>4, <1>5 DEF Next

(* No caller is told "accepted" of an order that another was told was      *)
(* rejected, unless the broker did reject it after its reply.              *)
THEOREM AnswersNeverContradict == Spec => []AnswersAgree
<1>1. Init => AnswersTrue
  BY DEF Init, AnswersTrue, AnswerTrue
<1>2. IInv /\ AnswersTrue => AnswersAgree
  <2> SUFFICES ASSUME IInv, AnswersTrue, NEW t \in Threads, NEW u \in Threads,
                      pc[t] = "done", note[t] = "accepted",
                      pc[u] = "done", note[u] = "rejected",
                      req[t].client = req[u].client
               PROVE  book[req[t].client].fate = "rejected"
    BY DEF AnswersAgree
  <2>1. req[t].client \in Clients /\ sends[req[t].client] = 1
    BY DEF AnswersTrue, AnswerTrue, IInv, TypeInv, TypeOK, ThreadsOK, Asked
  <2>2. Refused(req[t].client) BY DEF AnswersTrue, AnswerTrue
  <2> QED BY <2>1, <2>2 DEF IInv, ClientOK, Refused
<1>3. IInv /\ AnswersTrue /\ [Next]_vars => AnswersTrue'
  BY AnswersStayTrue
<1> QED BY <1>1, <1>2, <1>3, InvariantHolds, PTL DEF Spec

-----------------------------------------------------------------------------
(* Unknown outcomes.  A row becomes indeterminate by the hand of its       *)
(* sender, whose grant is killed already or is about to be.                *)

Closed(c) ==
  \E g \in Grants :
    /\ grant[g].claim = rec[c].payload /\ grant[g].claim # None
    /\ \/ grant[g].killed
       \/ grant[g].epoch < epoch
       \/ \E t \in Threads : pc[t] = "kill last" /\ req[t].grant = g

UnknownsClosed ==
  /\ \A t \in Threads : pc[t] = "settle" => grant[req[t].grant].killed
  /\ faults = 0 => \A c \in Clients : rec[c].state = "indeterminate" => Closed(c)

LEMMA ClaimsStay ==
  ASSUME IInv, [Next]_vars, NEW g \in Grants, grant[g].claim # None
  PROVE  grant'[g].claim = grant[g].claim /\ grant'[g].epoch = grant[g].epoch
<1> USE DEF stores, vars
<1>a. grant \in [Grants -> Grant] BY DEF IInv, TypeInv, TypeOK, StoresOK
<1>b. ASSUME NEW h, DisableEntry(h)
      PROVE  grant'[g].claim = grant[g].claim /\ grant'[g].epoch = grant[g].epoch
  BY <1>a, <1>b DEF DisableEntry, Grant
<1>c. CASE UNCHANGED grant BY <1>c
<1>1. ASSUME NEW t \in Threads, ClaimEntry(t)
      PROVE  grant'[g].claim = grant[g].claim /\ grant'[g].epoch = grant[g].epoch
  <2>1. \/ UNCHANGED grant
        \/ /\ grant' = [grant EXCEPT ![req[t].grant].claim = req[t].payload]
           /\ grant[req[t].grant].claim = None
    BY <1>1, Zenon DEF ClaimEntry
  <2> QED BY <1>a, <1>c, <2>1 DEF Grant
<1>2. ASSUME NEW t \in Threads, BindOrder(t)
      PROVE  grant'[g].claim = grant[g].claim /\ grant'[g].epoch = grant[g].epoch
  <2>1. \/ UNCHANGED grant
        \/ grant' = [grant EXCEPT ![req[t].grant].order = req[t].client]
    BY <1>2, Zenon DEF BindOrder
  <2> QED BY <1>a, <1>c, <2>1 DEF Grant
<1>3. ASSUME NEW t \in Threads, KillGrant(t) \/ KillLast(t)
      PROVE  grant'[g].claim = grant[g].claim /\ grant'[g].epoch = grant[g].epoch
  <2>1. UNCHANGED grant \/ DisableEntry(req[t].grant)
    BY <1>3 DEF KillGrant, KillLast
  <2> QED BY <1>b, <1>c, <2>1
<1>4. ASSUME NEW t \in Threads, Entry(t),
             ~(ClaimEntry(t) \/ BindOrder(t) \/ KillGrant(t) \/ KillLast(t))
      PROVE  UNCHANGED grant
  BY <1>4 DEF Entry, Lookup, Reserve, Replay, CheckScope,
     RefusedBeforeSend, BrokenBeforeSend, EnterSend, Authorize,
     OrderSend, OrderSendReturns, OrderSendAmbiguous, FinishSucceeded,
     Settle, SettleUnknown, StoreFailsEarly
<1>5. ASSUME NEW t \in Threads, Recovery(t) \/ Arrive(t)
      PROVE  UNCHANGED grant
  BY <1>5 DEF Recovery, Arrive, FindOrder, Resolve, Capture, GetByClient
<1>6. ASSUME NEW h \in Grants, Provision(h) \/ KillEntry(h)
      PROVE  grant'[g].claim = grant[g].claim /\ grant'[g].epoch = grant[g].epoch
  <2>1. CASE KillEntry(h) BY <1>b, <2>1 DEF KillEntry
  <2>2. CASE Provision(h)
    <3>1. h # g BY <2>2 DEF Provision, IInv, GrantOK
    <3> QED BY <1>a, <2>2, <3>1 DEF Provision
  <2> QED BY <1>6, <2>1, <2>2
<1>7. Environment =>
        UNCHANGED grant \/ \E h \in Grants : Provision(h) \/ KillEntry(h)
  BY DEF Environment, BrokerDecides, PositionCloses, SwitchAccount,
     ConnectionLost, Tick, Restart
<1> QED BY <1>c, <1>1, <1>2, <1>3, <1>4, <1>5, <1>6, <1>7 DEF Next

(* How a row comes to be indeterminate, and what of it never changes.      *)
LEMMA UnknownsCome ==
  ASSUME IInv, [Next]_vars, NEW c \in Clients, rec'[c].state = "indeterminate"
  PROVE  \/ rec[c].state = "indeterminate" /\ rec'[c].payload = rec[c].payload
         \/ \E t \in Threads :
              /\ req[t].client = c /\ rec'[c].payload = rec[c].payload
              /\ SettleUnknown(t) \/ Settle(t)
<1> USE DEF stores, vars
<1>a. rec \in [Clients -> Record] BY DEF IInv, TypeInv, TypeOK, StoresOK
<1>b. ASSUME NEW d, NEW s, Finish(d, s)
      PROVE  /\ rec'[c].payload = rec[c].payload
             /\ rec'[c].state = rec[c].state \/ (d = c /\ s = "indeterminate")
  BY <1>a, <1>b DEF Finish, Record
<1>c. CASE UNCHANGED rec BY <1>c
<1>1. ASSUME NEW t \in Threads, SettleUnknown(t) \/ Settle(t)
      PROVE  \/ rec[c].state = "indeterminate" /\ rec'[c].payload = rec[c].payload
             \/ req[t].client = c /\ rec'[c].payload = rec[c].payload
  <2>1. UNCHANGED rec \/ \E s : Finish(req[t].client, s)
    BY <1>1, Zenon DEF SettleUnknown, Settle, FinishRaises
  <2> QED BY <1>b, <1>c, <2>1
<1>2. ASSUME NEW t \in Threads, FinishSucceeded(t) \/ Resolve(t)
      PROVE  rec[c].state = "indeterminate" /\ rec'[c].payload = rec[c].payload
  <2>1. \/ UNCHANGED rec
        \/ \E s \in {"succeeded", "failed"} : Finish(req[t].client, s)
    <3>1. pc[t] = "resolve" => note[t] \in {"succeeded", "failed"}
      BY DEF IInv, TypeInv, NoteFits, Fits
    <3> QED BY <1>2, <3>1, Zenon DEF FinishSucceeded, Resolve, FinishRaises
  <2> QED BY <1>b, <1>c, <2>1
<1>3. ASSUME NEW t \in Threads, Reserve(t)
      PROVE  rec'[c] = rec[c]
  <2>1. \/ UNCHANGED rec
        \/ rec' = [rec EXCEPT ![req[t].client] =
                     [state |-> "pending", payload |-> req[t].payload,
                      gen |-> req[t].gen, fp |-> req[t].fp]]
    BY <1>3, Zenon DEF Reserve
  <2> QED BY <1>a, <2>1
<1>4. ASSUME NEW t \in Threads, Entry(t),
             ~(Reserve(t) \/ FinishSucceeded(t) \/ Settle(t) \/ SettleUnknown(t))
      PROVE  UNCHANGED rec
  BY <1>4 DEF Entry, Lookup, ClaimEntry, Replay, CheckScope,
     RefusedBeforeSend, BrokenBeforeSend, EnterSend, Authorize,
     OrderSend, OrderSendReturns, OrderSendAmbiguous, BindOrder,
     KillGrant, KillLast, StoreFailsEarly
<1>5. ASSUME NEW t \in Threads, FindOrder(t) \/ Arrive(t)
      PROVE  UNCHANGED rec
  BY <1>5 DEF Arrive, FindOrder, Capture, GetByClient
<1>6. Environment => UNCHANGED rec
  BY DEF Environment, Provision, KillEntry, BrokerDecides, PositionCloses,
     SwitchAccount, ConnectionLost, Tick, Restart
<1> QED BY <1>c, <1>1, <1>2, <1>3, <1>4, <1>5, <1>6 DEF Next, Recovery

LEMMA FaultsCounted ==
  ASSUME TypeOK, [Next]_vars
  PROVE  faults' >= faults
<1> USE DEF vars
<1>a. faults \in Nat BY DEF TypeOK, SessionOK
<1>1. UNCHANGED faults \/ StoreRaises
  <2>1. ASSUME NEW t \in Threads, Entry(t) PROVE UNCHANGED faults \/ StoreRaises
    BY <2>1 DEF Entry, Lookup, ClaimEntry, Reserve, Replay, CheckScope,
       RefusedBeforeSend, BrokenBeforeSend, EnterSend, Authorize, OrderSend,
       OrderSendReturns, OrderSendAmbiguous, FinishSucceeded, BindOrder,
       KillGrant, Settle, SettleUnknown, KillLast, StoreFailsEarly, FinishRaises
  <2>2. ASSUME NEW t \in Threads, Recovery(t) \/ Arrive(t)
        PROVE  UNCHANGED faults \/ StoreRaises
    BY <2>2 DEF Recovery, Arrive, FindOrder, Resolve, Capture, GetByClient,
       FinishRaises
  <2>3. Environment => UNCHANGED faults
    BY DEF Environment, Provision, KillEntry, BrokerDecides, PositionCloses,
       SwitchAccount, ConnectionLost, Tick, Restart
  <2> QED BY <2>1, <2>2, <2>3 DEF Next
<1> QED BY <1>a, <1>1 DEF StoreRaises

LEMMA CountersGrow ==
  ASSUME TypeOK
  PROVE  /\ StoreRaises => faults' # 0
         /\ Restart => epoch < epoch'
<1>1. faults \in Nat /\ epoch \in Nat BY DEF TypeOK, SessionOK
<1>2. StoreRaises => faults' # 0 BY <1>1 DEF StoreRaises
<1>3. Restart => epoch' = epoch + 1 BY DEF Restart
<1> QED BY <1>1, <1>2, <1>3

(* A thread moves by its own step, or the process dies under it. *)
LEMMA OwnStep ==
  ASSUME TypeOK, [Next]_vars, NEW t \in Threads,
         pc'[t] # pc[t] \/ req'[t] # req[t]
  PROVE  Entry(t) \/ Recovery(t) \/ Arrive(t) \/ (Restart /\ pc'[t] = "lost")
<1>1. ASSUME NEW u \in Threads, u # t, Entry(u) \/ Recovery(u) \/ Arrive(u)
      PROVE  FALSE
  BY <1>1, OthersStay
<1>2. CASE Environment
  <2>1. CASE Restart BY <2>1 DEF Restart
  <2>2. CASE ~Restart
    BY <1>2, <2>2 DEF Environment, Provision, KillEntry, BrokerDecides,
       PositionCloses, SwitchAccount, ConnectionLost, Tick, thread
  <2> QED BY <2>1, <2>2
<1> QED BY <1>1, <1>2 DEF Next, vars

LEMMA GrantKills ==
  ASSUME IInv, NEW t \in Threads, Sender(t), DisableEntry(req[t].grant)
  PROVE  req[t].grant \in Grants /\ grant'[req[t].grant].killed
<1>1. req[t].grant \in Grants BY DEF IInv, ThreadOK, AsksOK
<1>2. grant \in [Grants -> Grant] BY DEF IInv, TypeInv, TypeOK, StoresOK
<1> QED BY <1>1, <1>2 DEF DisableEntry, Grant

(* Only KillGrant comes to "settle". *)
LEMMA SettlesKilled ==
  ASSUME IInv, [Next]_vars, UnknownsClosed, NEW t \in Threads, pc'[t] = "settle"
  PROVE  grant'[req'[t].grant].killed
<1>a. TypeOK /\ TypeInv BY DEF IInv, TypeInv
<1>1. CASE pc[t] = "settle" /\ req'[t] = req[t]
  <2>1. Sender(t) /\ req[t].grant \in Grants
    BY <1>1, SenderNames DEF IInv, ThreadOK, AsksOK, Sender
  <2> QED BY <1>a, <1>1, <2>1, KilledStays DEF UnknownsClosed
<1>2. CASE ~(pc[t] = "settle" /\ req'[t] = req[t])
  <2>1. Entry(t) \/ Recovery(t) \/ Arrive(t) BY <1>a, <1>2, OwnStep
  <2>2. CASE KillGrant(t)
    <3>1. DisableEntry(req[t].grant) \/ Answer(t, "error")
      BY <2>2 DEF KillGrant
    <3>2. ~Answer(t, "error") BY <1>a, AtAnswer
    <3>3. Sender(t) /\ req' = req BY <2>2, SenderNames DEF KillGrant, Sender
    <3> QED BY <3>1, <3>2, <3>3, GrantKills
  <2>3. CASE ~KillGrant(t)
    <3>1. \E l \in {"lookup", "claim", "reserve", "replay", "find", "resolve",
                    "done", "scope", "send", "authorize", "invoke", "await",
                    "finish", "bind", "kill", "settle unknown", "kill last"} :
            Goto(t, l)
      <4>1. CASE Arrive(t)
        BY <4>1, Zenon DEF Arrive, Capture, GetByClient, Answer
      <4>2. CASE Recovery(t)
        BY <4>2, Zenon DEF Recovery, FindOrder, Resolve, Answer
      <4>3. CASE \/ Lookup(t) \/ ClaimEntry(t) \/ Reserve(t) \/ Replay(t)
                 \/ CheckScope(t) \/ RefusedBeforeSend(t)
                 \/ BrokenBeforeSend(t) \/ EnterSend(t) \/ StoreFailsEarly(t)
        BY <4>3, Zenon
        DEF Lookup, ClaimEntry, Reserve, NextAfterReserve, Replay, CheckScope,
            RefusedBeforeSend, BrokenBeforeSend, EnterSend, StoreFailsEarly,
            Answer
      <4>4. CASE \/ Authorize(t) \/ OrderSend(t) \/ OrderSendReturns(t)
                 \/ OrderSendAmbiguous(t) \/ FinishSucceeded(t) \/ BindOrder(t)
                 \/ Settle(t) \/ SettleUnknown(t) \/ KillLast(t)
        BY <4>4, Zenon
        DEF Authorize, OrderSend, OrderSendReturns, OrderSendAmbiguous,
            FinishSucceeded, BindOrder, Settle, SettleUnknown, KillLast, Answer
      <4> QED BY <2>1, <2>3, <4>1, <4>2, <4>3, <4>4 DEF Entry
    <3> QED BY <1>a, <3>1, AtGoto
  <2> QED BY <2>2, <2>3
<1> QED BY <1>1, <1>2

(* A grant about to be killed is killed, or a restart has revoked it, or   *)
(* the database raised.                                                    *)
LEMMA LastKills ==
  ASSUME IInv, [Next]_vars, faults' = 0, NEW t \in Threads, pc[t] = "kill last"
  PROVE  \/ pc'[t] = "kill last" /\ req'[t] = req[t]
         \/ grant'[req[t].grant].killed
         \/ grant[req[t].grant].epoch < epoch'
<1>a. TypeOK /\ Sender(t) BY SenderNames DEF IInv, TypeInv, Sender
<1>1. CASE Entry(t) \/ Recovery(t) \/ Arrive(t)
  <2>1. KillLast(t)
    BY <1>1 DEF Entry, Recovery, Arrive, Lookup, ClaimEntry, Reserve, Replay,
       CheckScope, RefusedBeforeSend, BrokenBeforeSend, EnterSend, Authorize,
       OrderSend, OrderSendReturns, OrderSendAmbiguous, FinishSucceeded,
       BindOrder, KillGrant, Settle, SettleUnknown, StoreFailsEarly,
       FindOrder, Resolve, Capture, GetByClient
  <2>2. ~StoreRaises BY <1>a, CountersGrow
  <2> QED BY <1>a, <2>1, <2>2, GrantKills DEF KillLast
<1>2. CASE Restart
  <2>1. grant[req[t].grant].epoch = epoch
    BY <1>a DEF IInv, ThreadOK, ClaimOK, Verified
  <2>2. epoch < epoch' BY <1>a, <1>2, CountersGrow
  <2> QED BY <2>1, <2>2
<1> QED BY <1>a, <1>1, <1>2, OwnStep

LEMMA ClosedStays ==
  ASSUME IInv, [Next]_vars, faults' = 0, NEW c \in Clients, Closed(c),
         rec'[c].payload = rec[c].payload
  PROVE  Closed(c)'
<1>a. TypeInv /\ TypeOK /\ epoch \in Nat
  BY DEF IInv, TypeInv, TypeOK, SessionOK
<1>1. PICK g \in Grants :
        /\ grant[g].claim = rec[c].payload /\ grant[g].claim # None
        /\ \/ grant[g].killed
           \/ grant[g].epoch < epoch
           \/ \E t \in Threads : pc[t] = "kill last" /\ req[t].grant = g
  BY DEF Closed
<1>2. grant'[g].claim = grant[g].claim /\ grant'[g].epoch = grant[g].epoch
  BY <1>1, ClaimsStay
<1>3. \/ grant'[g].killed \/ grant'[g].epoch < epoch'
      \/ \E t \in Threads : pc'[t] = "kill last" /\ req'[t].grant = g
  <2>1. CASE grant[g].killed BY <1>a, <2>1, KilledStays
  <2>2. CASE grant[g].epoch < epoch
    <3>1. epoch' = epoch \/ epoch' = epoch + 1
      <4>1. ASSUME NEW t \in Threads, Entry(t) PROVE epoch' = epoch
        BY <4>1 DEF Entry, Lookup, ClaimEntry, Reserve, Replay, CheckScope,
           RefusedBeforeSend, BrokenBeforeSend, EnterSend, Authorize, OrderSend,
           OrderSendReturns, OrderSendAmbiguous, FinishSucceeded, BindOrder,
           KillGrant, Settle, SettleUnknown, KillLast, StoreFailsEarly,
           session, env
      <4>2. ASSUME NEW t \in Threads, Recovery(t) \/ Arrive(t)
            PROVE  epoch' = epoch
        BY <4>2 DEF Recovery, Arrive, FindOrder, Resolve, Capture, GetByClient,
           session, env
      <4>3. Environment => epoch' = epoch \/ epoch' = epoch + 1
        BY DEF Environment, Provision, KillEntry, BrokerDecides, PositionCloses,
           SwitchAccount, ConnectionLost, Tick, Restart, session, env
      <4> QED BY <4>1, <4>2, <4>3 DEF Next, vars
    <3>2. grant[g].epoch \in Nat
      BY <1>a DEF TypeOK, StoresOK, Grant
    <3>3. epoch \in Nat BY <1>a
    <3>4. grant[g].epoch < epoch' BY <2>2, <3>1, <3>2, <3>3
    <3> QED BY <1>2, <3>4
  <2>3. ASSUME NEW t \in Threads, pc[t] = "kill last", req[t].grant = g
        PROVE  \/ grant'[g].killed \/ grant'[g].epoch < epoch'
               \/ pc'[t] = "kill last" /\ req'[t].grant = g
    BY <1>2, <2>3, LastKills
  <2> QED BY <1>1, <2>1, <2>2, <2>3
<1> QED BY <1>1, <1>2, <1>3 DEF Closed

LEMMA UnknownsStayClosed ==
  ASSUME IInv, [Next]_vars, UnknownsClosed
  PROVE  UnknownsClosed'
<1>a. TypeOK /\ TypeInv BY DEF IInv, TypeInv
<1>1. ASSUME faults' = 0, NEW c \in Clients, rec'[c].state = "indeterminate"
      PROVE  Closed(c)'
  <2>1. faults = 0
    BY <1>a, <1>1, FaultsCounted DEF TypeOK, SessionOK
  <2>2. CASE rec[c].state = "indeterminate" /\ rec'[c].payload = rec[c].payload
    <3>1. Closed(c) BY <2>1, <2>2 DEF UnknownsClosed
    <3> QED BY <1>1, <2>2, <3>1, ClosedStays
  <2>3. ASSUME NEW t \in Threads, req[t].client = c,
               rec'[c].payload = rec[c].payload, SettleUnknown(t) \/ Settle(t)
        PROVE  Closed(c)'
    <3>1. pc[t] \in {"settle unknown", "settle"} /\ req' = req
      BY <2>3 DEF SettleUnknown, Settle
    <3>2. Sender(t) /\ ThreadOK(t) BY <3>1, SenderNames DEF Sender, IInv
    <3>3. /\ req[t].grant \in Grants /\ req[t].payload # None
          /\ rec[c].payload = req[t].payload
          /\ grant[req[t].grant].claim = req[t].payload
      BY <2>3, <3>2, ConstantsAssumption
         DEF ThreadOK, AsksOK, ClaimOK, RowOK, OwnRow
    <3>4. grant'[req[t].grant].claim = grant[req[t].grant].claim
      BY <3>3, ClaimsStay
    <3>5. CASE Settle(t)
      <4>1. grant[req[t].grant].killed BY <3>5 DEF Settle, UnknownsClosed
      <4>2. grant'[req[t].grant].killed BY <1>a, <3>3, <4>1, KilledStays
      <4> QED BY <2>3, <3>3, <3>4, <4>2 DEF Closed
    <3>6. CASE SettleUnknown(t)
      <4>1. ~StoreRaises BY <1>1, <2>1 DEF StoreRaises
      <4>2. Goto(t, "kill last") BY <3>6, <4>1 DEF SettleUnknown, FinishRaises
      <4>3. pc'[t] = "kill last" BY <1>a, <4>2, AtGoto
      <4> QED BY <2>3, <3>1, <3>3, <3>4, <4>3 DEF Closed
    <3> QED BY <2>3, <3>5, <3>6
  <2> QED BY <1>1, <2>2, <2>3, UnknownsCome
<1>2. \A t \in Threads : pc'[t] = "settle" => grant'[req'[t].grant].killed
  BY SettlesKilled
<1> QED BY <1>1, <1>2 DEF UnknownsClosed

(* While no statement has raised, an order of unknown outcome leaves no    *)
(* grant open for entry.                                                   *)
THEOREM UnknownsAreKilled == Spec => [](faults = 0 => UnknownEntryIsKilled)
<1>1. Init => UnknownsClosed
  <2>1. Init => \A t \in Threads : pc[t] # "settle" BY DEF Init
  <2>2. Init => \A c \in Clients : rec[c].state # "indeterminate"
    <3> SUFFICES ASSUME Init, NEW c \in Clients
                 PROVE  rec[c].state # "indeterminate"
      OBVIOUS
    <3>1. PICK a \in Accounts :
            rec = [d \in Clients |->
                     [state |-> "absent", payload |-> None, gen |-> 0, fp |-> a]]
      BY DEF Init
    <3> QED BY <3>1
  <2> QED BY <2>1, <2>2 DEF UnknownsClosed
<1>2. UnknownsClosed => (faults = 0 => UnknownEntryIsKilled)
  BY DEF UnknownsClosed, Closed, UnknownEntryIsKilled
<1>3. IInv /\ UnknownsClosed /\ [Next]_vars => UnknownsClosed'
  BY UnknownsStayClosed
<1> QED BY <1>1, <1>2, <1>3, InvariantHolds, PTL DEF Spec
=============================================================================
