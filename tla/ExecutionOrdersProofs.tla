----------------------- MODULE ExecutionOrdersProofs -----------------------
(***************************************************************************)
(* The inductive invariant of the entry path, and the proof that every     *)
(* step keeps it.  What follows from it is in ExecutionOrdersTheorems.     *)
(*                                                                         *)
(* The argument.  A thread between Reserve and its answer is the sender of *)
(* its client order.  There is at most one, because Reserve makes a thread *)
(* the sender only where no row was, and every sender has a row.  Before   *)
(* order_send the row is pending and nothing was sent, because only the    *)
(* sender, or a lookup that has found an order at the broker, finishes a   *)
(* row.  The session a sender captured is that of its grant and of the     *)
(* row, and the guard cannot move while the sender holds the client lock.  *)
(***************************************************************************)
EXTENDS ExecutionOrders, TLAPS

-----------------------------------------------------------------------------
(* Lemmas about the helpers the actions are written with. *)

LEMMA LabelNames ==
  /\ "idle" \in Labels /\ "lookup" \in Labels /\ "claim" \in Labels
  /\ "reserve" \in Labels /\ "replay" \in Labels /\ "find" \in Labels
  /\ "resolve" \in Labels /\ "done" \in Labels /\ "lost" \in Labels
  /\ "scope" \in Labels /\ "send" \in Labels /\ "authorize" \in Labels
  /\ "invoke" \in Labels /\ "await" \in Labels /\ "finish" \in Labels
  /\ "bind" \in Labels /\ "kill" \in Labels /\ "settle" \in Labels
  /\ "settle unknown" \in Labels /\ "kill last" \in Labels
BY DEF Labels, OwnerSteps, SettleSteps

LEMMA NoteNames ==
  /\ "none" \in Notes /\ "first" \in Notes /\ "again" \in Notes
  /\ "denied" \in Notes /\ "conflict" \in Notes /\ "accepted" \in Notes
  /\ "rejected" \in Notes /\ "unknown" \in Notes /\ "in progress" \in Notes
  /\ "not found" \in Notes /\ "found" \in Notes /\ "error" \in Notes
  /\ "absent" \in Notes /\ "pending" \in Notes /\ "succeeded" \in Notes
  /\ "failed" \in Notes /\ "indeterminate" \in Notes
BY DEF Notes, Answers, RecordStates

LEMMA StateNames ==
  /\ "absent" \in RecordStates /\ "pending" \in RecordStates
  /\ "succeeded" \in RecordStates /\ "failed" \in RecordStates
  /\ "indeterminate" \in RecordStates
BY DEF RecordStates

(* What a thread remembers when it is about to finish a row.  Without it   *)
(* the type of rec is not preserved: settle and resolve write note[t].     *)
Fits(l, n) ==
  /\ l \in {"kill", "settle"} => n \in {"failed", "indeterminate"}
  /\ l = "resolve" => n \in {"failed", "succeeded"}

NoteFits == \A t \in Threads : Fits(pc[t], note[t])

ControlOK ==
  pc \in [Threads -> Labels] /\ note \in [Threads -> Notes] /\ NoteFits

TypeInv == TypeOK /\ NoteFits

LEMMA GotoOK ==
  ASSUME ControlOK, NEW t \in Threads, NEW l \in Labels, Fits(l, note[t]),
         Goto(t, l), UNCHANGED note
  PROVE  ControlOK'
BY DEF ControlOK, NoteFits, Goto

LEMMA RememberOK ==
  ASSUME ControlOK, NEW t \in Threads, NEW l \in Labels, NEW n \in Notes,
         Fits(l, n), Goto(t, l), Remember(t, n)
  PROVE  ControlOK'
<1>1. pc' \in [Threads -> Labels] /\ note' \in [Threads -> Notes]
  BY DEF ControlOK, Goto, Remember
<1>2. ASSUME NEW u \in Threads PROVE Fits(pc'[u], note'[u])
  BY <1>2 DEF ControlOK, NoteFits, Goto, Remember
<1> QED BY <1>1, <1>2 DEF ControlOK, NoteFits

LEMMA AnswerOK ==
  ASSUME ControlOK, NEW t \in Threads, NEW n \in Notes, Answer(t, n)
  PROVE  ControlOK'
<1>1. "done" \in Labels /\ Fits("done", n) BY LabelNames DEF Fits
<1> QED BY <1>1, RememberOK DEF Answer

LEMMA KillTyped ==
  ASSUME grant \in [Grants -> Grant], NEW g, DisableEntry(g)
  PROVE  grant' \in [Grants -> Grant]
BY DEF DisableEntry, Grant

LEMMA FinishTyped ==
  ASSUME rec \in [Clients -> Record], NEW c, NEW s \in RecordStates,
         Finish(c, s)
  PROVE  rec' \in [Clients -> Record]
BY DEF Finish, Record

LEMMA LinkTyped ==
  ASSUME SessionOK
  PROVE  /\ Attached \in Links
         /\ \A l \in Links : Reset(l) \in Links
<1>1. Attached \in Links BY DEF SessionOK, Links, Attached
<1>2. ASSUME NEW l \in Links PROVE Reset(l) \in Links
  BY DEF Links, Reset
<1> QED BY <1>1, <1>2

LEMMA FaultsTyped ==
  ASSUME faults \in Nat, StoreRaises
  PROVE  faults' \in Nat
BY DEF StoreRaises

LEMMA ClaimTyped ==
  ASSUME grant \in [Grants -> Grant], NEW g, NEW p \in Payloads \cup {None}
  PROVE  [grant EXCEPT ![g].claim = p] \in [Grants -> Grant]
BY DEF Grant

LEMMA BindTyped ==
  ASSUME grant \in [Grants -> Grant], NEW g, NEW c \in Clients
  PROVE  [grant EXCEPT ![g].order = c] \in [Grants -> Grant]
BY DEF Grant

LEMMA GrantTyped ==
  ASSUME grant \in [Grants -> Grant], SessionOK, NEW g \in Grants
  PROVE  [grant EXCEPT ![g].ready = TRUE, ![g].gen = link.gen,
                       ![g].fp = link.fp, ![g].epoch = epoch]
           \in [Grants -> Grant]
<1> DEFINE row == [grant[g] EXCEPT !.ready = TRUE, !.gen = link.gen,
                                   !.fp = link.fp, !.epoch = epoch]
<1>1. link.gen \in Nat /\ link.fp \in Accounts /\ epoch \in Nat
  BY DEF SessionOK, Links
<1>2. grant[g] \in Grant OBVIOUS
<1>3. row \in Grant BY <1>1, <1>2 DEF Grant
<1>4. [grant EXCEPT ![g].ready = TRUE, ![g].gen = link.gen,
                    ![g].fp = link.fp, ![g].epoch = epoch]
        = [grant EXCEPT ![g] = row]
  OBVIOUS
<1> HIDE DEF row
<1> QED BY <1>3, <1>4

-----------------------------------------------------------------------------
LEMMA EntryControl ==
  ASSUME TypeInv, NEW t \in Threads, Entry(t)
  PROVE  ControlOK'
<1> USE LabelNames, NoteNames, StateNames DEF Fits
<1>a. ControlOK BY DEF TypeInv, TypeOK, ThreadsOK, ControlOK
<1>1. CASE Lookup(t) BY <1>a, <1>1, GotoOK, AnswerOK DEF Lookup
<1>2. CASE ClaimEntry(t)
  BY <1>a, <1>2, GotoOK, RememberOK, AnswerOK DEF ClaimEntry
<1>3. CASE Reserve(t)
  <2>1. rec[req[t].client].state \in Notes
    BY DEF TypeInv, TypeOK, StoresOK, ThreadsOK, Record, Asked, Notes
  <2> QED BY <1>a, <1>3, <2>1, GotoOK, RememberOK, AnswerOK
          DEF Reserve, NextAfterReserve
<1>4. CASE Replay(t)
  <2>1. ReplayAnswer(note[t]) \in Notes BY DEF ReplayAnswer
  <2> QED BY <1>a, <1>4, <2>1, AnswerOK DEF Replay
<1>5. CASE CheckScope(t) BY <1>a, <1>5, GotoOK DEF CheckScope
<1>6. CASE RefusedBeforeSend(t)
  BY <1>a, <1>6, RememberOK DEF RefusedBeforeSend
<1>7. CASE BrokenBeforeSend(t) BY <1>a, <1>7, GotoOK DEF BrokenBeforeSend
<1>8. CASE EnterSend(t) BY <1>a, <1>8, GotoOK DEF EnterSend
<1>9. CASE Authorize(t) BY <1>a, <1>9, GotoOK, RememberOK DEF Authorize
<1>10. CASE OrderSend(t) BY <1>a, <1>10, GotoOK DEF OrderSend
<1>11. CASE OrderSendReturns(t)
  BY <1>a, <1>11, GotoOK, RememberOK DEF OrderSendReturns
<1>12. CASE OrderSendAmbiguous(t)
  BY <1>a, <1>12, RememberOK DEF OrderSendAmbiguous
<1>13. CASE FinishSucceeded(t) BY <1>a, <1>13, GotoOK DEF FinishSucceeded
<1>14. CASE BindOrder(t)
  BY <1>a, <1>14, GotoOK, RememberOK, AnswerOK DEF BindOrder
<1>15. CASE KillGrant(t)
  BY <1>a, <1>15, GotoOK, AnswerOK DEF KillGrant, ControlOK, NoteFits
<1>16. CASE Settle(t) BY <1>a, <1>16, AnswerOK DEF Settle
<1>17. CASE SettleUnknown(t)
  BY <1>a, <1>17, GotoOK, AnswerOK DEF SettleUnknown
<1>18. CASE KillLast(t) BY <1>a, <1>18, AnswerOK DEF KillLast
<1>19. CASE StoreFailsEarly(t)
  BY <1>a, <1>19, AnswerOK DEF StoreFailsEarly
<1> QED BY <1>1, <1>2, <1>3, <1>4, <1>5, <1>6, <1>7, <1>8, <1>9, <1>10,
           <1>11, <1>12, <1>13, <1>14, <1>15, <1>16, <1>17, <1>18, <1>19
        DEF Entry

(* The rest of the type: stores, broker, session, lock and requests. *)
DataOK ==
  /\ StoresOK /\ BrokerOK /\ SessionOK
  /\ lock \in Threads \cup {None}
  /\ req \in [Threads -> Asked]

LEMMA EntryData ==
  ASSUME TypeInv, NEW t \in Threads, Entry(t)
  PROVE  DataOK'
<1> USE DEF DataOK, StoresOK, BrokerOK, SessionOK, stores, broker, session,
            env
<1>a. DataOK /\ NoteFits BY DEF TypeInv, TypeOK, ThreadsOK
<1>b. Attached \in Links /\ Reset(link) \in Links /\ Reset(Attached) \in Links
  BY <1>a, LinkTyped
<1>1. CASE Lookup(t) BY <1>a, <1>1 DEF Lookup
<1>2. CASE ClaimEntry(t)
  <2>1. grant' \in [Grants -> Grant]
    <3>1. req[t].payload \in Payloads \cup {None} BY <1>a DEF Asked
    <3> QED BY <1>a, <1>2, <3>1, ClaimTyped DEF ClaimEntry
  <2> QED BY <1>a, <1>2, <2>1 DEF ClaimEntry
<1>3. CASE Reserve(t)
  <2>1. rec' \in [Clients -> Record]
    BY <1>a, <1>3, StateNames DEF Reserve, Record, Asked
  <2> QED BY <1>a, <1>3, <2>1 DEF Reserve
<1>4. CASE Replay(t) BY <1>a, <1>b, <1>4 DEF Replay
<1>5. CASE CheckScope(t) BY <1>a, <1>b, <1>5 DEF CheckScope
<1>6. CASE RefusedBeforeSend(t) BY <1>a, <1>b, <1>6 DEF RefusedBeforeSend
<1>7. CASE BrokenBeforeSend(t) BY <1>a, <1>b, <1>7 DEF BrokenBeforeSend
<1>8. CASE EnterSend(t) BY <1>a, <1>b, <1>8 DEF EnterSend
<1>9. CASE Authorize(t) BY <1>a, <1>b, <1>9, FaultsTyped DEF Authorize
<1>10. CASE OrderSend(t)
  <2>1. /\ book' \in [Clients -> [fate : Fates, acct : Accounts]]
        /\ sends' \in [Clients -> Nat]
    BY <1>a, <1>10 DEF OrderSend, Fates, Asked
  <2> QED BY <1>a, <1>10, <2>1 DEF OrderSend
<1>11. CASE OrderSendReturns(t) BY <1>a, <1>11 DEF OrderSendReturns
<1>12. CASE OrderSendAmbiguous(t)
  BY <1>a, <1>b, <1>12 DEF OrderSendAmbiguous
<1>13. CASE FinishSucceeded(t)
  BY <1>a, <1>13, FinishTyped, FaultsTyped, StateNames
  DEF FinishSucceeded, FinishRaises
<1>14. CASE BindOrder(t)
  <2>1. grant' \in [Grants -> Grant]
    <3>1. req[t].client \in Clients BY <1>a DEF Asked
    <3>2. \/ UNCHANGED grant
          \/ grant' = [grant EXCEPT ![req[t].grant].order = req[t].client]
      BY <1>14, Zenon DEF BindOrder
    <3> QED BY <1>a, <3>1, <3>2, BindTyped
  <2>2. faults' \in Nat
    <3>1. UNCHANGED faults \/ StoreRaises BY <1>14, Zenon DEF BindOrder
    <3> QED BY <1>a, <3>1, FaultsTyped
  <2>3. UNCHANGED <<rec, broker, session, now, lock, req>>
    BY <1>14 DEF BindOrder
  <2> QED BY <1>a, <2>1, <2>2, <2>3
<1>15. CASE KillGrant(t)
  BY <1>a, <1>15, KillTyped, FaultsTyped DEF KillGrant
<1>16. CASE Settle(t)
  <2>1. note[t] \in RecordStates
    BY <1>a, <1>16, StateNames DEF Settle, NoteFits, Fits
  <2> QED BY <1>a, <1>16, <2>1, FinishTyped, FaultsTyped
         DEF Settle, FinishRaises
<1>17. CASE SettleUnknown(t)
  BY <1>a, <1>17, FinishTyped, FaultsTyped, StateNames
  DEF SettleUnknown, FinishRaises
<1>18. CASE KillLast(t) BY <1>a, <1>18, KillTyped, FaultsTyped DEF KillLast
<1>19. CASE StoreFailsEarly(t)
  BY <1>a, <1>19, FaultsTyped DEF StoreFailsEarly
<1> QED BY <1>1, <1>2, <1>3, <1>4, <1>5, <1>6, <1>7, <1>8, <1>9, <1>10,
           <1>11, <1>12, <1>13, <1>14, <1>15, <1>16, <1>17, <1>18, <1>19
        DEF Entry

LEMMA RequestTyped ==
  ASSUME TypeInv, NEW t \in Threads, Recovery(t) \/ Arrive(t)
  PROVE  ControlOK' /\ DataOK'
<1> USE LabelNames, NoteNames, StateNames
    DEF Fits, DataOK, StoresOK, BrokerOK, SessionOK, stores, broker, session,
        env
<1>a. ControlOK /\ DataOK BY DEF TypeInv, TypeOK, ThreadsOK, ControlOK
<1>b. Attached \in Links BY <1>a, LinkTyped
<1>1. CASE FindOrder(t)
  <2>1. ControlOK' BY <1>a, <1>1, RememberOK, AnswerOK DEF FindOrder
  <2>2. DataOK' BY <1>a, <1>b, <1>1 DEF FindOrder
  <2> QED BY <2>1, <2>2
<1>2. CASE Resolve(t)
  <2>1. ControlOK' BY <1>a, <1>2, AnswerOK DEF Resolve
  <2>2. note[t] \in RecordStates BY <1>a, <1>2 DEF Resolve, ControlOK, NoteFits
  <2>3. DataOK' BY <1>a, <1>2, <2>2, FinishTyped, FaultsTyped DEF Resolve, FinishRaises
  <2> QED BY <2>1, <2>3
<1>3. ASSUME NEW p \in Payloads, NEW g \in Grants, Capture(t, p, g)
      PROVE ControlOK' /\ DataOK'
  <2>1. ControlOK' BY <1>a, <1>3, GotoOK, AnswerOK DEF Capture
  <2>2. req' \in [Threads -> Asked]
    BY <1>a, <1>b, <1>3, ConstantsAssumption DEF Capture, Asked, Links
  <2>3. DataOK' BY <1>a, <1>b, <1>3, <2>2 DEF Capture
  <2> QED BY <2>1, <2>3
<1>4. ASSUME NEW c \in Clients, GetByClient(t, c)
      PROVE ControlOK' /\ DataOK'
  <2>1. rec[c].state \in Notes BY <1>a DEF Record, Notes
  <2>2. ControlOK' BY <1>a, <1>4, <2>1, RememberOK, AnswerOK DEF GetByClient
  <2>3. req' \in [Threads -> Asked] BY <1>a, <1>4 DEF GetByClient, Asked
  <2>4. DataOK' BY <1>a, <1>4, <2>3 DEF GetByClient
  <2> QED BY <2>2, <2>4
<1> QED BY <1>1, <1>2, <1>3, <1>4 DEF Recovery, Arrive

LEMMA EnvironmentTyped ==
  ASSUME TypeInv, Environment
  PROVE  ControlOK' /\ DataOK'
<1> USE DEF ControlOK, NoteFits, DataOK, StoresOK, BrokerOK, SessionOK,
            stores, broker, session, env, thread
<1>a. ControlOK /\ DataOK BY DEF TypeInv, TypeOK, ThreadsOK
<1>b. Reset(link) \in Links BY <1>a, LinkTyped
<1>1. ASSUME NEW g \in Grants, Provision(g) PROVE ControlOK' /\ DataOK'
  <2>1. grant' \in [Grants -> Grant]
    BY <1>a, <1>1, GrantTyped DEF Provision
  <2> QED BY <1>a, <1>1, <2>1 DEF Provision
<1>2. ASSUME NEW g \in Grants, KillEntry(g) PROVE ControlOK' /\ DataOK'
  BY <1>a, <1>2, KillTyped DEF KillEntry
<1>3. ASSUME NEW c \in Clients, BrokerDecides(c) PROVE ControlOK' /\ DataOK'
  <2>1. book' \in [Clients -> [fate : Fates, acct : Accounts]]
    BY <1>a, <1>3 DEF BrokerDecides, Fates
  <2> QED BY <1>a, <1>3, <2>1 DEF BrokerDecides
<1>4. ASSUME NEW c \in Clients, PositionCloses(c)
      PROVE ControlOK' /\ DataOK'
  <2>1. book' \in [Clients -> [fate : Fates, acct : Accounts]]
    BY <1>a, <1>4 DEF PositionCloses, Fates
  <2> QED BY <1>a, <1>4, <2>1 DEF PositionCloses
<1>5. ASSUME NEW a \in Accounts, SwitchAccount(a) PROVE ControlOK' /\ DataOK'
  BY <1>a, <1>5 DEF SwitchAccount
<1>6. CASE ConnectionLost BY <1>a, <1>b, <1>6 DEF ConnectionLost
<1>7. CASE Tick BY <1>a, <1>7 DEF Tick
<1>8. CASE Restart
  <2>1. pc' \in [Threads -> Labels]
    BY <1>a, <1>8, LabelNames DEF Restart
  <2>2. NoteFits' BY <1>a, <1>8, <2>1 DEF Restart, Fits
  <2>3. link' \in Links BY <1>a, <1>8 DEF Restart, Links
  <2> QED BY <1>a, <1>8, <2>1, <2>2, <2>3 DEF Restart
<1> QED BY <1>1, <1>2, <1>3, <1>4, <1>5, <1>6, <1>7, <1>8 DEF Environment

LEMMA TypeStep ==
  ASSUME TypeInv, [Next]_vars
  PROVE  TypeInv'
<1>1. ControlOK' /\ DataOK' => TypeInv'
  BY DEF ControlOK, DataOK, TypeInv, TypeOK, ThreadsOK
<1>2. ASSUME NEW t \in Threads, Arrive(t) \/ Entry(t) \/ Recovery(t)
      PROVE TypeInv'
  BY <1>1, <1>2, EntryControl, EntryData, RequestTyped
<1>3. CASE Environment BY <1>1, <1>3, EnvironmentTyped
<1>4. CASE UNCHANGED vars
  BY <1>4 DEF vars, TypeInv, TypeOK, StoresOK, BrokerOK, SessionOK,
     ThreadsOK, NoteFits
<1> QED BY <1>2, <1>3, <1>4 DEF Next

LEMMA TypeInit == Init => TypeInv
<1> SUFFICES ASSUME Init PROVE TypeInv OBVIOUS
<1>1. StoresOK /\ BrokerOK /\ SessionOK
  BY StateNames DEF Init, StoresOK, BrokerOK, SessionOK, Record, Grant,
     Fates, Links
<1>2. ThreadsOK
  <2>1. req \in [Threads -> Asked] BY DEF Init, Asked
  <2>2. pc \in [Threads -> Labels] /\ note \in [Threads -> Notes]
    BY LabelNames, NoteNames DEF Init
  <2> QED BY <2>1, <2>2 DEF Init, ThreadsOK
<1>3. NoteFits BY DEF Init, NoteFits, Fits
<1> QED BY <1>1, <1>2, <1>3 DEF TypeInv, TypeOK

(* Every variable keeps its type. *)
THEOREM TypeCorrect == Spec => []TypeOK
<1>1. TypeInv /\ [Next]_vars => TypeInv' BY TypeStep
<1>2. TypeInv => TypeOK BY DEF TypeInv
<1> QED BY TypeInit, <1>1, <1>2, PTL DEF Spec

-----------------------------------------------------------------------------
(* The inductive invariant *)

Sender(t) == pc[t] \in OwnerSteps \cup SettleSteps

(* What a thread of create_order was asked. *)
AsksOK(t) ==
  Sender(t) \/ pc[t] \in {"lookup", "claim", "reserve", "replay"} =>
    /\ req[t].payload \in Payloads /\ req[t].grant \in Grants
    /\ req[t].client = ClientOf[req[t].payload]

(* A sender, or a thread that has just made the claim, holds its grant. *)
ClaimOK(t) ==
  Sender(t) \/ (pc[t] = "reserve" /\ note[t] = "first") =>
    /\ Verified(req[t].grant, t)
    /\ grant[req[t].grant].claim = req[t].payload

FirstOK(t) ==
  pc[t] \in OwnerSteps \cup {"await", "finish", "bind"} => note[t] = "first"

(* A sender's row is its own; before the send it is pending. *)
OwnRow(t) ==
  LET c == req[t].client IN
  /\ rec[c].state # "absent"
  /\ rec[c].payload = req[t].payload /\ rec[c].fp = req[t].fp

RowOK(t) ==
  LET c == req[t].client IN
  /\ Sender(t) => OwnRow(t)
  /\ pc[t] \in OwnerSteps => rec[c].state = "pending" /\ sends[c] = 0
  /\ pc[t] \in {"find", "resolve"} => rec[c].state # "absent"

(* The client lock is held from EnterSend until order_send has returned,   *)
(* and under it the guard stays where the request captured it.             *)
LockOK(t) ==
  /\ pc[t] \in {"authorize", "invoke", "await"} <=> lock = t
  /\ lock = t => link.gen = req[t].gen /\ link.fp = req[t].fp

(* What a thread knows of the order at the broker. *)
SentOK(t) ==
  LET c == req[t].client IN
  /\ pc[t] = "await" =>
       sends[c] = 1 /\ (terminal = link.fp => book[c].acct = link.fp)
  /\ pc[t] \in {"finish", "bind"} =>
       sends[c] = 1 /\ book[c].acct = req[t].fp
  /\ pc[t] \in {"kill", "settle"} /\ note[t] = "failed" =>
       book[c].fate \in {"none", "rejected"}
  /\ pc[t] = "resolve" =>
       /\ sends[c] = 1 /\ book[c].acct = rec[c].fp
       /\ note[t] = "failed" => book[c].fate = "rejected"

ThreadOK(t) ==
  AsksOK(t) /\ ClaimOK(t) /\ FirstOK(t) /\ RowOK(t) /\ LockOK(t) /\ SentOK(t)

(* A row and the broker. *)
ClientOK(c) ==
  /\ sends[c] \in {0, 1}
  /\ book[c].fate = "none" <=> sends[c] = 0
  /\ rec[c].state = "absent" => sends[c] = 0
  /\ rec[c].state = "failed" => book[c].fate \in {"none", "rejected"}
  /\ rec[c].state = "succeeded" => sends[c] = 1 /\ book[c].acct = rec[c].fp

(* A grant, its claim and the order bound to it. *)
GrantOK(g) ==
  /\ grant[g].claim # None =>
       grant[g].ready /\ ClientOf[grant[g].claim] = GrantClient[g]
  /\ grant[g].order # None =>
       /\ grant[g].claim # None /\ grant[g].order = GrantClient[g]
       /\ sends[GrantClient[g]] = 1
       /\ book[GrantClient[g]].acct = grant[g].fp

OneSender ==
  \A t, u \in Threads :
    Sender(t) /\ Sender(u) /\ req[t].client = req[u].client => t = u

IInv ==
  /\ TypeInv
  /\ \A t \in Threads : ThreadOK(t)
  /\ \A c \in Clients : ClientOK(c)
  /\ \A g \in Grants : GrantOK(g)
  /\ OneSender

-----------------------------------------------------------------------------
LEMMA OwnerNames ==
  \A l : l \in OwnerSteps <=> l \in {"scope", "send", "authorize", "invoke"}
BY DEF OwnerSteps

LEMMA SenderNames ==
  \A l : l \in OwnerSteps \cup SettleSteps <=>
    l \in {"scope", "send", "authorize", "invoke", "await", "finish", "bind",
           "kill", "settle", "settle unknown", "kill last"}
BY DEF OwnerSteps, SettleSteps

LEMMA AtGoto ==
  ASSUME TypeOK, NEW t \in Threads, NEW l, Goto(t, l)
  PROVE  pc'[t] = l /\ \A u \in Threads \ {t} : pc'[u] = pc[u]
BY DEF TypeOK, ThreadsOK, Goto

LEMMA AtRemember ==
  ASSUME TypeOK, NEW t \in Threads, NEW n, Remember(t, n)
  PROVE  note'[t] = n /\ \A u \in Threads \ {t} : note'[u] = note[u]
BY DEF TypeOK, ThreadsOK, Remember

LEMMA AtAnswer ==
  ASSUME TypeOK, NEW t \in Threads, NEW n, Answer(t, n)
  PROVE  /\ pc'[t] = "done"
         /\ \A u \in Threads \ {t} : pc'[u] = pc[u] /\ note'[u] = note[u]
BY AtGoto, AtRemember DEF Answer

-----------------------------------------------------------------------------
(* What another thread's step leaves of the state a thread relies on. *)

Undisturbed(u) == pc'[u] = pc[u] /\ req'[u] = req[u] /\ note'[u] = note[u]

GrantsKept ==
  /\ epoch' = epoch
  /\ \A g \in Grants :
       /\ grant[g].ready =>
            /\ grant'[g].ready /\ grant'[g].gen = grant[g].gen
            /\ grant'[g].fp = grant[g].fp /\ grant'[g].epoch = grant[g].epoch
       /\ grant[g].claim # None => grant'[g].claim = grant[g].claim

RowKept(c) ==
  rec[c].state # "absent" =>
    /\ rec'[c].state # "absent"
    /\ rec'[c].payload = rec[c].payload /\ rec'[c].fp = rec[c].fp

SendKept(c) ==
  /\ sends[c] = 1 => sends'[c] = 1 /\ book'[c].acct = book[c].acct
  /\ book[c].fate = "rejected" => book'[c].fate = "rejected"

(* Nobody but the sender of c sends c, or finishes the row before. *)
UnsentKept(c) ==
  /\ sends[c] = 0 => sends'[c] = 0
  /\ sends[c] = 0 /\ rec[c].state = "pending" => rec'[c].state = "pending"
  /\ book[c].fate \in {"none", "rejected"} => book'[c].fate = book[c].fate

LockKept(u) ==
  /\ lock' = u <=> lock = u
  /\ lock = u =>
       /\ link'.gen = link.gen /\ link'.fp = link.fp
       /\ terminal' = link.fp => terminal = link.fp

LEMMA Kept ==
  ASSUME NEW u \in Threads, IInv, Undisturbed(u), GrantsKept,
         RowKept(req[u].client), SendKept(req[u].client), LockKept(u),
         Sender(u) => UnsentKept(req[u].client)
  PROVE  ThreadOK(u)'
<1> USE DEF Undisturbed
<1>a. ThreadOK(u) /\ req[u].client \in Clients
  BY DEF IInv, TypeInv, TypeOK, ThreadsOK, Asked
<1>b. Sender(u)' = Sender(u) BY DEF Sender
<1>1. AsksOK(u)' BY <1>a, <1>b DEF ThreadOK, AsksOK
<1>2. ClaimOK(u)'
  <2> SUFFICES ASSUME (Sender(u) \/ (pc[u] = "reserve" /\ note[u] = "first"))
      PROVE /\ Verified(req[u].grant, u)'
            /\ grant'[req[u].grant].claim = req[u].payload
    BY <1>b DEF ClaimOK
  <2>1. /\ req[u].grant \in Grants /\ req[u].payload \in Payloads
        /\ Verified(req[u].grant, u)
        /\ grant[req[u].grant].claim = req[u].payload
    BY <1>a DEF ThreadOK, AsksOK, ClaimOK
  <2>2. req[u].payload # None BY <2>1, ConstantsAssumption
  <2> QED BY <2>1, <2>2 DEF GrantsKept, Verified
<1>3. FirstOK(u)' BY <1>a DEF ThreadOK, FirstOK
<1>4. RowOK(u)'
  <2>1. pc[u] \in OwnerSteps => Sender(u) BY DEF Sender
  <2> QED BY <1>a, <1>b, <2>1 DEF ThreadOK, RowOK, OwnRow, RowKept, UnsentKept
<1>5. LockOK(u)' BY <1>a DEF ThreadOK, LockOK, LockKept
<1>6. SentOK(u)'
  <2>1. pc[u] \in {"await", "kill", "settle"} => Sender(u)
    BY SenderNames DEF Sender
  <2>2. pc[u] = "await" => lock = u /\ link'.fp = link.fp
    BY <1>a DEF ThreadOK, LockOK, LockKept
  <2>3. pc[u] = "resolve" => rec'[req[u].client].fp = rec[req[u].client].fp
    BY <1>a DEF ThreadOK, RowOK, RowKept
  <2> QED BY <1>a, <2>1, <2>2, <2>3
          DEF ThreadOK, SentOK, SendKept, UnsentKept, LockKept
<1> QED BY <1>1, <1>2, <1>3, <1>4, <1>5, <1>6 DEF ThreadOK

LEMMA Steady ==
  ASSUME IInv, UNCHANGED <<rec, grant, book, sends>>
  PROVE  /\ \A c \in Clients : ClientOK(c)'
         /\ \A g \in Grants : GrantOK(g)'
BY DEF IInv, ClientOK, GrantOK

LEMMA OneSenderKept ==
  ASSUME IInv, NEW t \in Threads, \A u \in Threads \ {t} : Undisturbed(u),
         Sender(t)' => Sender(t) /\ req'[t].client = req[t].client
  PROVE  OneSender'
BY DEF IInv, OneSender, Undisturbed, Sender

(* A step of t that only moves t, the connection and the client lock.      *)
Walks(t) ==
  /\ \A u \in Threads \ {t} : Undisturbed(u)
  /\ UNCHANGED <<rec, grant, book, sends, epoch, terminal>>
  /\ \/ UNCHANGED <<lock, link>>
     \/ lock \in {t, None} /\ lock' \in {t, None}

LEMMA WalkStep ==
  ASSUME IInv, NEW t \in Threads, Walks(t), TypeInv', ThreadOK(t)',
         Sender(t)' => Sender(t) /\ req'[t].client = req[t].client
  PROVE  IInv'
<1> USE DEF Walks
<1>1. ASSUME NEW u \in Threads \ {t} PROVE ThreadOK(u)'
  <2>1. u # None BY ConstantsAssumption
  <2>2. LockKept(u) BY <2>1 DEF LockKept
  <2>3. GrantsKept /\ \A c : RowKept(c) /\ SendKept(c) /\ UnsentKept(c)
    BY DEF GrantsKept, RowKept, SendKept, UnsentKept
  <2> QED BY <2>2, <2>3, Kept
<1>2. OneSender' BY OneSenderKept
<1> QED BY <1>1, <1>2, Steady DEF IInv

-----------------------------------------------------------------------------
(* Where a step leaves its own thread. *)

LEMMA Rests ==
  ASSUME NEW t, pc'[t] \in {"idle", "done", "lost"}, lock' # t
  PROVE  ThreadOK(t)' /\ ~Sender(t)'
<1>1. ~Sender(t)' /\ pc'[t] \notin OwnerSteps
  BY SenderNames, OwnerNames DEF Sender
<1> QED BY <1>1 DEF ThreadOK, AsksOK, ClaimOK, FirstOK, RowOK, LockOK, SentOK

(* A sender that goes on keeps its request, its claim and its row. *)
LEMMA SenderGoesOn ==
  ASSUME IInv, NEW t \in Threads, Sender(t), Sender(t)', req'[t] = req[t],
         GrantsKept, RowKept(req[t].client)
  PROVE  AsksOK(t)' /\ ClaimOK(t)' /\ OwnRow(t)'
<1>a. ThreadOK(t) BY DEF IInv
<1>1. AsksOK(t)' BY <1>a DEF ThreadOK, AsksOK
<1>2. ClaimOK(t)'
  <2>1. /\ req[t].grant \in Grants /\ req[t].payload \in Payloads
        /\ Verified(req[t].grant, t)
        /\ grant[req[t].grant].claim = req[t].payload
    BY <1>a DEF ThreadOK, AsksOK, ClaimOK
  <2>2. req[t].payload # None BY <2>1, ConstantsAssumption
  <2> QED BY <2>1, <2>2 DEF GrantsKept, Verified, ClaimOK
<1>3. OwnRow(t)' BY <1>a DEF ThreadOK, RowOK, OwnRow, RowKept
<1> QED BY <1>1, <1>2, <1>3

LEMMA OwnerGoesOn ==
  ASSUME IInv, NEW t \in Threads, Walks(t), req'[t] = req[t],
         note'[t] = note[t], pc[t] \in OwnerSteps, pc'[t] \in OwnerSteps,
         LockOK(t)'
  PROVE  ThreadOK(t)'
<1>a. ThreadOK(t) BY DEF IInv
<1>b. Sender(t) /\ Sender(t)' BY DEF Sender
<1>c. GrantsKept /\ RowKept(req[t].client) BY DEF Walks, GrantsKept, RowKept
<1>1. AsksOK(t)' /\ ClaimOK(t)' /\ OwnRow(t)'
  BY <1>b, <1>c, SenderGoesOn
<1>2. FirstOK(t)' BY <1>a DEF ThreadOK, FirstOK
<1>3. RowOK(t)'
  <2>1. pc'[t] \notin {"find", "resolve"} BY OwnerNames
  <2> QED BY <1>a, <1>1, <2>1 DEF ThreadOK, RowOK, Walks
<1>4. SentOK(t)' BY OwnerNames DEF SentOK
<1> QED BY <1>1, <1>2, <1>3, <1>4 DEF ThreadOK

(* A sender on its way through an except clause. *)
LEMMA SenderSettles ==
  ASSUME IInv, NEW t \in Threads, Sender(t), req'[t] = req[t],
         pc'[t] \in {"kill", "settle", "settle unknown", "kill last"},
         GrantsKept, RowKept(req[t].client), lock' # t,
         note'[t] = "failed" =>
           \/ pc'[t] \notin {"kill", "settle"}
           \/ book'[req[t].client].fate \in {"none", "rejected"}
  PROVE  ThreadOK(t)'
<1>a. Sender(t)' /\ pc'[t] \notin OwnerSteps
  BY SenderNames, OwnerNames DEF Sender
<1>1. AsksOK(t)' /\ ClaimOK(t)' /\ OwnRow(t)' BY <1>a, SenderGoesOn
<1>2. FirstOK(t)' BY <1>a DEF FirstOK
<1>3. RowOK(t)' BY <1>a, <1>1 DEF RowOK
<1>4. LockOK(t)' BY DEF LockOK
<1>5. SentOK(t)' BY DEF SentOK
<1> QED BY <1>1, <1>2, <1>3, <1>4, <1>5 DEF ThreadOK

LEMMA AttachedHolds ==
  ASSUME NEW t, SessionHolds(t)
  PROVE  Attached.gen = req[t].gen /\ Attached.fp = req[t].fp
BY DEF SessionHolds, CallPasses, Attached

-----------------------------------------------------------------------------
(* The steps of a thread that write no store and send nothing. *)

LEMMA ReadingSteps ==
  ASSUME IInv, TypeInv', NEW t \in Threads,
         Lookup(t) \/ Replay(t) \/ StoreFailsEarly(t) \/ FindOrder(t)
  PROVE  IInv'
<1> USE DEF stores, broker, session, env
<1>a. TypeOK /\ ThreadOK(t) /\ t # None /\ lock # t
  <2>1. TypeOK /\ ThreadOK(t) BY DEF IInv, TypeInv
  <2>2. pc[t] \in {"lookup", "claim", "reserve", "replay", "find"}
    BY DEF Lookup, Replay, StoreFailsEarly, FindOrder
  <2> QED BY <2>1, <2>2, ConstantsAssumption DEF ThreadOK, LockOK
<1>1. CASE Lookup(t)
  <2>1. Walks(t) /\ req'[t] = req[t] /\ lock' # t
    BY <1>1, <1>a, AtGoto, AtAnswer DEF Lookup, Walks, Undisturbed
  <2>2. ASSUME pc'[t] = "claim" PROVE ThreadOK(t)' /\ ~Sender(t)'
    <3>1. ~Sender(t)' /\ pc'[t] \notin OwnerSteps
      BY <2>2, SenderNames, OwnerNames DEF Sender
    <3>2. AsksOK(t)' BY <1>1, <1>a, <2>1 DEF Lookup, ThreadOK, AsksOK
    <3> QED BY <2>1, <2>2, <3>1, <3>2
            DEF ThreadOK, ClaimOK, FirstOK, RowOK, LockOK, SentOK
  <2>3. pc'[t] \in {"claim", "done"}
    BY <1>1, <1>a, AtGoto, AtAnswer DEF Lookup
  <2>4. ThreadOK(t)' /\ ~Sender(t)' BY <2>1, <2>2, <2>3, Rests
  <2> QED BY <2>1, <2>4, WalkStep
<1>2. CASE Replay(t) \/ StoreFailsEarly(t)
  <2>1. Walks(t) /\ pc'[t] = "done" /\ lock' # t
    BY <1>2, <1>a, AtAnswer DEF Replay, StoreFailsEarly, Walks, Undisturbed
  <2> QED BY <2>1, Rests, WalkStep
<1>3. CASE FindOrder(t)
  <2> DEFINE c == req[t].client
  <2>1. Walks(t) /\ req'[t] = req[t] /\ lock' # t
    <3>1. \A u \in Threads \ {t} : pc'[u] = pc[u] /\ note'[u] = note[u]
      BY <1>3, <1>a, AtGoto, AtRemember, AtAnswer DEF FindOrder
    <3>2. /\ UNCHANGED <<rec, grant, book, sends, epoch, terminal, lock, req>>
          /\ lock = None
      BY <1>3 DEF FindOrder
    <3> QED BY <1>a, <3>1, <3>2 DEF Walks, Undisturbed
  <2>2. CASE pc'[t] = "resolve"
    <3>1. /\ terminal = rec[c].fp /\ book[c].acct = terminal
          /\ book[c].fate \in {"flying", "open", "closed", "rejected"}
          /\ note'[t] = IF book[c].fate = "rejected" THEN "failed"
                                                    ELSE "succeeded"
      BY <1>3, <1>a, <2>2, AtGoto, AtRemember, AtAnswer DEF FindOrder
    <3>2. ~Sender(t)' /\ pc'[t] \notin OwnerSteps
      BY <2>2, SenderNames, OwnerNames DEF Sender
    <3>3. sends[c] = 1
      <4>1. c \in Clients BY <1>a DEF TypeOK, ThreadsOK, Asked
      <4> QED BY <3>1, <4>1 DEF IInv, ClientOK
    <3>4. RowOK(t)'
      <4>1. rec[c].state # "absent"
        BY <1>3, <1>a DEF FindOrder, ThreadOK, RowOK
      <4> QED BY <2>1, <3>2, <4>1 DEF RowOK, Walks
    <3>5. SentOK(t)' BY <2>1, <2>2, <3>1, <3>3 DEF SentOK, Walks
    <3>6. AsksOK(t)' /\ ClaimOK(t)' /\ FirstOK(t)' /\ LockOK(t)'
      BY <2>1, <2>2, <3>2 DEF AsksOK, ClaimOK, FirstOK, LockOK
    <3>7. ThreadOK(t)' BY <3>4, <3>5, <3>6 DEF ThreadOK
    <3> QED BY <2>1, <3>2, <3>7, WalkStep
  <2>3. CASE pc'[t] = "done"
    BY <2>1, <2>3, Rests, WalkStep
  <2> QED BY <1>3, <1>a, <2>2, <2>3, AtGoto, AtAnswer DEF FindOrder
<1> QED BY <1>1, <1>2, <1>3

LEMMA ArrivingSteps ==
  ASSUME IInv, TypeInv', NEW t \in Threads, Arrive(t)
  PROVE  IInv'
<1> USE DEF stores, broker, session, env
<1>a. TypeOK /\ ThreadOK(t) /\ t # None BY ConstantsAssumption DEF IInv, TypeInv
<1>1. ASSUME NEW p \in Payloads, NEW g \in Grants, Capture(t, p, g)
      PROVE IInv'
  <2>1. Walks(t) /\ lock' # t
    BY <1>1, <1>a, AtGoto, AtAnswer
    DEF Capture, Walks, Undisturbed
  <2>2. CASE pc'[t] = "done" BY <2>1, <2>2, Rests, WalkStep
  <2>3. CASE pc'[t] = "lookup"
    <3>1. ~Sender(t)' /\ pc'[t] \notin OwnerSteps
      BY <2>3, SenderNames, OwnerNames DEF Sender
    <3>2. AsksOK(t)'
      <4>1. /\ req'[t].payload = p /\ req'[t].grant = g
            /\ req'[t].client = ClientOf[p]
        BY <1>1, <1>a DEF Capture, TypeOK, ThreadsOK
      <4> QED BY <4>1 DEF AsksOK
    <3>3. ThreadOK(t)' BY <2>1, <2>3, <3>1, <3>2
       DEF ThreadOK, ClaimOK, FirstOK, RowOK, LockOK, SentOK
    <3> QED BY <2>1, <3>1, <3>3, WalkStep
  <2> QED BY <1>1, <1>a, <2>2, <2>3, AtGoto, AtAnswer DEF Capture
<1>2. ASSUME NEW c \in Clients, GetByClient(t, c) PROVE IInv'
  <2>0. lock # t
    <3>1. pc[t] = "idle" BY <1>2 DEF GetByClient
    <3> QED BY <3>1, <1>a DEF ThreadOK, LockOK
  <2>1. Walks(t) /\ lock' # t
    <3>1. UNCHANGED <<rec, grant, book, sends, epoch, terminal, lock, link>>
      BY <1>2 DEF GetByClient
    <3>2. \A u \in Threads \ {t} : req'[u] = req[u]
      BY <1>2, <1>a DEF GetByClient, TypeOK, ThreadsOK
    <3>3. \A u \in Threads \ {t} : pc'[u] = pc[u] /\ note'[u] = note[u]
      BY <1>2, <1>a, AtGoto, AtRemember, AtAnswer DEF GetByClient
    <3> QED BY <2>0, <3>1, <3>2, <3>3 DEF Walks, Undisturbed
  <2>2. CASE pc'[t] = "done" BY <2>1, <2>2, Rests, WalkStep
  <2>3. CASE pc'[t] = "find"
    <3>1. ~Sender(t)' /\ pc'[t] \notin OwnerSteps
      BY <2>3, SenderNames, OwnerNames DEF Sender
    <3>2. RowOK(t)'
      <4>1. req'[t].client = c
        BY <1>2, <1>a DEF GetByClient, TypeOK, ThreadsOK, Asked
      <4>2. rec'[c].state # "absent"
        BY <1>2, <1>a, <2>3, AtAnswer DEF GetByClient
      <4> QED BY <3>1, <4>1, <4>2 DEF RowOK
    <3>3. ThreadOK(t)' BY <2>1, <2>3, <3>1, <3>2
       DEF ThreadOK, AsksOK, ClaimOK, FirstOK, LockOK, SentOK
    <3> QED BY <2>1, <3>1, <3>3, WalkStep
  <2> QED BY <1>2, <1>a, <2>2, <2>3, AtGoto, AtAnswer DEF GetByClient
<1> QED BY <1>1, <1>2 DEF Arrive

-----------------------------------------------------------------------------
(* The steps of a sender up to order_send, and what it learns from it. *)

LEMMA CheckingSteps ==
  ASSUME IInv, TypeInv', NEW t \in Threads,
         \/ CheckScope(t) \/ RefusedBeforeSend(t) \/ BrokenBeforeSend(t)
         \/ EnterSend(t)
  PROVE  IInv'
<1> USE DEF stores, broker, session, env
<1>a. TypeOK /\ ThreadOK(t) /\ t # None /\ req[t].client \in Clients
  BY ConstantsAssumption DEF IInv, TypeInv, TypeOK, ThreadsOK, Asked
<1>b. pc[t] \in {"scope", "send"} /\ lock = None
  BY DEF CheckScope, RefusedBeforeSend, BrokenBeforeSend, EnterSend
<1>c. pc[t] \in OwnerSteps /\ Sender(t)
  BY <1>b, OwnerNames DEF Sender
<1>d. book[req[t].client].fate = "none"
  BY <1>a, <1>c DEF ThreadOK, RowOK, IInv, ClientOK
<1>1. CASE CheckScope(t)
  <2>1. /\ Walks(t) /\ req'[t] = req[t] /\ note'[t] = note[t]
        /\ lock' # t /\ pc'[t] = "send"
    BY <1>1, <1>a, AtGoto DEF CheckScope, Walks, Undisturbed
  <2>2. LockOK(t)' BY <2>1 DEF LockOK
  <2>3. ThreadOK(t)' BY <1>c, <2>1, <2>2, OwnerNames, OwnerGoesOn
  <2> QED BY <1>c, <2>1, <2>3, WalkStep
<1>2. CASE EnterSend(t)
  <2>1. /\ Walks(t) /\ req'[t] = req[t] /\ note'[t] = note[t]
        /\ lock' = t /\ pc'[t] = "authorize"
    BY <1>2, <1>a, AtGoto DEF EnterSend, Walks, Undisturbed
  <2>2. LockOK(t)' BY <1>2, <2>1, AttachedHolds DEF EnterSend, LockOK
  <2>3. ThreadOK(t)' BY <1>c, <2>1, <2>2, OwnerNames, OwnerGoesOn
  <2> QED BY <1>c, <2>1, <2>3, WalkStep
<1>3. CASE RefusedBeforeSend(t) \/ BrokenBeforeSend(t)
  <2>1. /\ Walks(t) /\ req'[t] = req[t] /\ lock' # t
        /\ pc'[t] \in {"kill", "settle unknown"}
    BY <1>3, <1>a, AtGoto, AtRemember
    DEF RefusedBeforeSend, BrokenBeforeSend, Walks, Undisturbed
  <2>2. GrantsKept /\ RowKept(req[t].client) /\ UNCHANGED book
    BY <2>1 DEF Walks, GrantsKept, RowKept
  <2>3. ThreadOK(t)' BY <1>c, <1>d, <2>1, <2>2, SenderSettles
  <2> QED BY <1>c, <2>1, <2>3, WalkStep
<1> QED BY <1>1, <1>2, <1>3

LEMMA LockedSteps ==
  ASSUME IInv, TypeInv', NEW t \in Threads, Authorize(t)
  PROVE  IInv'
<1> USE DEF stores, broker, session, env
<1>a. TypeOK /\ ThreadOK(t) /\ t # None /\ req[t].client \in Clients
  BY ConstantsAssumption DEF IInv, TypeInv, TypeOK, ThreadsOK, Asked
<1>b. pc[t] = "authorize" BY DEF Authorize
<1>c. pc[t] \in OwnerSteps /\ Sender(t) /\ lock = t
  BY <1>a, <1>b, OwnerNames DEF Sender, ThreadOK, LockOK
<1>d. book[req[t].client].fate = "none"
  BY <1>a, <1>c DEF ThreadOK, RowOK, IInv, ClientOK
<1>e. Walks(t) /\ req'[t] = req[t]
  <2>1. \A u \in Threads \ {t} : pc'[u] = pc[u] /\ note'[u] = note[u]
    BY <1>a, AtGoto, AtRemember DEF Authorize
  <2>2. /\ UNCHANGED <<rec, grant, book, sends, epoch, terminal, req>>
        /\ lock' \in {lock, None}
    BY DEF Authorize
  <2> QED BY <1>a, <1>c, <2>1, <2>2 DEF Walks, Undisturbed
<1>f. \/ /\ Goto(t, "invoke") /\ note' = note
         /\ lock' = lock /\ link' = link
      \/ lock' = None /\ (Goto(t, "kill") \/ Goto(t, "settle unknown"))
  BY Zenon DEF Authorize
<1>1. CASE Goto(t, "invoke") /\ note' = note /\ lock' = lock /\ link' = link
  <2>1. pc'[t] = "invoke" BY <1>a, <1>1, AtGoto
  <2>2. LockOK(t)' BY <1>a, <1>c, <1>e, <1>1, <2>1 DEF ThreadOK, LockOK
  <2>3. ThreadOK(t)' BY <1>c, <1>e, <1>1, <2>1, <2>2, OwnerNames, OwnerGoesOn
  <2> QED BY <1>c, <1>e, <2>3, WalkStep
<1>2. CASE lock' = None /\ (Goto(t, "kill") \/ Goto(t, "settle unknown"))
  <2>1. pc'[t] \in {"kill", "settle unknown"} BY <1>a, <1>2, AtGoto
  <2>2. GrantsKept /\ RowKept(req[t].client) /\ UNCHANGED book
    BY <1>e DEF Walks, GrantsKept, RowKept
  <2>3. ThreadOK(t)'
    BY <1>a, <1>c, <1>d, <1>e, <1>2, <2>1, <2>2, SenderSettles
  <2> QED BY <1>c, <1>e, <2>3, WalkStep
<1> QED BY <1>1, <1>2, <1>f

LEMMA ReturningSteps ==
  ASSUME IInv, TypeInv', NEW t \in Threads,
         OrderSendReturns(t) \/ OrderSendAmbiguous(t)
  PROVE  IInv'
<1> USE DEF stores, broker, session, env
<1> DEFINE c == req[t].client
<1>a. TypeOK /\ ThreadOK(t) /\ t # None /\ c \in Clients
  BY ConstantsAssumption DEF IInv, TypeInv, TypeOK, ThreadsOK, Asked
<1>b. pc[t] = "await" BY DEF OrderSendReturns, OrderSendAmbiguous
<1>c. Sender(t) /\ lock = t
  BY <1>a, <1>b, SenderNames DEF Sender, ThreadOK, LockOK
<1>d. Walks(t) /\ req'[t] = req[t] /\ lock' # t
  <2>1. \A u \in Threads \ {t} : pc'[u] = pc[u] /\ note'[u] = note[u]
    BY <1>a, AtGoto, AtRemember DEF OrderSendReturns, OrderSendAmbiguous
  <2>2. /\ UNCHANGED <<rec, grant, book, sends, epoch, terminal, req>>
        /\ lock' = None
    BY DEF OrderSendReturns, OrderSendAmbiguous
  <2> QED BY <1>a, <1>c, <2>1, <2>2 DEF Walks, Undisturbed
<1>e. GrantsKept /\ RowKept(c) /\ UNCHANGED book
  BY <1>d DEF Walks, GrantsKept, RowKept
<1>1. CASE pc'[t] = "kill"
  <2>1. note'[t] = "failed" => book[c].fate = "rejected"
    BY <1>a, <1>1, AtGoto, AtRemember
    DEF OrderSendReturns, OrderSendAmbiguous, Replied
  <2>2. ThreadOK(t)' BY <1>c, <1>d, <1>e, <1>1, <2>1, SenderSettles
  <2> QED BY <1>c, <1>d, <2>2, WalkStep
<1>2. CASE pc'[t] = "finish"
  <2>1. CallPasses /\ note'[t] = note[t]
    BY <1>a, <1>2, AtGoto DEF OrderSendReturns, OrderSendAmbiguous
  <2>2. Sender(t)' /\ pc'[t] \notin OwnerSteps
    BY <1>2, SenderNames, OwnerNames DEF Sender
  <2>3. AsksOK(t)' /\ ClaimOK(t)' /\ OwnRow(t)'
    BY <1>c, <1>d, <1>e, <2>2, SenderGoesOn
  <2>4. FirstOK(t)' /\ RowOK(t)' /\ LockOK(t)'
    BY <1>a, <1>b, <1>d, <1>2, <2>1, <2>2, <2>3
    DEF ThreadOK, FirstOK, RowOK, LockOK
  <2>5. SentOK(t)'
    <3>1. sends[c] = 1 /\ book[c].acct = req[t].fp
      BY <1>a, <1>b, <1>c, <2>1 DEF ThreadOK, SentOK, LockOK, CallPasses
    <3> QED BY <1>d, <1>2, <3>1 DEF SentOK, Walks
  <2>6. ThreadOK(t)' BY <2>3, <2>4, <2>5 DEF ThreadOK
  <2> QED BY <1>c, <1>d, <2>6, WalkStep
<1> QED BY <1>a, <1>1, <1>2, AtGoto DEF OrderSendReturns, OrderSendAmbiguous

-----------------------------------------------------------------------------
(* The steps that finish a row. *)

LEMMA FinishStep ==
  ASSUME IInv, TypeInv', NEW t \in Threads, NEW s \in RecordStates,
         NEW c \in Clients, c = req[t].client,
         Finish(c, s), s # "absent", rec[c].state # "absent",
         UNCHANGED <<grant, book, sends, epoch, terminal, link, lock, req>>,
         \A u \in Threads \ {t} : Undisturbed(u),
         Sender(t) \/ sends[c] = 1,
         s = "failed" => book[c].fate \in {"none", "rejected"},
         s = "succeeded" => sends[c] = 1 /\ book[c].acct = rec[c].fp,
         ThreadOK(t)', Sender(t)' => Sender(t)
  PROVE  IInv'
<1>a. /\ rec'[c].state = s
      /\ rec'[c].payload = rec[c].payload /\ rec'[c].fp = rec[c].fp
      /\ \A d \in Clients \ {c} : rec'[d] = rec[d]
  BY DEF IInv, TypeInv, TypeOK, StoresOK, Record, Finish
<1>1. ASSUME NEW u \in Threads \ {t} PROVE ThreadOK(u)'
  <2>1. req[u].client \in Clients
    BY DEF IInv, TypeInv, TypeOK, ThreadsOK, Asked
  <2>2. GrantsKept /\ RowKept(req[u].client) /\ SendKept(req[u].client)
        /\ LockKept(u)
    BY <1>a, <2>1 DEF GrantsKept, RowKept, SendKept, LockKept
  <2>3. Sender(u) => UnsentKept(req[u].client)
    BY <1>a, <2>1 DEF UnsentKept, IInv, OneSender
  <2> QED BY <2>2, <2>3, Kept
<1>2. ASSUME NEW d \in Clients PROVE ClientOK(d)'
  BY <1>a, <1>2 DEF IInv, ClientOK
<1>3. \A g \in Grants : GrantOK(g)' BY DEF IInv, GrantOK
<1>4. OneSender' BY OneSenderKept
<1> QED BY <1>1, <1>2, <1>3, <1>4 DEF IInv

(* A store that raises leaves the stores as they are. *)
LEMMA RaiseStep ==
  ASSUME IInv, TypeInv', NEW t \in Threads, Sender(t) \/ pc[t] = "resolve",
         Walks(t), req'[t] = req[t], lock' # t,
         \/ pc'[t] = "done"
         \/ Sender(t) /\ pc'[t] = "settle unknown"
  PROVE  IInv'
<1>1. CASE pc'[t] = "done" BY <1>1, Rests, WalkStep
<1>2. CASE Sender(t) /\ pc'[t] = "settle unknown"
  <2>1. GrantsKept /\ RowKept(req[t].client)
    BY DEF Walks, GrantsKept, RowKept
  <2>2. ThreadOK(t)' BY <1>2, <2>1, SenderSettles
  <2> QED BY <1>2, <2>2, WalkStep
<1> QED BY <1>1, <1>2

LEMMA FinishingSteps ==
  ASSUME IInv, TypeInv', NEW t \in Threads,
         \/ FinishSucceeded(t) \/ Settle(t) \/ SettleUnknown(t) \/ Resolve(t)
  PROVE  IInv'
<1> USE DEF stores, broker, session
<1> DEFINE c == req[t].client
<1>a. TypeOK /\ NoteFits /\ ThreadOK(t) /\ t # None /\ c \in Clients
  BY ConstantsAssumption DEF IInv, TypeInv, TypeOK, ThreadsOK, Asked
<1>b. /\ UNCHANGED <<grant, book, sends, epoch, terminal, link, lock, req>>
      /\ pc[t] \in {"finish", "settle", "settle unknown", "resolve"}
  BY DEF FinishSucceeded, Settle, SettleUnknown, Resolve
<1>c. /\ lock # t /\ rec[c].state # "absent"
      /\ Sender(t) <=> pc[t] # "resolve"
  BY <1>a, <1>b, SenderNames DEF Sender, ThreadOK, LockOK, RowOK, OwnRow
<1>d. \A u \in Threads \ {t} : Undisturbed(u)
  <2>1. \A u \in Threads \ {t} : pc'[u] = pc[u] /\ note'[u] = note[u]
    BY <1>a, AtGoto, AtAnswer DEF FinishSucceeded, Settle, SettleUnknown,
       Resolve
  <2> QED BY <1>b, <2>1 DEF Undisturbed
<1>e. UNCHANGED rec => Walks(t) BY <1>b, <1>d DEF Walks
<1>1. CASE Settle(t)
  <2>1. note[t] \in {"failed", "indeterminate"} /\ Sender(t)
    BY <1>a, <1>1, SenderNames DEF Settle, NoteFits, Fits, Sender
  <2>2. pc'[t] = "done" /\ lock' # t
    BY <1>a, <1>1, <1>b, <1>c, AtAnswer DEF Settle
  <2>3. ThreadOK(t)' /\ ~Sender(t)' BY <2>2, Rests
  <2>4. note[t] = "failed" => book[c].fate \in {"none", "rejected"}
    BY <1>a, <1>1 DEF Settle, ThreadOK, SentOK
  <2>5. Finish(c, note[t]) \/ UNCHANGED rec BY <1>1 DEF Settle, FinishRaises
  <2>6. CASE Finish(c, note[t])
    BY <1>a, <1>b, <1>c, <1>d, <2>1, <2>3, <2>4, <2>6, StateNames, FinishStep
  <2>7. CASE UNCHANGED rec
    BY <1>b, <1>c, <1>e, <2>1, <2>2, <2>7, RaiseStep
  <2> QED BY <2>5, <2>6, <2>7
<1>2. CASE Resolve(t)
  <2>1. /\ note[t] \in {"failed", "succeeded"}
        /\ sends[c] = 1 /\ book[c].acct = rec[c].fp
        /\ note[t] = "failed" => book[c].fate = "rejected"
    BY <1>a, <1>2 DEF Resolve, NoteFits, Fits, ThreadOK, SentOK
  <2>2. pc[t] = "resolve" /\ pc'[t] = "done"
    BY <1>a, <1>2, AtAnswer DEF Resolve
  <2>3. ThreadOK(t)' /\ ~Sender(t)' BY <1>b, <1>c, <2>2, Rests
  <2>4. Finish(c, note[t]) \/ UNCHANGED rec BY <1>2 DEF Resolve, FinishRaises
  <2>5. CASE Finish(c, note[t])
    BY <1>a, <1>b, <1>c, <1>d, <2>1, <2>3, <2>5, StateNames, FinishStep
  <2>6. CASE UNCHANGED rec
    BY <1>b, <1>c, <1>e, <2>2, <2>6, RaiseStep
  <2> QED BY <2>4, <2>5, <2>6
<1>3. CASE SettleUnknown(t)
  <2>1. Sender(t)
    BY <1>3, SenderNames DEF SettleUnknown, Sender
  <2>2. \/ Finish(c, "indeterminate") /\ Goto(t, "kill last")
        \/ Finish(c, "indeterminate") /\ Answer(t, "error")
        \/ UNCHANGED rec /\ Answer(t, "error")
    BY <1>3 DEF SettleUnknown, FinishRaises
  <2>3. CASE Finish(c, "indeterminate") /\ Goto(t, "kill last")
    <3>1. pc'[t] = "kill last" BY <1>a, <2>3, AtGoto
    <3>2. GrantsKept /\ RowKept(c)
      BY <1>a, <1>b, <2>3
      DEF TypeOK, StoresOK, Record, GrantsKept, RowKept, Finish
    <3>3. ThreadOK(t)' BY <1>b, <1>c, <2>1, <3>1, <3>2, SenderSettles
    <3> QED BY <1>a, <1>b, <1>c, <1>d, <2>1, <2>3, <3>3, StateNames,
               FinishStep
  <2>4. CASE UNCHANGED rec /\ Answer(t, "error")
    BY <1>a, <1>b, <1>c, <1>e, <2>1, <2>4, AtAnswer, RaiseStep
  <2>5. CASE Finish(c, "indeterminate") /\ Answer(t, "error")
    <3>1. pc'[t] = "done" /\ lock' # t BY <1>a, <1>b, <1>c, <2>5, AtAnswer
    <3>2. ThreadOK(t)' /\ ~Sender(t)' BY <3>1, Rests
    <3> QED BY <1>a, <1>b, <1>c, <1>d, <2>1, <2>5, <3>2, StateNames,
               FinishStep
  <2> QED BY <2>2, <2>3, <2>4, <2>5
<1>4. CASE FinishSucceeded(t)
  <2>1. pc[t] = "finish" /\ Sender(t)
    BY <1>4, SenderNames DEF FinishSucceeded, Sender
  <2>2. /\ sends[c] = 1 /\ book[c].acct = req[t].fp /\ rec[c].fp = req[t].fp
        /\ note[t] = "first"
    BY <1>a, <2>1 DEF ThreadOK, SentOK, RowOK, OwnRow, FirstOK
  <2>3. \/ Finish(c, "succeeded") /\ Goto(t, "bind")
        \/ Finish(c, "succeeded") /\ Goto(t, "settle unknown")
        \/ UNCHANGED rec /\ Goto(t, "settle unknown")
    BY <1>4 DEF FinishSucceeded, FinishRaises
  <2>4. CASE Finish(c, "succeeded") /\ Goto(t, "bind")
    <3>1. pc'[t] = "bind" /\ note'[t] = note[t]
      BY <1>a, <1>4, <2>4, AtGoto DEF FinishSucceeded
    <3>2. GrantsKept /\ RowKept(c)
      BY <1>a, <1>b, <2>4
      DEF TypeOK, StoresOK, Record, GrantsKept, RowKept, Finish
    <3>3. Sender(t)' /\ pc'[t] \notin OwnerSteps
      BY <3>1, SenderNames, OwnerNames DEF Sender
    <3>4. AsksOK(t)' /\ ClaimOK(t)' /\ OwnRow(t)'
      BY <1>b, <2>1, <3>2, <3>3, SenderGoesOn
    <3>5. FirstOK(t)' /\ RowOK(t)' /\ LockOK(t)' /\ SentOK(t)'
      BY <1>b, <1>c, <2>2, <3>1, <3>3, <3>4
      DEF FirstOK, RowOK, LockOK, SentOK
    <3>6. ThreadOK(t)' BY <3>4, <3>5 DEF ThreadOK
    <3> QED BY <1>a, <1>b, <1>c, <1>d, <2>1, <2>2, <2>4, <3>6, StateNames,
               FinishStep
  <2>5. CASE UNCHANGED rec /\ Goto(t, "settle unknown")
    BY <1>a, <1>b, <1>c, <1>e, <2>1, <2>5, AtGoto, RaiseStep
  <2>6. CASE Finish(c, "succeeded") /\ Goto(t, "settle unknown")
    <3>1. pc'[t] = "settle unknown" BY <1>a, <2>6, AtGoto
    <3>2. GrantsKept /\ RowKept(c)
      BY <1>a, <1>b, <2>6
      DEF TypeOK, StoresOK, Record, GrantsKept, RowKept, Finish
    <3>3. ThreadOK(t)' BY <1>b, <1>c, <2>1, <3>1, <3>2, SenderSettles
    <3> QED BY <1>a, <1>b, <1>c, <1>d, <2>1, <2>2, <2>6, <3>3, StateNames,
               FinishStep
  <2> QED BY <2>3, <2>4, <2>5, <2>6
<1> QED BY <1>1, <1>2, <1>3, <1>4

-----------------------------------------------------------------------------
(* The steps that write a grant. *)

LEMMA GrantStep ==
  ASSUME IInv, TypeInv', NEW t \in Threads,
         GrantsKept, \A g \in Grants : GrantOK(g)',
         UNCHANGED <<rec, book, sends, epoch, terminal, link, lock, req>>,
         \A u \in Threads \ {t} : Undisturbed(u),
         ThreadOK(t)', Sender(t)' => Sender(t)
  PROVE  IInv'
<1>1. ASSUME NEW u \in Threads \ {t} PROVE ThreadOK(u)'
  <2>1. /\ RowKept(req[u].client) /\ SendKept(req[u].client) /\ LockKept(u)
        /\ UnsentKept(req[u].client)
    BY DEF RowKept, SendKept, LockKept, UnsentKept
  <2> QED BY <2>1, Kept
<1>2. \A d \in Clients : ClientOK(d)' BY DEF IInv, ClientOK
<1>3. OneSender' BY OneSenderKept
<1> QED BY <1>1, <1>2, <1>3 DEF IInv

LEMMA KillKeeps ==
  ASSUME IInv, NEW g, DisableEntry(g), UNCHANGED <<epoch, book, sends>>
  PROVE  GrantsKept /\ \A h \in Grants : GrantOK(h)'
<1>1. \A h \in Grants :
        /\ grant'[h].ready = grant[h].ready /\ grant'[h].gen = grant[h].gen
        /\ grant'[h].fp = grant[h].fp /\ grant'[h].epoch = grant[h].epoch
        /\ grant'[h].claim = grant[h].claim
        /\ grant'[h].order = grant[h].order
  BY DEF IInv, TypeInv, TypeOK, StoresOK, Grant, DisableEntry
<1>2. GrantsKept BY <1>1 DEF GrantsKept
<1>3. ASSUME NEW h \in Grants PROVE GrantOK(h)'
  BY <1>1, <1>3 DEF IInv, GrantOK
<1> QED BY <1>2, <1>3

LEMMA KillingSteps ==
  ASSUME IInv, TypeInv', NEW t \in Threads, KillGrant(t) \/ KillLast(t)
  PROVE  IInv'
<1> USE DEF stores, broker, session
<1> DEFINE g == req[t].grant
<1>a. TypeOK /\ ThreadOK(t) /\ t # None
  BY ConstantsAssumption DEF IInv, TypeInv
<1>b. /\ UNCHANGED <<rec, book, sends, epoch, terminal, link, lock, req>>
      /\ pc[t] \in {"kill", "kill last"}
  BY DEF KillGrant, KillLast
<1>c. lock # t /\ Sender(t)
  BY <1>a, <1>b, SenderNames DEF Sender, ThreadOK, LockOK
<1>d. \A u \in Threads \ {t} : Undisturbed(u)
  <2>1. \A u \in Threads \ {t} : pc'[u] = pc[u] /\ note'[u] = note[u]
    BY <1>a, AtGoto, AtAnswer DEF KillGrant, KillLast
  <2> QED BY <1>b, <2>1 DEF Undisturbed
<1>e. \/ /\ UNCHANGED grant /\ Answer(t, "error")
      \/ /\ DisableEntry(g) /\ Answer(t, "unknown")
      \/ /\ DisableEntry(g) /\ Goto(t, "settle")
         /\ pc[t] = "kill" /\ note' = note
  BY DEF KillGrant, KillLast
<1>1. CASE UNCHANGED grant /\ Answer(t, "error")
  <2>1. Walks(t) BY <1>1, <1>b, <1>d DEF Walks
  <2> QED BY <1>a, <1>b, <1>c, <1>1, <2>1, AtAnswer, RaiseStep
<1>2. ASSUME DisableEntry(g)
      PROVE  /\ GrantsKept /\ RowKept(req[t].client)
             /\ \A h \in Grants : GrantOK(h)'
  BY <1>2, <1>b, KillKeeps DEF RowKept
<1>3. CASE DisableEntry(g) /\ Answer(t, "unknown")
  <2>1. pc'[t] = "done" /\ lock' # t BY <1>a, <1>b, <1>c, <1>3, AtAnswer
  <2>2. ThreadOK(t)' /\ ~Sender(t)' BY <2>1, Rests
  <2> QED BY <1>b, <1>d, <1>2, <1>3, <2>2, GrantStep
<1>4. CASE /\ DisableEntry(g) /\ Goto(t, "settle")
           /\ pc[t] = "kill" /\ note' = note
  <2>1. pc'[t] = "settle" BY <1>a, <1>4, AtGoto
  <2>2. note'[t] = "failed" =>
          book'[req[t].client].fate \in {"none", "rejected"}
    BY <1>a, <1>b, <1>4 DEF ThreadOK, SentOK
  <2>3. ThreadOK(t)'
    BY <1>b, <1>c, <1>2, <1>4, <2>1, <2>2, SenderSettles
  <2> QED BY <1>b, <1>c, <1>d, <1>2, <1>4, <2>3, GrantStep
<1> QED BY <1>1, <1>3, <1>4, <1>e

LEMMA BindingStep ==
  ASSUME IInv, TypeInv', NEW t \in Threads, BindOrder(t)
  PROVE  IInv'
<1> USE DEF stores, broker, session
<1> DEFINE c == req[t].client
           g == req[t].grant
<1>a. TypeOK /\ ThreadOK(t) /\ t # None
  BY ConstantsAssumption DEF IInv, TypeInv
<1>b. /\ UNCHANGED <<rec, book, sends, epoch, terminal, link, lock, req>>
      /\ pc[t] = "bind"
  BY DEF BindOrder
<1>c. lock # t /\ Sender(t)
  BY <1>a, <1>b, SenderNames DEF Sender, ThreadOK, LockOK
<1>d. /\ g \in Grants /\ req[t].payload \in Payloads
      /\ c = ClientOf[req[t].payload] /\ grant[g].claim = req[t].payload
      /\ Verified(g, t) /\ sends[c] = 1 /\ book[c].acct = req[t].fp
  BY <1>a, <1>b, <1>c DEF ThreadOK, AsksOK, ClaimOK, SentOK
<1>e. grant[g].claim # None /\ GrantClient[g] = c /\ grant[g].order \in {None, c}
  BY <1>d, ConstantsAssumption DEF IInv, GrantOK
<1>f. \/ grant' = [grant EXCEPT ![g].order = c] /\ Answer(t, "accepted")
      \/ UNCHANGED <<grant, note>> /\ Goto(t, "settle unknown")
  BY <1>d, <1>e, Zenon DEF BindOrder
<1>g. \A u \in Threads \ {t} : Undisturbed(u)
  <2>1. \A u \in Threads \ {t} : pc'[u] = pc[u] /\ note'[u] = note[u]
    BY <1>a, <1>f, AtGoto, AtAnswer
  <2> QED BY <1>b, <2>1 DEF Undisturbed
<1>1. CASE grant' = [grant EXCEPT ![g].order = c] /\ Answer(t, "accepted")
  <2>1. pc'[t] = "done" /\ lock' # t BY <1>a, <1>b, <1>c, <1>1, AtAnswer
  <2>2. ThreadOK(t)' /\ ~Sender(t)' BY <2>1, Rests
  <2>3. /\ grant'[g] = [grant[g] EXCEPT !.order = c]
        /\ \A h \in Grants \ {g} : grant'[h] = grant[h]
    BY <1>a, <1>d, <1>1 DEF TypeOK, StoresOK
  <2>4. /\ grant'[g].ready = grant[g].ready /\ grant'[g].gen = grant[g].gen
        /\ grant'[g].fp = grant[g].fp /\ grant'[g].epoch = grant[g].epoch
        /\ grant'[g].claim = grant[g].claim /\ grant'[g].order = c
    BY <1>a, <1>d, <2>3 DEF TypeOK, StoresOK, Grant
  <2>5. GrantsKept BY <1>b, <2>3, <2>4 DEF GrantsKept
  <2>6. ASSUME NEW h \in Grants PROVE GrantOK(h)'
    <3>1. CASE h = g
      <4>1. /\ grant[g].ready /\ grant[g].fp = req[t].fp
            /\ grant[g].claim # None /\ GrantClient[g] = c
            /\ ClientOf[grant[g].claim] = c
        BY <1>d, <1>e DEF Verified
      <4> QED BY <1>b, <1>d, <2>4, <3>1, <4>1 DEF GrantOK
    <3>2. CASE h # g BY <1>b, <2>3, <3>2 DEF IInv, GrantOK
    <3> QED BY <3>1, <3>2
  <2> QED BY <1>b, <1>g, <2>2, <2>5, <2>6, GrantStep
<1>2. CASE UNCHANGED <<grant, note>> /\ Goto(t, "settle unknown")
  <2>1. Walks(t) BY <1>2, <1>b, <1>g DEF Walks
  <2> QED BY <1>a, <1>b, <1>c, <1>2, <2>1, AtGoto, RaiseStep
<1> QED BY <1>1, <1>2, <1>f

LEMMA ClaimingStep ==
  ASSUME IInv, TypeInv', NEW t \in Threads, ClaimEntry(t)
  PROVE  IInv'
<1> USE DEF stores, broker, session
<1> DEFINE g == req[t].grant
           p == req[t].payload
<1>a. TypeOK /\ ThreadOK(t) /\ t # None
  BY ConstantsAssumption DEF IInv, TypeInv
<1>b. /\ UNCHANGED <<rec, book, sends, epoch, terminal, link, lock, req>>
      /\ pc[t] = "claim"
  BY DEF ClaimEntry
<1>c. /\ lock # t /\ g \in Grants /\ p \in Payloads
      /\ req[t].client = ClientOf[p] /\ p # None
  BY <1>a, <1>b, ConstantsAssumption DEF ThreadOK, LockOK, AsksOK
<1>d. \/ UNCHANGED grant /\ Answer(t, "denied")
      \/ /\ UNCHANGED grant /\ Goto(t, "reserve") /\ Remember(t, "again")
      \/ /\ grant' = [grant EXCEPT ![g].claim = p]
         /\ Goto(t, "reserve") /\ Remember(t, "first")
         /\ Verified(g, t) /\ GrantClient[g] = req[t].client
         /\ grant[g].claim = None
  BY Zenon DEF ClaimEntry
<1>e. \A u \in Threads \ {t} : Undisturbed(u)
  <2>1. \A u \in Threads \ {t} : pc'[u] = pc[u] /\ note'[u] = note[u]
    BY <1>a, <1>d, AtGoto, AtRemember, AtAnswer
  <2> QED BY <1>b, <2>1 DEF Undisturbed
<1>f. UNCHANGED grant => Walks(t) BY <1>b, <1>e DEF Walks
<1>g. ASSUME pc'[t] = "reserve", note'[t] # "first" \/ ClaimOK(t)'
      PROVE  ThreadOK(t)' /\ ~Sender(t)'
  <2>1. ~Sender(t)' /\ pc'[t] \notin OwnerSteps
    BY <1>g, SenderNames, OwnerNames DEF Sender
  <2>2. AsksOK(t)' BY <1>b, <1>c DEF AsksOK
  <2> QED BY <1>b, <1>c, <1>g, <2>1, <2>2
          DEF ThreadOK, ClaimOK, FirstOK, RowOK, LockOK, SentOK
<1>1. CASE UNCHANGED grant /\ Answer(t, "denied")
  <2>1. pc'[t] = "done" /\ lock' # t BY <1>a, <1>b, <1>c, <1>1, AtAnswer
  <2> QED BY <1>1, <1>b, <1>f, <2>1, Rests, WalkStep
<1>2. CASE UNCHANGED grant /\ Goto(t, "reserve") /\ Remember(t, "again")
  <2>1. pc'[t] = "reserve" /\ note'[t] = "again"
    BY <1>a, <1>2, AtGoto, AtRemember
  <2> QED BY <1>2, <1>b, <1>f, <1>g, <2>1, WalkStep
<1>3. CASE /\ grant' = [grant EXCEPT ![g].claim = p]
           /\ Goto(t, "reserve") /\ Remember(t, "first")
           /\ Verified(g, t) /\ GrantClient[g] = req[t].client
           /\ grant[g].claim = None
  <2>1. pc'[t] = "reserve" BY <1>a, <1>3, AtGoto
  <2>3. /\ grant'[g] = [grant[g] EXCEPT !.claim = p]
        /\ \A h \in Grants \ {g} : grant'[h] = grant[h]
    BY <1>a, <1>c, <1>3 DEF TypeOK, StoresOK
  <2>4. /\ grant'[g].ready = grant[g].ready /\ grant'[g].gen = grant[g].gen
        /\ grant'[g].fp = grant[g].fp /\ grant'[g].epoch = grant[g].epoch
        /\ grant'[g].claim = p /\ grant'[g].order = grant[g].order
    BY <1>a, <1>c, <2>3 DEF TypeOK, StoresOK, Grant
  <2>5. GrantsKept BY <1>b, <1>3, <2>3, <2>4 DEF GrantsKept
  <2>6. ASSUME NEW h \in Grants PROVE GrantOK(h)'
    <3>1. CASE h = g
      BY <1>b, <1>c, <1>3, <2>4, <3>1 DEF IInv, GrantOK, Verified
    <3>2. CASE h # g BY <1>b, <2>3, <3>2 DEF IInv, GrantOK
    <3> QED BY <3>1, <3>2
  <2>7. ClaimOK(t)' BY <1>b, <1>3, <2>4 DEF ClaimOK, Verified
  <2> QED BY <1>b, <1>e, <1>g, <2>1, <2>5, <2>6, <2>7, GrantStep
<1> QED BY <1>1, <1>2, <1>3, <1>d

-----------------------------------------------------------------------------
(* Becoming the sender, and the send itself. *)

LEMMA ReservingStep ==
  ASSUME IInv, TypeInv', NEW t \in Threads, Reserve(t)
  PROVE  IInv'
<1> USE DEF stores, broker, session
<1> DEFINE c == req[t].client
           row == [state |-> "pending", payload |-> req[t].payload,
                   gen |-> req[t].gen, fp |-> req[t].fp]
<1>a. TypeOK /\ ThreadOK(t) /\ t # None /\ c \in Clients
  BY ConstantsAssumption DEF IInv, TypeInv, TypeOK, ThreadsOK, Asked
<1>b. /\ UNCHANGED <<grant, book, sends, epoch, terminal, link, lock, req>>
      /\ pc[t] = "reserve"
  BY DEF Reserve
<1>c. lock # t /\ AsksOK(t) BY <1>a, <1>b DEF ThreadOK, LockOK
<1>d. \/ /\ rec[c].state = "absent" /\ rec' = [rec EXCEPT ![c] = row]
         /\ Answer(t, "unknown")
      \/ /\ rec[c].state = "absent" /\ rec' = [rec EXCEPT ![c] = row]
         /\ note[t] = "first" /\ Goto(t, "scope") /\ note' = note
      \/ UNCHANGED rec /\ Answer(t, "conflict")
      \/ /\ UNCHANGED rec /\ Goto(t, "replay") /\ Remember(t, rec[c].state)
  BY Zenon DEF Reserve, NextAfterReserve
<1>e. \A u \in Threads \ {t} : Undisturbed(u)
  <2>1. \A u \in Threads \ {t} : pc'[u] = pc[u] /\ note'[u] = note[u]
    BY <1>a, <1>d, AtGoto, AtRemember, AtAnswer
  <2> QED BY <1>b, <2>1 DEF Undisturbed
<1>f. UNCHANGED rec => Walks(t) BY <1>b, <1>e DEF Walks
<1>1. CASE UNCHANGED rec /\ Answer(t, "conflict")
  <2>1. pc'[t] = "done" /\ lock' # t BY <1>a, <1>b, <1>c, <1>1, AtAnswer
  <2> QED BY <1>1, <1>b, <1>f, <2>1, Rests, WalkStep
<1>2. CASE UNCHANGED rec /\ Goto(t, "replay") /\ Remember(t, rec[c].state)
  <2>1. pc'[t] = "replay" BY <1>a, <1>2, AtGoto
  <2>2. ~Sender(t)' /\ pc'[t] \notin OwnerSteps
    BY <2>1, SenderNames, OwnerNames DEF Sender
  <2>3. AsksOK(t)' BY <1>b, <1>c DEF AsksOK
  <2>4. ThreadOK(t)' BY <1>b, <1>c, <2>1, <2>2, <2>3
        DEF ThreadOK, ClaimOK, FirstOK, RowOK, LockOK, SentOK
  <2> QED BY <1>2, <1>b, <1>f, <2>2, <2>4, WalkStep
<1>3. ASSUME rec[c].state = "absent", rec' = [rec EXCEPT ![c] = row],
             ThreadOK(t)'
      PROVE  IInv'
  <2>1. /\ rec'[c] = row /\ sends[c] = 0 /\ book[c].fate = "none"
        /\ \A d \in Clients \ {c} : rec'[d] = rec[d]
    BY <1>a, <1>3 DEF TypeOK, StoresOK, IInv, ClientOK
  <2>2. ASSUME NEW u \in Threads \ {t} PROVE ThreadOK(u)'
    <3>1. req[u].client \in Clients BY <1>a DEF TypeOK, ThreadsOK, Asked
    <3>2. /\ GrantsKept /\ SendKept(req[u].client) /\ LockKept(u)
          /\ RowKept(req[u].client)
      BY <1>b, <1>3, <2>1, <3>1 DEF GrantsKept, SendKept, LockKept, RowKept
    <3>3. Sender(u) => req[u].client # c
      BY <1>3 DEF IInv, ThreadOK, RowOK, OwnRow
    <3>4. Sender(u) => UnsentKept(req[u].client)
      BY <1>b, <2>1, <3>1, <3>3 DEF UnsentKept
    <3> QED BY <1>e, <3>2, <3>4, Kept
  <2>3. ASSUME NEW d \in Clients PROVE ClientOK(d)'
    BY <1>b, <2>1, <2>3 DEF IInv, ClientOK
  <2>4. \A g \in Grants : GrantOK(g)' BY <1>b DEF IInv, GrantOK
  <2>5. OneSender'
    <3>1. \A u \in Threads \ {t} :
            /\ req'[u] = req[u] /\ Sender(u)' = Sender(u)
            /\ Sender(u) => req[u].client # c
      BY <1>b, <1>e, <1>3
      DEF Undisturbed, Sender, IInv, ThreadOK, RowOK, OwnRow
    <3> QED BY <1>b, <3>1 DEF IInv, OneSender
  <2> QED BY <1>a, <1>3, <2>2, <2>3, <2>4, <2>5 DEF IInv
<1>4. CASE /\ rec[c].state = "absent" /\ rec' = [rec EXCEPT ![c] = row]
           /\ Answer(t, "unknown")
  <2>1. pc'[t] = "done" /\ lock' # t BY <1>a, <1>b, <1>c, <1>4, AtAnswer
  <2> QED BY <1>3, <1>4, <2>1, Rests
<1>5. CASE /\ rec[c].state = "absent" /\ rec' = [rec EXCEPT ![c] = row]
           /\ note[t] = "first" /\ Goto(t, "scope") /\ note' = note
  <2>1. pc'[t] = "scope" BY <1>a, <1>5, AtGoto
  <2>2. rec'[c] = row /\ sends[c] = 0
    BY <1>a, <1>5 DEF TypeOK, StoresOK, IInv, ClientOK
  <2>3. AsksOK(t)' BY <1>b, <1>c DEF AsksOK
  <2>4. ClaimOK(t)'
    BY <1>a, <1>b, <1>5 DEF ThreadOK, ClaimOK, Verified
  <2>5. RowOK(t)' BY <1>b, <2>1, <2>2 DEF RowOK, OwnRow
  <2>6. FirstOK(t)' /\ LockOK(t)' /\ SentOK(t)'
    BY <1>b, <1>c, <1>5, <2>1 DEF FirstOK, LockOK, SentOK
  <2> QED BY <1>3, <1>5, <2>3, <2>4, <2>5, <2>6 DEF ThreadOK
<1> QED BY <1>1, <1>2, <1>4, <1>5, <1>d

LEMMA SendingStep ==
  ASSUME IInv, TypeInv', NEW t \in Threads, OrderSend(t)
  PROVE  IInv'
<1> USE DEF stores, broker, session
<1> DEFINE c == req[t].client
<1>a. TypeOK /\ ThreadOK(t) /\ t # None /\ c \in Clients
  BY ConstantsAssumption DEF IInv, TypeInv, TypeOK, ThreadsOK, Asked
<1>b. /\ UNCHANGED <<rec, grant, epoch, terminal, link, lock, req, note>>
      /\ pc[t] = "invoke"
  BY DEF OrderSend
<1>c. /\ pc[t] \in OwnerSteps /\ Sender(t) /\ lock = t
      /\ rec[c].state = "pending" /\ sends[c] = 0 /\ book[c].fate = "none"
  <2>1. pc[t] \in OwnerSteps /\ Sender(t) BY <1>b, OwnerNames DEF Sender
  <2> QED BY <1>a, <1>b, <2>1 DEF ThreadOK, LockOK, RowOK, IInv, ClientOK
<1>d. /\ sends'[c] = 1 /\ book'[c] = [fate |-> "flying", acct |-> terminal]
      /\ \A d \in Clients \ {c} : sends'[d] = sends[d] /\ book'[d] = book[d]
  BY <1>a, <1>c DEF OrderSend, TypeOK, BrokerOK
<1>e. pc'[t] = "await" /\ \A u \in Threads \ {t} : Undisturbed(u)
  BY <1>a, <1>b, AtGoto DEF OrderSend, Undisturbed
<1>f. GrantsKept /\ \A d : RowKept(d) BY <1>b DEF GrantsKept, RowKept
<1>1. ASSUME NEW u \in Threads \ {t} PROVE ThreadOK(u)'
  <2>1. req[u].client \in Clients BY <1>a DEF TypeOK, ThreadsOK, Asked
  <2>2. SendKept(req[u].client) /\ LockKept(u)
    BY <1>b, <1>c, <1>d, <2>1 DEF SendKept, LockKept
  <2>3. Sender(u) => UnsentKept(req[u].client)
    BY <1>b, <1>c, <1>d, <2>1 DEF IInv, OneSender, UnsentKept
  <2> QED BY <1>e, <1>f, <2>2, <2>3, Kept
<1>2. ThreadOK(t)'
  <2>1. Sender(t)' /\ pc'[t] \notin OwnerSteps
    BY <1>e, SenderNames, OwnerNames DEF Sender
  <2>2. AsksOK(t)' /\ ClaimOK(t)' /\ OwnRow(t)'
    BY <1>b, <1>c, <1>f, <2>1, SenderGoesOn
  <2>3. FirstOK(t)' /\ RowOK(t)' /\ LockOK(t)'
    BY <1>a, <1>b, <1>c, <1>e, <2>1, <2>2
    DEF ThreadOK, FirstOK, RowOK, LockOK
  <2>4. SentOK(t)' BY <1>b, <1>d, <1>e DEF SentOK
  <2> QED BY <2>2, <2>3, <2>4 DEF ThreadOK
<1>3. ASSUME NEW d \in Clients PROVE ClientOK(d)'
  BY <1>b, <1>c, <1>d, <1>3 DEF IInv, ClientOK
<1>4. ASSUME NEW g \in Grants PROVE GrantOK(g)'
  <2>1. GrantClient[g] \in Clients BY ConstantsAssumption
  <2> QED BY <1>b, <1>c, <1>d, <2>1 DEF IInv, GrantOK
<1>5. OneSender' BY <1>b, <1>c, <1>e, OneSenderKept
<1> QED BY <1>1, <1>2, <1>3, <1>4, <1>5 DEF IInv

-----------------------------------------------------------------------------
(* The operator, the broker, the terminal, the clock and the process. *)

LEMMA EnvironmentStep ==
  ASSUME IInv, TypeInv', UNCHANGED <<thread, lock>>, GrantsKept,
         \A c \in Clients :
           RowKept(c) /\ SendKept(c) /\ UnsentKept(c) /\ ClientOK(c)',
         \A u \in Threads : LockKept(u),
         \A g \in Grants : GrantOK(g)'
  PROVE  IInv'
<1>1. ASSUME NEW u \in Threads PROVE ThreadOK(u)'
  <2>1. req[u].client \in Clients
    BY DEF IInv, TypeInv, TypeOK, ThreadsOK, Asked
  <2>2. Undisturbed(u) BY DEF thread, Undisturbed
  <2> QED BY <2>1, <2>2, Kept
<1>2. OneSender' BY DEF IInv, OneSender, Sender, thread
<1> QED BY <1>1, <1>2 DEF IInv

LEMMA OperatorSteps ==
  ASSUME IInv, TypeInv', NEW g \in Grants, Provision(g) \/ KillEntry(g)
  PROVE  IInv'
<1> USE DEF broker, session
<1>a. TypeOK BY DEF IInv, TypeInv
<1>b. UNCHANGED <<rec, book, sends, terminal, link, epoch, lock, thread>>
  BY DEF Provision, KillEntry
<1>1. GrantsKept /\ \A h \in Grants : GrantOK(h)'
  <2>1. CASE KillEntry(g) BY <1>b, <2>1, KillKeeps DEF KillEntry
  <2>2. CASE Provision(g)
    <3>1. /\ ~grant[g].ready
          /\ grant'[g].claim = grant[g].claim
          /\ grant'[g].order = grant[g].order
          /\ \A h \in Grants \ {g} : grant'[h] = grant[h]
      BY <1>a, <2>2 DEF Provision, TypeOK, StoresOK, Grant
    <3>2. grant[g].claim = None /\ grant[g].order = None
      BY <3>1 DEF IInv, GrantOK
    <3>3. GrantsKept BY <1>b, <3>1, <3>2 DEF GrantsKept
    <3>4. ASSUME NEW h \in Grants PROVE GrantOK(h)'
      BY <1>b, <3>1, <3>2, <3>4 DEF IInv, GrantOK
    <3> QED BY <3>3, <3>4
  <2> QED BY <2>1, <2>2
<1>2. ASSUME NEW c \in Clients
      PROVE  RowKept(c) /\ SendKept(c) /\ UnsentKept(c) /\ ClientOK(c)'
  BY <1>b DEF IInv, ClientOK, RowKept, SendKept, UnsentKept
<1>3. \A u \in Threads : LockKept(u) BY <1>b DEF LockKept
<1> QED BY <1>b, <1>1, <1>2, <1>3, EnvironmentStep

LEMMA BrokerSteps ==
  ASSUME IInv, TypeInv', NEW c \in Clients,
         BrokerDecides(c) \/ PositionCloses(c)
  PROVE  IInv'
<1> USE DEF stores, session
<1>b. UNCHANGED <<rec, grant, sends, terminal, link, epoch, lock, thread>>
  BY DEF BrokerDecides, PositionCloses
<1>1. /\ book[c].fate \in {"flying", "open"}
      /\ book'[c].acct = book[c].acct /\ book'[c].fate # "none"
      /\ \A d \in Clients \ {c} : book'[d] = book[d]
  BY DEF BrokerDecides, PositionCloses, IInv, TypeInv, TypeOK, BrokerOK
<1>2. ASSUME NEW d \in Clients
      PROVE  RowKept(d) /\ SendKept(d) /\ UnsentKept(d) /\ ClientOK(d)'
  BY <1>b, <1>1, <1>2 DEF IInv, ClientOK, RowKept, SendKept, UnsentKept
<1>3. GrantsKept /\ \A u \in Threads : LockKept(u)
  BY <1>b DEF LockKept, GrantsKept
<1>4. ASSUME NEW g \in Grants PROVE GrantOK(g)'
  <2>1. GrantClient[g] \in Clients BY ConstantsAssumption
  <2> QED BY <1>b, <1>1, <2>1 DEF IInv, GrantOK
<1> QED BY <1>b, <1>2, <1>3, <1>4, EnvironmentStep

LEMMA SessionSteps ==
  ASSUME IInv, TypeInv',
         \/ \E a \in Accounts : SwitchAccount(a)
         \/ ConnectionLost \/ Tick
  PROVE  IInv'
<1> USE DEF stores, broker, session, env
<1>b. UNCHANGED <<rec, grant, book, sends, epoch, lock, thread>>
  BY DEF SwitchAccount, ConnectionLost, Tick
<1>1. ASSUME NEW u \in Threads PROVE LockKept(u)
  <2>1. u # None BY ConstantsAssumption
  <2> QED BY <2>1 DEF SwitchAccount, ConnectionLost, Tick, LockKept
<1>2. ASSUME NEW d \in Clients
      PROVE  RowKept(d) /\ SendKept(d) /\ UnsentKept(d) /\ ClientOK(d)'
  BY <1>b DEF IInv, ClientOK, RowKept, SendKept, UnsentKept
<1>3. GrantsKept /\ \A g \in Grants : GrantOK(g)'
  BY <1>b DEF IInv, GrantOK, GrantsKept
<1> QED BY <1>b, <1>1, <1>2, <1>3, EnvironmentStep

LEMMA RestartStep ==
  ASSUME IInv, TypeInv', Restart
  PROVE  IInv'
<1>1. ASSUME NEW u \in Threads PROVE ThreadOK(u)' /\ ~Sender(u)'
  <2>1. pc'[u] \in {"idle", "done", "lost"} /\ lock' # u
    BY ConstantsAssumption DEF Restart
  <2> QED BY <2>1, Rests
<1>2. OneSender' BY <1>1 DEF OneSender
<1>3. UNCHANGED <<rec, grant, book, sends>> BY DEF Restart, stores, broker
<1> QED BY <1>1, <1>2, <1>3, Steady DEF IInv

-----------------------------------------------------------------------------
LEMMA Inductive ==
  ASSUME IInv, [Next]_vars
  PROVE  IInv'
<1>a. TypeInv' BY TypeStep DEF IInv
<1>1. ASSUME NEW t \in Threads, Entry(t) \/ Recovery(t) \/ Arrive(t)
      PROVE  IInv'
  BY <1>a, <1>1, ReadingSteps, ArrivingSteps, CheckingSteps, LockedSteps,
     ReturningSteps, FinishingSteps, KillingSteps, BindingStep,
     ClaimingStep, ReservingStep, SendingStep
  DEF Entry, Recovery
<1>2. CASE Environment
  BY <1>a, <1>2, OperatorSteps, BrokerSteps, SessionSteps, RestartStep
  DEF Environment
<1>3. CASE UNCHANGED vars
  <2>1. UNCHANGED <<rec, grant, book, sends, terminal, link, epoch, lock,
                    thread>>
    BY <1>3 DEF vars, thread
  <2>2. ASSUME NEW d \in Clients
        PROVE  RowKept(d) /\ SendKept(d) /\ UnsentKept(d) /\ ClientOK(d)'
    BY <2>1 DEF IInv, ClientOK, RowKept, SendKept, UnsentKept
  <2>3. /\ GrantsKept /\ \A g \in Grants : GrantOK(g)'
        /\ \A u \in Threads : LockKept(u)
    BY <2>1 DEF IInv, GrantOK, GrantsKept, LockKept
  <2> QED BY <1>a, <2>1, <2>2, <2>3, EnvironmentStep
<1> QED BY <1>1, <1>2, <1>3 DEF Next

LEMMA Initially == Init => IInv
<1> SUFFICES ASSUME Init PROVE IInv OBVIOUS
<1>1. ASSUME NEW t \in Threads PROVE ThreadOK(t) /\ ~Sender(t)
  <2>1. pc[t] = "idle" /\ lock = None BY DEF Init
  <2>2. ~Sender(t) /\ pc[t] \notin OwnerSteps
    BY <2>1, SenderNames, OwnerNames DEF Sender
  <2> QED BY <2>1, <2>2, ConstantsAssumption
          DEF ThreadOK, AsksOK, ClaimOK, FirstOK, RowOK, LockOK, SentOK
<1>2. ASSUME NEW c \in Clients PROVE ClientOK(c) BY DEF Init, ClientOK
<1>3. ASSUME NEW g \in Grants PROVE GrantOK(g) BY DEF Init, GrantOK
<1> QED BY <1>1, <1>2, <1>3, TypeInit DEF IInv, OneSender

(* The invariant holds of every behaviour of the entry path: the steps of  *)
(* create_order and order_by_client and of everything around them keep it. *)
THEOREM InvariantHolds == Spec => []IInv
BY Initially, Inductive, PTL DEF Spec
=============================================================================
