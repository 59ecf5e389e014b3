------------------------- MODULE ScopedExitsProofs -------------------------
(***************************************************************************)
(* The exit path: type correctness, the inductive invariant, and what      *)
(* follows from it.                                                        *)
(*                                                                         *)
(* The argument.  A thread past Reserve owns its exit until it has settled *)
(* the row.  Reserve makes a thread the owner only where no row was, and   *)
(* every owner's row is pending, so there is one owner, and only it sends  *)
(* and only before it has.  Boot, session and ticket were checked against  *)
(* the grant before, and nothing takes them back but a restart, which ends *)
(* all owners.  While an owner holds the client lock the client's session  *)
(* cannot move, and the terminal can leave the account but not come back,  *)
(* so an exit whose call returns on the account was sent on it.            *)
(***************************************************************************)
EXTENDS ScopedExits, TLAPS

Owner(t) == pc[t] \in Owning
Locking  == {"authorize", "invoke", "await"}
Scoped   == (Reading \ {"scope"}) \cup Owning

(* The grant's boot, session and ticket stand behind the request. *)
ScopeOK(t) ==
  /\ pc[t] \in Scoped => Verified(t)
  /\ pc[t] \in {"expose", "bind position"} => bound["cancel"]
  /\ pc[t] = "reserve" \/ Owner(t) => bound[req[t].op]

(* The row of an owner, and whether it has sent. *)
OwnerOK(t) ==
  /\ Owner(t) => /\ req[t].target = "own" /\ req[t].op \in Permitted
                 /\ exit[Key(t)] = "pending"
  /\ pc[t] \in {"send", "authorize", "invoke"} => sends[Key(t)] = 0
  /\ pc[t] \in {"await", "verify", "finish"} => sends[Key(t)] = 1

LockOK(t) ==
  /\ pc[t] \in Locking <=> lock = t
  /\ lock = t => link.gen = 1 /\ link.fp = Home

(* What an owner knows of the exit it has sent. *)
WireOK(t) ==
  /\ pc[t] = "await" /\ terminal = Home => wire[req[t].op] # "elsewhere"
  /\ pc[t] \in {"verify", "finish"} => wire[req[t].op] # "elsewhere"
  /\ pc[t] = "finish" /\ req[t].op = "close" => wire["close"] = "done"

ThreadOK(t) == ScopeOK(t) /\ OwnerOK(t) /\ LockOK(t) /\ WireOK(t)

OneOwner ==
  \A t, u \in Threads : Owner(t) /\ Owner(u) /\ Key(t) = Key(u) => t = u

(* A row, what was sent for it, and who is behind it.  Only the grant's    *)
(* own target ever has one.                                                *)
SendOK(op) ==
  /\ exit[<<op, "other">>] = "absent" /\ sends[<<op, "other">>] = 0
  /\ sends[<<op, "own">>] \in {0, 1}
  /\ exit[<<op, "own">>] = "absent" => sends[<<op, "own">>] = 0
  /\ exit[<<op, "own">>] = "succeeded" =>
       /\ sends[<<op, "own">>] = 1 /\ wire[op] # "elsewhere"
       /\ op = "close" => wire[op] = "done"

Behind(op) ==
  epoch > 1 \/ faults > 0 \/ \E t \in Threads : Owner(t) /\ Key(t) = <<op, "own">>

RowOK(op) ==
  /\ SendOK(op)
  /\ exit[<<op, "own">>] = "pending" => Behind(op)
  /\ exit[<<op, "own">>] = "indeterminate" => killed /\ escalated

IInv ==
  /\ TypeOK
  /\ \A t \in Threads : ThreadOK(t)
  /\ OneOwner
  /\ \A op \in Ops : RowOK(op)
  /\ wire["close"] = "done" => exposure = "closed"

-----------------------------------------------------------------------------
(* Type correctness *)

LEMMA Names ==
  /\ Ops = {"cancel", "close"} /\ Targets = {"own", "other"}
  /\ \A l : l \in Reading <=> l \in {"scope", "record", "recover", "bind order",
                                  "expose", "bind position", "reserve"}
  /\ \A l : l \in Owning <=> l \in {"send", "authorize", "invoke", "await",
                                 "verify", "finish", "fail"}
  /\ \A l : l \in Labels <=> \/ l \in {"idle", "escalate", "done", "lost"}
                            \/ l \in Reading \/ l \in Owning
BY DEF Ops, Targets, Reading, Owning, Labels

PcOK  == pc \in [Threads -> Labels]
ReqOK == req \in [Threads -> [op : Ops, target : Targets, gen : Nat,
                             fp : Accounts, answer : Answers]]

LEMMA AtGoto ==
  ASSUME TypeOK, NEW t \in Threads, NEW l \in Labels, Goto(t, l)
  PROVE  /\ PcOK' /\ pc'[t] = l
         /\ \A u \in Threads \ {t} : pc'[u] = pc[u]
BY DEF TypeOK, Goto, PcOK

LEMMA AtAnswer ==
  ASSUME TypeOK, NEW t \in Threads, NEW a \in Answers, Answer(t, a)
  PROVE  /\ PcOK' /\ ReqOK'
         /\ pc'[t] = "done" /\ req'[t].answer = a
         /\ \A u \in Threads \ {t} : pc'[u] = pc[u] /\ req'[u] = req[u]
<1>1. "done" \in Labels /\ Goto(t, "done") BY DEF Labels, Answer
<1>2. req' = [req EXCEPT ![t] = [NoRequest EXCEPT !.answer = a]] BY DEF Answer
<1>3. NoRequest \in [op : Ops, target : Targets, gen : Nat, fp : Accounts,
                     answer : Answers]
  BY ExitsAssumption DEF NoRequest, Ops, Targets, Answers
<1>4. [NoRequest EXCEPT !.answer = a] \in
        [op : Ops, target : Targets, gen : Nat, fp : Accounts, answer : Answers]
  BY <1>3
<1>5. ReqOK' /\ \A u \in Threads \ {t} : req'[u] = req[u]
  BY <1>2, <1>4 DEF TypeOK, ReqOK
<1>6. req'[t].answer = a BY <1>2, <1>3 DEF TypeOK
<1> QED BY <1>1, <1>5, <1>6, AtGoto

LEMMA AttachedType ==
  ASSUME TypeOK
  PROVE  /\ Attached \in [up : BOOLEAN, gen : Nat, fp : Accounts]
         /\ Reset(Attached) \in [up : BOOLEAN, gen : Nat, fp : Accounts]
         /\ Reset(link) \in [up : BOOLEAN, gen : Nat, fp : Accounts]
<1>1. link \in [up : BOOLEAN, gen : Nat, fp : Accounts] /\ terminal \in Accounts
  BY DEF TypeOK
<1>2. \A l \in [up : BOOLEAN, gen : Nat, fp : Accounts] :
        Reset(l) \in [up : BOOLEAN, gen : Nat, fp : Accounts]
  BY DEF Reset
<1>3. Attached \in [up : BOOLEAN, gen : Nat, fp : Accounts]
  BY <1>1 DEF Attached
<1> QED BY <1>1, <1>2, <1>3

LEMMA TypeInit == Init => TypeOK
<1> SUFFICES ASSUME Init PROVE TypeOK
  OBVIOUS
<1>1. NoRequest \in [op : Ops, target : Targets, gen : Nat, fp : Accounts,
                     answer : Answers]
  BY ExitsAssumption DEF NoRequest, Ops, Targets, Answers
<1> QED
  BY <1>1, ExitsAssumption
  DEF Init, TypeOK, Ops, Rows, Fates, Wires, Labels

(* The parts of the type that a request's step leaves to its own lemma. *)
StoreTypeOK ==
  /\ killed \in BOOLEAN /\ escalated \in BOOLEAN
  /\ bound \in [Ops -> BOOLEAN]
  /\ exit \in [Ops \X Targets -> Rows]

BrokerTypeOK ==
  /\ exposure \in Fates
  /\ wire \in [Ops -> Wires]
  /\ sends \in [Ops \X Targets -> Nat]

SessionTypeOK ==
  /\ terminal \in Accounts
  /\ link \in [up : BOOLEAN, gen : Nat, fp : Accounts]
  /\ epoch \in Nat /\ now \in Nat
  /\ lock \in Threads \cup {None}

LEMMA TypeParts ==
  TypeOK <=> /\ StoreTypeOK /\ BrokerTypeOK /\ SessionTypeOK
             /\ PcOK /\ ReqOK /\ faults \in Nat
BY DEF TypeOK, StoreTypeOK, BrokerTypeOK, SessionTypeOK, PcOK, ReqOK

LEMMA KeyType ==
  ASSUME TypeOK, NEW t \in Threads
  PROVE  /\ req[t].op \in Ops /\ req[t].target \in Targets
         /\ Key(t) \in Ops \X Targets
BY DEF TypeOK, Key

LEMMA FaultsGrow ==
  ASSUME TypeOK, StoreRaises \/ UNCHANGED faults
  PROVE  faults' \in Nat /\ faults' >= faults
         /\ (StoreRaises => faults' > 0 /\ faults' # faults)
BY DEF TypeOK, StoreRaises

(* A request's step answers it or sends it on. *)
LEMMA Advances ==
  ASSUME NEW t \in Threads, Exit(t)
  PROVE  \/ \E a \in Answers : Answer(t, a)
         \/ UNCHANGED req /\ \E l \in Labels : Goto(t, l)
<1>1. CASE \/ ReadScope(t) \/ ReadRecord(t) \/ RecoverOrder(t)
           \/ ProveExposure(t) \/ Bind(t) \/ Reserve(t)
  BY <1>1 DEF ReadScope, ReadRecord, RecoverOrder, ProveExposure, Bind,
     Reserve, AfterScope, Replayed, Answers, Labels, Reading, Owning
<1>2. CASE \/ RefusedBeforeSend(t) \/ EnterSend(t) \/ Authorize(t)
           \/ SendExit(t) \/ SendReturns(t) \/ SendFails(t) \/ Verify(t)
  BY <1>2 DEF RefusedBeforeSend, EnterSend, Authorize, SendExit,
     SendReturns, SendFails, Verify, Labels, Reading, Owning
<1>3. CASE FinishSucceeded(t) \/ FinishUnknown(t) \/ Escalate(t) \/ StoreFailsEarly(t)
  BY <1>3 DEF FinishSucceeded, FinishUnknown, Escalate, StoreFailsEarly,
     Answers, Labels, Reading, Owning
<1> QED BY <1>1, <1>2, <1>3 DEF Exit

LEMMA StepType ==
  ASSUME TypeOK, NEW t \in Threads, Exit(t)
  PROVE  TypeOK'
<1> USE DEF store, broker, env, session
<1>a. StoreTypeOK /\ BrokerTypeOK /\ SessionTypeOK /\ PcOK /\ ReqOK /\ faults \in Nat
  BY TypeParts
<1>1. StoreTypeOK'
  <2>1. CASE Bind(t)
    BY <1>a, <2>1 DEF Bind, StoreTypeOK
  <2>2. CASE Reserve(t)
    BY <1>a, <2>2, KeyType DEF Reserve, StoreTypeOK, Rows
  <2>3. CASE FinishSucceeded(t)
    BY <1>a, <2>3, KeyType DEF FinishSucceeded, StoreTypeOK, Rows
  <2>4. CASE FinishUnknown(t) \/ Escalate(t)
    BY <1>a, <2>4, KeyType DEF FinishUnknown, Escalate, StoreTypeOK, Rows
  <2>5. CASE ~(Bind(t) \/ Reserve(t) \/ FinishSucceeded(t) \/ FinishUnknown(t) \/ Escalate(t))
    <3>1. UNCHANGED store
      BY <2>5 DEF Exit, ReadScope, ReadRecord, RecoverOrder, ProveExposure,
         RefusedBeforeSend, EnterSend, Authorize, SendExit, SendReturns,
         SendFails, Verify, StoreFailsEarly
    <3> QED BY <1>a, <3>1 DEF StoreTypeOK
  <2> QED BY <2>1, <2>2, <2>3, <2>4, <2>5
<1>2. BrokerTypeOK'
  <2>1. CASE SendExit(t)
    BY <1>a, <2>1, KeyType DEF SendExit, BrokerTypeOK, Wires
  <2>2. CASE ~SendExit(t)
    <3>1. UNCHANGED broker
      BY <2>2 DEF Exit, ReadScope, ReadRecord, RecoverOrder, ProveExposure,
         Bind, Reserve, RefusedBeforeSend, EnterSend, Authorize, SendReturns,
         SendFails, Verify, FinishSucceeded, FinishUnknown, Escalate,
         StoreFailsEarly
    <3> QED BY <1>a, <3>1 DEF BrokerTypeOK
  <2> QED BY <2>1, <2>2
<1>3. SessionTypeOK'
  <2>1. UNCHANGED env
    BY DEF Exit, ReadScope, ReadRecord, RecoverOrder, ProveExposure,
       Bind, Reserve, RefusedBeforeSend, EnterSend, Authorize, SendExit,
       SendReturns, SendFails, Verify, FinishSucceeded, FinishUnknown,
       Escalate, StoreFailsEarly
  <2>2. link' \in {link, Attached, Reset(Attached), Reset(link)}
    BY DEF Exit, ReadScope, ReadRecord, RecoverOrder, ProveExposure,
       Bind, Reserve, RefusedBeforeSend, EnterSend, Authorize, SendExit,
       SendReturns, SendFails, Verify, FinishSucceeded, FinishUnknown,
       Escalate, StoreFailsEarly
  <2>3. lock' \in {lock, t, None}
    BY DEF Exit, ReadScope, ReadRecord, RecoverOrder, ProveExposure,
       Bind, Reserve, RefusedBeforeSend, EnterSend, Authorize, SendExit,
       SendReturns, SendFails, Verify, FinishSucceeded, FinishUnknown,
       Escalate, StoreFailsEarly
  <2> QED BY <1>a, <2>1, <2>2, <2>3, AttachedType DEF SessionTypeOK
<1>4. PcOK' /\ ReqOK'
  <2>1. \/ \E a \in Answers : Answer(t, a)
        \/ UNCHANGED req /\ \E l \in Labels : Goto(t, l)
    BY Advances
  <2>2. ASSUME UNCHANGED req, NEW l \in Labels, Goto(t, l) PROVE PcOK' /\ ReqOK'
    BY <1>a, <2>2, AtGoto DEF ReqOK
  <2> QED BY <2>1, <2>2, AtAnswer
<1>5. faults' \in Nat
  <2>1. StoreRaises \/ UNCHANGED faults
    BY DEF Exit, ReadScope, ReadRecord, RecoverOrder, ProveExposure,
       Bind, Reserve, RefusedBeforeSend, EnterSend, Authorize, SendExit,
       SendReturns, SendFails, Verify, FinishSucceeded, FinishUnknown,
       Escalate, StoreFailsEarly
  <2> QED BY <2>1, FaultsGrow
<1> QED
  BY <1>1, <1>2, <1>3, <1>4, <1>5
  DEF TypeOK, StoreTypeOK, BrokerTypeOK, SessionTypeOK, PcOK, ReqOK

Environment ==
  \/ KillEntry \/ EntryBinds
  \/ ExposureMoves \/ \E op \in Ops : BrokerDecides(op)
  \/ \E a \in Accounts : SwitchAccount(a)
  \/ ConnectionLost \/ Tick \/ Restart

Arrive(t) == \E op \in Ops, target \in Targets : Capture(t, op, target)

LEMMA Steps ==
  ASSUME [Next]_vars
  PROVE  \/ \E t \in Threads : Exit(t) \/ Arrive(t)
         \/ Environment \/ UNCHANGED vars
BY DEF Next, Environment, Arrive

LEMMA ArriveType ==
  ASSUME TypeOK, NEW t \in Threads, Arrive(t)
  PROVE  TypeOK'
<1> USE DEF store, broker, env
<1>1. PICK op \in Ops, target \in Targets : Capture(t, op, target) BY DEF Arrive
<1>2. link' \in [up : BOOLEAN, gen : Nat, fp : Accounts]
  BY <1>1, AttachedType DEF Capture
<1>3. PcOK' /\ ReqOK'
  <2>1. CASE Answer(t, "denied")
    BY <2>1, AtAnswer DEF Answers
  <2>2. CASE ~Answer(t, "denied")
    <3>1. /\ Goto(t, "scope") /\ "scope" \in Labels
          /\ req' = [req EXCEPT ![t] =
                       [op |-> op, target |-> target, gen |-> Attached.gen,
                        fp |-> terminal, answer |-> "none"]]
      BY <1>1, <2>2 DEF Capture, Labels, Reading
    <3>2. [op |-> op, target |-> target, gen |-> Attached.gen, fp |-> terminal,
           answer |-> "none"] \in
            [op : Ops, target : Targets, gen : Nat, fp : Accounts, answer : Answers]
      <4>1. Attached.gen \in Nat BY AttachedType
      <4> QED BY <4>1 DEF TypeOK, Answers
    <3>3. ReqOK' BY <3>1, <3>2 DEF TypeOK, ReqOK
    <3> QED BY <3>1, <3>3, AtGoto
  <2> QED BY <2>1, <2>2
<1> QED BY <1>1, <1>2, <1>3 DEF Capture, TypeOK, PcOK, ReqOK

LEMMA EnvironmentType ==
  ASSUME TypeOK, Environment
  PROVE  TypeOK'
<1> USE DEF store, broker, env, session
<1>1. CASE KillEntry \/ EntryBinds
  BY <1>1 DEF KillEntry, EntryBinds, TypeOK
<1>2. CASE ExposureMoves
  BY <1>2 DEF ExposureMoves, Becomes, TypeOK, Fates
<1>3. ASSUME NEW op \in Ops, BrokerDecides(op) PROVE TypeOK'
  BY <1>3 DEF BrokerDecides, TypeOK, Fates, Wires
<1>4. ASSUME NEW a \in Accounts, SwitchAccount(a) PROVE TypeOK'
  BY <1>4 DEF SwitchAccount, TypeOK
<1>5. CASE ConnectionLost
  BY <1>5, AttachedType DEF ConnectionLost, TypeOK
<1>6. CASE Tick
  BY <1>6 DEF Tick, TypeOK
<1>7. CASE Restart
  <2>1. NoRequest \in [op : Ops, target : Targets, gen : Nat, fp : Accounts,
                       answer : Answers]
    BY ExitsAssumption DEF NoRequest, Ops, Targets, Answers
  <2>2. PcOK' /\ ReqOK' BY <1>7, <2>1 DEF Restart, TypeOK, PcOK, ReqOK, Labels
  <2>3. link' \in [up : BOOLEAN, gen : Nat, fp : Accounts]
    BY <1>7 DEF Restart, TypeOK
  <2> QED BY <1>7, <2>2, <2>3 DEF Restart, TypeOK, PcOK, ReqOK
<1> QED BY <1>1, <1>2, <1>3, <1>4, <1>5, <1>6, <1>7 DEF Environment

LEMMA TypeStep == TypeOK /\ [Next]_vars => TypeOK'
<1>1. CASE UNCHANGED vars
  BY <1>1 DEF vars, store, broker, env, session, TypeOK
<1> QED BY <1>1, Steps, StepType, ArriveType, EnvironmentType

(* Every step of the exit path keeps the types of its stores, its broker   *)
(* and its threads.                                                        *)
THEOREM ExitsTyped == Spec => []TypeOK
BY TypeInit, TypeStep, PTL DEF Spec

-----------------------------------------------------------------------------
(* What a step leaves of the state that a thread and a row rely on. *)

Undisturbed(u) == pc'[u] = pc[u] /\ req'[u] = req[u]

ScopeKept == epoch' = epoch /\ \A op \in Ops : bound[op] => bound'[op]

WireKept(op) ==
  /\ wire[op] # "elsewhere" => wire'[op] # "elsewhere"
  /\ wire[op] = "done" => wire'[op] = "done"

ExitKept(op) ==
  /\ exit'[<<op, "own">>] = exit[<<op, "own">>] /\ exit'[<<op, "other">>] = exit[<<op, "other">>]
  /\ sends'[<<op, "own">>] = sends[<<op, "own">>] /\ sends'[<<op, "other">>] = sends[<<op, "other">>]
  /\ WireKept(op)

LockKept(u) ==
  /\ lock' = u <=> lock = u
  /\ lock = u => link' = link /\ (terminal' = Home => terminal = Home)

LEMMA OwnerKey ==
  ASSUME IInv, NEW t \in Threads, Owner(t)
  PROVE  /\ Key(t) = <<req[t].op, "own">> /\ exit[<<req[t].op, "own">>] = "pending"
         /\ req[t].op \in Permitted /\ bound[req[t].op] /\ Verified(t)
<1>1. ThreadOK(t) BY DEF IInv
<1>2. pc[t] \in Scoped BY DEF Owner, Scoped
<1> QED BY <1>1, <1>2 DEF ThreadOK, OwnerOK, ScopeOK, Key

LEMMA Kept ==
  ASSUME IInv, NEW u \in Threads, Undisturbed(u), ScopeKept, LockKept(u),
         Owner(u) => ExitKept(req[u].op)
  PROVE  ThreadOK(u)'
<1> USE DEF Undisturbed
<1>a. ThreadOK(u) /\ req[u].op \in Ops BY KeyType DEF IInv
<1>b. Owner(u)' = Owner(u) /\ Key(u)' = Key(u) BY DEF Owner, Key
<1>c. Owner(u) => Key(u) = <<req[u].op, "own">> BY OwnerKey
<1>1. ScopeOK(u)'
  BY <1>a, <1>b, Names DEF ThreadOK, ScopeOK, ScopeKept, Verified
<1>2. OwnerOK(u)'
  <2>1. pc[u] \in {"send", "authorize", "invoke", "await", "verify", "finish"} => Owner(u)
    BY Names DEF Owner
  <2> QED BY <1>a, <1>b, <1>c, <2>1 DEF ThreadOK, OwnerOK, ExitKept
<1>3. LockOK(u)' BY <1>a DEF ThreadOK, LockOK, LockKept
<1>4. WireOK(u)'
  <2>1. pc[u] \in {"await", "verify", "finish"} => Owner(u) BY Names DEF Owner
  <2>2. pc[u] = "await" => lock = u BY <1>a DEF ThreadOK, LockOK, Locking
  <2> QED BY <1>a, <2>1, <2>2 DEF ThreadOK, WireOK, ExitKept, WireKept, LockKept
<1> QED BY <1>1, <1>2, <1>3, <1>4 DEF ThreadOK

LEMMA RowKept ==
  ASSUME IInv, TypeOK', NEW op \in Ops, ExitKept(op),
         epoch' >= epoch, faults' >= faults,
         killed => killed', escalated => escalated',
         \A t \in Threads : Owner(t) /\ Key(t) = <<op, "own">> => Behind(op)'
  PROVE  RowOK(op)'
<1>a. RowOK(op) /\ epoch \in Nat /\ faults \in Nat BY DEF IInv, TypeOK
<1>b. epoch' \in Nat /\ faults' \in Nat BY DEF TypeOK
<1>1. SendOK(op)' BY <1>a DEF RowOK, SendOK, ExitKept, WireKept
<1>2. exit'[<<op, "own">>] = "pending" => Behind(op)'
  <2> SUFFICES ASSUME exit[<<op, "own">>] = "pending" PROVE Behind(op)'
    BY DEF ExitKept
  <2>1. CASE epoch > 1 \/ faults > 0
    <3>1. epoch' > 1 \/ faults' > 0
      BY <1>a, <1>b, <2>1
    <3> QED BY <3>1 DEF Behind
  <2>2. CASE \E t \in Threads : Owner(t) /\ Key(t) = <<op, "own">>
    BY <2>2
  <2>3. Behind(op) BY <1>a DEF RowOK
  <2> QED BY <2>1, <2>2, <2>3 DEF Behind
<1> QED BY <1>a, <1>1, <1>2 DEF RowOK, ExitKept

(* Owners are made by Reserve only, so that another step keeps each exit's *)
(* owner alone.                                                            *)
LEMMA OneOwnerKept ==
  ASSUME IInv, \A t \in Threads : Owner(t)' => Owner(t) /\ req'[t] = req[t]
  PROVE  OneOwner'
BY DEF IInv, OneOwner, Key

LEMMA KeptByOther ==
  ASSUME IInv, NEW t \in Threads, \A u \in Threads \ {t} : Undisturbed(u),
         ScopeKept, \A u \in Threads \ {t} : LockKept(u),
         \A u \in Threads \ {t} : Owner(u) => ExitKept(req[u].op)
  PROVE  \A u \in Threads \ {t} : ThreadOK(u)'
BY Kept

-----------------------------------------------------------------------------
(* Steps of a request that owns no exit, before and after. *)

BrokerKept == UNCHANGED broker /\ UNCHANGED exit

LEMMA ExitsKept ==
  ASSUME BrokerKept, NEW op \in Ops
  PROVE  ExitKept(op)
BY DEF BrokerKept, broker, ExitKept, WireKept

LEMMA Bystander ==
  ASSUME IInv, TypeOK', NEW t \in Threads,
         \A u \in Threads \ {t} : Undisturbed(u),
         ~Owner(t), ~Owner(t)', BrokerKept, ScopeKept, lock' = lock,
         link' = link \/ lock = None, terminal' = terminal,
         faults' >= faults, killed => killed', escalated => escalated',
         ScopeOK(t)'
  PROVE  IInv'
<1>a. ThreadOK(t) /\ epoch \in Nat BY DEF IInv, TypeOK
<1>b. \A u \in Threads : Owner(u)' => Owner(u) /\ req'[u] = req[u]
  BY DEF Undisturbed, Owner
<1>1. \A u \in Threads \ {t} : ThreadOK(u)'
  <2>1. \A u \in Threads : LockKept(u) BY ExitsAssumption DEF LockKept
  <2> QED BY <2>1, KeptByOther, ExitsKept, KeyType DEF IInv
<1>2. ThreadOK(t)'
  <2>1. \A l : l \in Locking \/ l \in {"send", "authorize", "invoke", "await",
                                     "verify", "finish"} => l \in Owning
    BY DEF Locking, Owning
  <2>2. LockOK(t)' BY <1>a, <2>1 DEF ThreadOK, LockOK, Owner
  <2>3. OwnerOK(t)' /\ WireOK(t)' BY <2>1 DEF OwnerOK, WireOK, Owner
  <2> QED BY <2>2, <2>3 DEF ThreadOK
<1>3. ASSUME NEW op \in Ops PROVE RowOK(op)'
  <2>1. \A u \in Threads : Owner(u) => Undisturbed(u) OBVIOUS
  <2>2. \A u \in Threads : Owner(u) /\ Key(u) = <<op, "own">> => Behind(op)'
    BY <2>1 DEF Undisturbed, Owner, Key, Behind
  <2> QED BY <1>a, <2>2, ExitsKept, RowKept DEF ScopeKept
<1>4. wire'["close"] = "done" => exposure' = "closed"
  BY DEF IInv, BrokerKept, broker
<1> QED BY <1>1, <1>2, <1>3, <1>4, <1>b, OneOwnerKept DEF IInv

LEMMA AnswerKeeps ==
  ASSUME TypeOK, NEW t \in Threads, NEW a \in Answers, Answer(t, a)
  PROVE  /\ \A u \in Threads \ {t} : Undisturbed(u)
         /\ ~Owner(t)' /\ ScopeOK(t)'
<1>1. pc'[t] = "done" BY AtAnswer
<1>2. "done" \notin Owning /\ "done" \notin Scoped
  BY DEF Owning, Scoped, Reading
<1> QED BY <1>1, <1>2, AtAnswer DEF Undisturbed, Owner, ScopeOK

LEMMA GotoKeeps ==
  ASSUME TypeOK, NEW t \in Threads, NEW l \in Labels, Goto(t, l), UNCHANGED req
  PROVE  /\ \A u \in Threads \ {t} : Undisturbed(u)
         /\ pc'[t] = l /\ req'[t] = req[t] /\ Key(t)' = Key(t)
BY AtGoto DEF Undisturbed, Key

(* Answered or sent on, a bystander disturbs nobody. *)
Moved(t, ls) ==
  \/ \E a \in Answers : Answer(t, a)
  \/ UNCHANGED req /\ \E l \in ls : Goto(t, l)

LEMMA BystanderMoves ==
  ASSUME IInv, TypeOK', NEW t \in Threads, NEW ls \in SUBSET (Labels \ Owning),
         Moved(t, ls), ~Owner(t), BrokerKept, ScopeKept, lock' = lock,
         link' = link \/ lock = None, terminal' = terminal,
         faults' >= faults, killed => killed', escalated => escalated',
         pc'[t] \in ls /\ UNCHANGED req => ScopeOK(t)'
  PROVE  IInv'
<1>a. TypeOK BY DEF IInv
<1>1. CASE \E a \in Answers : Answer(t, a)
  BY <1>a, <1>1, AnswerKeeps, Bystander
<1>2. CASE UNCHANGED req /\ \E l \in ls : Goto(t, l)
  <2>1. PICK l \in ls : Goto(t, l) BY <1>2
  <2>2. l \in Labels /\ l \notin Owning OBVIOUS
  <2>3. pc'[t] = l /\ \A u \in Threads \ {t} : Undisturbed(u)
    BY <1>a, <1>2, <2>1, <2>2, GotoKeeps
  <2>4. ~Owner(t)' BY <2>2, <2>3 DEF Owner
  <2> QED BY <1>2, <2>3, <2>4, Bystander
<1> QED BY <1>1, <1>2 DEF Moved

(* Sent on, a bystander has what its next step relies on. *)
LEMMA ScopeMoved ==
  ASSUME TypeOK, NEW t \in Threads, NEW l \in Labels \ Owning, Goto(t, l),
         UNCHANGED <<req, epoch>>, Verified(t),
         l \in {"expose", "bind position"} => bound'["cancel"],
         l = "reserve" => bound'[req[t].op]
  PROVE  ScopeOK(t)'
<1>1. pc'[t] = l BY AtGoto
<1>2. ~Owner(t)' BY <1>1 DEF Owner
<1> QED BY <1>1, <1>2 DEF ScopeOK, Verified

LEMMA ReadingSteps ==
  ASSUME IInv, TypeOK', NEW t \in Threads,
         \/ ReadScope(t) \/ ReadRecord(t) \/ RecoverOrder(t) \/ ProveExposure(t)
  PROVE  IInv'
<1> USE DEF store, broker, env, session
<1> DEFINE ls == {"record", "expose", "recover", "bind order", "bind position", "reserve"}
<1>a. TypeOK /\ ThreadOK(t) /\ req[t].op \in Ops /\ faults \in Nat
  BY KeyType DEF IInv, TypeOK
<1>b. ls \in SUBSET (Labels \ Owning) BY DEF Labels, Reading, Owning
<1>c. pc[t] \in {"scope", "record", "recover", "expose"}
  BY DEF ReadScope, ReadRecord, RecoverOrder, ProveExposure
<1>d. ~Owner(t) BY <1>c, Names DEF Owner
<1>e. /\ BrokerKept /\ ScopeKept /\ lock' = lock /\ (link' = link \/ lock = None)
      /\ terminal' = terminal /\ faults' = faults /\ killed' = killed
      /\ escalated' = escalated /\ bound' = bound /\ epoch' = epoch
  BY DEF ReadScope, ReadRecord, RecoverOrder, ProveExposure, BrokerKept, ScopeKept
<1>f. pc[t] # "scope" => Verified(t)
  BY <1>a, <1>c DEF ThreadOK, ScopeOK, Scoped, Reading
<1>1. \/ \E a \in Answers : Answer(t, a)
      \/ /\ UNCHANGED req /\ Verified(t)
         /\ \E l \in ls : /\ Goto(t, l)
                          /\ l \in {"expose", "bind position"} => bound["cancel"]
                          /\ l = "reserve" => bound[req[t].op]
  <2>1. CASE ReadScope(t)
    BY <2>1 DEF ReadScope, AfterScope, Answers
  <2>2. CASE ReadRecord(t)
    BY <1>f, <2>2 DEF ReadRecord, AfterScope, Replayed, Answers
  <2>3. CASE RecoverOrder(t)
    BY <1>f, <2>3 DEF RecoverOrder, Answers
  <2>4. CASE ProveExposure(t)
    <3>1. bound["cancel"] BY <1>a, <2>4 DEF ProveExposure, ThreadOK, ScopeOK
    <3>2. req[t].op = "close" \/ req[t].op = "cancel" BY <1>a, Names
    <3> QED BY <1>f, <2>4, <3>1, <3>2 DEF ProveExposure, Answers
  <2> QED BY <2>1, <2>2, <2>3, <2>4
<1>2. Moved(t, ls) BY <1>1 DEF Moved
<1>3. pc'[t] \in ls /\ UNCHANGED req => ScopeOK(t)'
  <2>1. CASE \E a \in Answers : Answer(t, a)
    BY <1>a, <2>1, AnswerKeeps
  <2>2. CASE ~(\E a \in Answers : Answer(t, a))
    <3>1. PICK l \in ls : /\ Goto(t, l) /\ UNCHANGED req /\ Verified(t)
                          /\ l \in {"expose", "bind position"} => bound["cancel"]
                          /\ l = "reserve" => bound[req[t].op]
      BY <1>1, <2>2
    <3>2. l \in Labels \ Owning BY <1>b
    <3> HIDE DEF ls
    <3> QED BY <1>a, <1>e, <3>1, <3>2, ScopeMoved
  <2> QED BY <2>1, <2>2
<1>4. faults' >= faults BY <1>a, <1>e
<1> HIDE DEF ls
<1> QED BY <1>b, <1>d, <1>e, <1>2, <1>3, <1>4, BystanderMoves

LEMMA BindStep ==
  ASSUME IInv, TypeOK', NEW t \in Threads, Bind(t)
  PROVE  IInv'
<1> USE DEF store, broker, env, session
<1>a. TypeOK /\ ThreadOK(t) /\ req[t].op \in Ops /\ faults \in Nat
  BY KeyType DEF IInv, TypeOK
<1>b. bound \in [Ops -> BOOLEAN] BY <1>a DEF TypeOK
<1>c. {"expose", "reserve"} \in SUBSET (Labels \ Owning) BY DEF Labels, Reading, Owning
<1>d. ~Owner(t) BY Names DEF Owner, Bind
<1>1. ScopeKept BY <1>b DEF Bind, ScopeKept
<1>2. /\ BrokerKept /\ lock' = lock /\ link' = link /\ terminal' = terminal
      /\ faults' = faults /\ killed' = killed /\ escalated' = escalated
      /\ epoch' = epoch
  BY DEF Bind, BrokerKept
<1>3. CASE Verified(t)
  <2>1. \E l \in {"expose", "reserve"} :
          /\ Goto(t, l) /\ UNCHANGED req
          /\ l \in {"expose", "bind position"} => bound'["cancel"]
          /\ l = "reserve" => bound'[req[t].op]
    <3>1. CASE pc[t] = "bind order"
      BY <1>b, <1>3, <3>1, Names DEF Bind
    <3>2. CASE pc[t] = "bind position"
      <4>1. bound["cancel"] /\ bound' = [bound EXCEPT !["close"] = TRUE]
            /\ Goto(t, "reserve") /\ UNCHANGED req
        BY <1>a, <1>3, <3>2 DEF Bind, ThreadOK, ScopeOK
      <4>2. bound'[req[t].op] BY <1>a, <1>b, <4>1, Names
      <4> QED BY <4>1, <4>2
    <3> QED BY <3>1, <3>2 DEF Bind
  <2>2. PICK l \in {"expose", "reserve"} :
          /\ Goto(t, l) /\ UNCHANGED req
          /\ l \in {"expose", "bind position"} => bound'["cancel"]
          /\ l = "reserve" => bound'[req[t].op]
    BY <2>1
  <2>3. ScopeOK(t)' BY <1>a, <1>c, <1>2, <1>3, <2>2, ScopeMoved
  <2>4. Moved(t, {"expose", "reserve"}) BY <2>2 DEF Moved
  <2> QED BY <1>a, <1>c, <1>d, <1>1, <1>2, <2>3, <2>4, BystanderMoves
<1>4. CASE ~Verified(t)
  <2>1. Answer(t, "denied") /\ "denied" \in Answers BY <1>4 DEF Bind, Answers
  <2> QED BY <1>a, <1>d, <1>1, <1>2, <2>1, AnswerKeeps, Bystander
<1> QED BY <1>3, <1>4

(* Reserve where it does not grant, and the answers of failures. *)
LEMMA AnsweringSteps ==
  ASSUME IInv, TypeOK', NEW t \in Threads,
         \/ Reserve(t) /\ UNCHANGED exit
         \/ StoreFailsEarly(t) \/ Escalate(t)
  PROVE  IInv'
<1> USE DEF store, broker, env, session
<1>a. TypeOK BY DEF IInv
<1>b. pc[t] \in {"reserve", "escalate"} \/ pc[t] \in Reading
  BY DEF Reserve, StoreFailsEarly, Escalate
<1>c. ~Owner(t)
  <2>1. \A l \in Reading \cup {"escalate"} : l \notin Owning BY Names DEF Reading
  <2> QED BY <1>b, <2>1 DEF Owner, Reading
<1>1. \E a \in Answers : Answer(t, a)
  <2>1. CASE Reserve(t) /\ UNCHANGED exit
    <3>1. ~(exit' = [exit EXCEPT ![Key(t)] = "pending"] /\ exit[Key(t)] = "absent")
      BY <1>a, <2>1, KeyType DEF TypeOK
    <3> QED BY <2>1, <3>1 DEF Reserve, Replayed, Answers
  <2>2. CASE StoreFailsEarly(t) \/ Escalate(t)
    BY <2>2 DEF StoreFailsEarly, Escalate, Answers
  <2> QED BY <2>1, <2>2
<1>2. /\ BrokerKept /\ ScopeKept /\ lock' = lock /\ link' = link
      /\ terminal' = terminal
      /\ (killed => killed') /\ (escalated => escalated')
  BY DEF Reserve, StoreFailsEarly, Escalate, BrokerKept, ScopeKept
<1>3. faults' >= faults
  BY <1>a, FaultsGrow DEF Reserve, StoreFailsEarly, Escalate
<1> QED BY <1>a, <1>c, <1>1, <1>2, <1>3, AnswerKeeps, Bystander

LEMMA ArriveStep ==
  ASSUME IInv, TypeOK', NEW t \in Threads, Arrive(t)
  PROVE  IInv'
<1> USE DEF store, broker, env
<1>a. TypeOK /\ faults \in Nat BY DEF IInv, TypeOK
<1>b. PICK op \in Ops, target \in Targets : Capture(t, op, target) BY DEF Arrive
<1>1. /\ BrokerKept /\ ScopeKept /\ lock' = lock /\ lock = None
      /\ terminal' = terminal /\ faults' = faults /\ killed' = killed
      /\ escalated' = escalated
  BY <1>b DEF Capture, BrokerKept, ScopeKept
<1>2. ~Owner(t) BY <1>b, Names DEF Capture, Owner
<1>3. (\A u \in Threads \ {t} : Undisturbed(u)) /\ ~Owner(t)' /\ ScopeOK(t)'
  <2>1. CASE Answer(t, "denied")
    BY <1>a, <2>1, AnswerKeeps DEF Answers
  <2>2. CASE ~Answer(t, "denied")
    <3>1. Goto(t, "scope") /\ "scope" \in Labels
      BY <1>b, <2>2 DEF Capture, Labels, Reading
    <3>2. \A u \in Threads \ {t} : req'[u] = req[u]
      BY <1>a, <1>b, <2>2 DEF Capture, TypeOK
    <3>3. "scope" \notin Scoped /\ "scope" \notin Owning BY DEF Scoped, Owning
    <3> QED BY <1>a, <3>1, <3>2, <3>3, AtGoto DEF Undisturbed, Owner, ScopeOK
  <2> QED BY <2>1, <2>2
<1>4. faults' >= faults BY <1>a, <1>1
<1> QED BY <1>1, <1>2, <1>3, <1>4, Bystander

-----------------------------------------------------------------------------
(* Steps of an owner that settle nothing yet. *)

LEMMA LockOthers ==
  ASSUME NEW t \in Threads, terminal' = terminal,
         \/ UNCHANGED <<link, lock>>
         \/ lock \in {t, None} /\ lock' \in {t, None}
  PROVE  \A u \in Threads \ {t} : LockKept(u)
BY ExitsAssumption DEF LockKept

LEMMA OwnerMoves ==
  ASSUME IInv, TypeOK', NEW t \in Threads, NEW l \in Owning,
         Owner(t), Goto(t, l), UNCHANGED <<req, store, broker, env>>,
         faults' >= faults,
         \/ UNCHANGED <<link, lock>>
         \/ lock \in {t, None} /\ lock' \in {t, None},
         l \in {"send", "authorize", "invoke"} =>
           pc[t] \in {"send", "authorize", "invoke"},
         l \in {"await", "verify", "finish"} =>
           pc[t] \in {"await", "verify", "finish"},
         LockOK(t)', WireOK(t)'
  PROVE  IInv'
<1> USE DEF store, broker, env
<1>a. TypeOK /\ ThreadOK(t) /\ l \in Labels BY DEF IInv, Labels
<1>b. /\ \A u \in Threads \ {t} : Undisturbed(u)
      /\ pc'[t] = l /\ req'[t] = req[t] /\ Key(t)' = Key(t)
  BY <1>a, GotoKeeps
<1>c. BrokerKept /\ ScopeKept BY DEF BrokerKept, ScopeKept
<1>d. \A u \in Threads : Owner(u)' => Owner(u) /\ req'[u] = req[u]
  BY <1>b DEF Undisturbed, Owner
<1>1. \A u \in Threads \ {t} : ThreadOK(u)'
  <2>1. \A u \in Threads \ {t} : LockKept(u) BY LockOthers
  <2>2. \A u \in Threads \ {t} : Owner(u) => ExitKept(req[u].op)
    BY <1>a, <1>c, ExitsKept, KeyType
  <2> QED BY <1>b, <1>c, <2>1, <2>2, KeptByOther
<1>2. ScopeOK(t)'
  <2>1. l \notin {"expose", "bind position"} BY DEF Owning
  <2>2. bound'[req'[t].op] /\ Verified(t)'
    BY <1>b, OwnerKey DEF Verified
  <2> QED BY <1>b, <2>1, <2>2 DEF ScopeOK
<1>3. OwnerOK(t)'
  <2>1. OwnerOK(t) BY <1>a DEF ThreadOK
  <2> QED BY <1>b, <2>1 DEF OwnerOK, Owner
<1>4. ThreadOK(t)' BY <1>2, <1>3 DEF ThreadOK
<1>5. ASSUME NEW op \in Ops PROVE RowOK(op)'
  <2>1. \A u \in Threads : Owner(u) /\ Key(u) = <<op, "own">> =>
                             Owner(u)' /\ Key(u)' = <<op, "own">>
    BY <1>b DEF Undisturbed, Owner, Key
  <2>2. \A u \in Threads : Owner(u) /\ Key(u) = <<op, "own">> => Behind(op)'
    BY <2>1 DEF Behind
  <2>3. epoch' >= epoch BY <1>a DEF TypeOK
  <2> QED BY <1>c, <2>2, <2>3, ExitsKept, RowKept
<1>6. wire'["close"] = "done" => exposure' = "closed" BY DEF IInv
<1>7. OneOwner' BY <1>d, OneOwnerKept
<1> QED BY <1>1, <1>4, <1>5, <1>6, <1>7 DEF IInv

LEMMA SendingSteps ==
  ASSUME IInv, TypeOK', NEW t \in Threads,
         \/ RefusedBeforeSend(t) \/ EnterSend(t) \/ Authorize(t)
  PROVE  IInv'
<1> USE DEF store, broker, env
<1>a. TypeOK /\ ThreadOK(t) /\ PcOK /\ faults \in Nat BY TypeParts DEF IInv
<1>b. pc[t] \in {"send", "authorize"}
  BY DEF RefusedBeforeSend, EnterSend, Authorize
<1>c. Owner(t) BY <1>b, Names DEF Owner
<1>d. Verified(t) BY <1>c, OwnerKey
<1>e. (StoreRaises \/ UNCHANGED faults) => faults' >= faults BY <1>a, FaultsGrow
<1>1. CASE RefusedBeforeSend(t)
  <2>1. /\ Goto(t, "fail") /\ "fail" \in Owning /\ "fail" \in Labels
        /\ lock = None /\ lock' = None
    BY <1>1, Names DEF RefusedBeforeSend
  <2>2. pc'[t] = "fail" BY <1>a, <2>1, AtGoto
  <2>3. LockOK(t)' /\ WireOK(t)'
    BY <2>1, <2>2, ExitsAssumption DEF LockOK, WireOK, Locking
  <2> QED BY <1>1, <1>c, <1>e, <2>1, <2>3, OwnerMoves DEF RefusedBeforeSend
<1>2. CASE EnterSend(t)
  <2>1. /\ Goto(t, "authorize") /\ "authorize" \in Owning /\ "authorize" \in Labels
        /\ lock = None /\ lock' = t /\ link' = Attached
    BY <1>2, Names DEF EnterSend
  <2>2. pc'[t] = "authorize" BY <1>a, <2>1, AtGoto
  <2>3. Attached.gen = 1 /\ Attached.fp = Home
    <3>1. link \in [up : BOOLEAN, gen : Nat, fp : Accounts] BY <1>a DEF TypeOK
    <3> QED BY <1>2, <1>d, <3>1 DEF EnterSend, SessionHolds, Verified, Attached
  <2>4. LockOK(t)' /\ WireOK(t)'
    BY <2>1, <2>2, <2>3 DEF LockOK, WireOK, Locking
  <2>5. pc[t] = "send" BY <1>2 DEF EnterSend
  <2> QED BY <1>2, <1>c, <1>e, <2>1, <2>4, <2>5, OwnerMoves DEF EnterSend
<1>3. CASE Authorize(t)
  <2>1. pc[t] = "authorize" /\ lock = t /\ link.gen = 1 /\ link.fp = Home
    BY <1>3, <1>a DEF Authorize, ThreadOK, LockOK, Locking
  <2>2. CASE Goto(t, "invoke") /\ UNCHANGED <<link, lock, faults>>
    <3>1. pc'[t] = "invoke" /\ "invoke" \in Owning
      BY <1>a, <2>2, AtGoto, Names
    <3>2. LockOK(t)' /\ WireOK(t)'
      BY <2>1, <2>2, <3>1 DEF LockOK, WireOK, Locking
    <3> QED BY <1>3, <1>c, <1>e, <2>1, <2>2, <3>1, <3>2, OwnerMoves DEF Authorize
  <2>3. CASE /\ UNCHANGED faults \/ StoreRaises
             /\ lock' = None /\ Goto(t, "fail")
    <3>1. pc'[t] = "fail" /\ "fail" \in Owning
      BY <1>a, <2>3, AtGoto, Names
    <3>2. LockOK(t)' /\ WireOK(t)'
      BY <2>3, <3>1, ExitsAssumption DEF LockOK, WireOK, Locking
    <3> QED BY <1>3, <1>c, <1>e, <2>1, <2>3, <3>1, <3>2, OwnerMoves DEF Authorize
  <2> QED BY <1>3, <2>2, <2>3 DEF Authorize
<1> QED BY <1>1, <1>2, <1>3

LEMMA SentSteps ==
  ASSUME IInv, TypeOK', NEW t \in Threads,
         \/ SendReturns(t) \/ SendFails(t) \/ Verify(t)
         \/ FinishSucceeded(t) /\ StoreRaises /\ Goto(t, "fail") /\ UNCHANGED <<exit, req>>
  PROVE  IInv'
<1> USE DEF store, broker, env
<1>a. TypeOK /\ ThreadOK(t) /\ PcOK /\ faults \in Nat BY TypeParts DEF IInv
<1>b. pc[t] \in {"await", "verify", "finish"}
  BY DEF SendReturns, SendFails, Verify, FinishSucceeded
<1>c. Owner(t) BY <1>b, Names DEF Owner
<1>e. (StoreRaises \/ UNCHANGED faults) => faults' >= faults BY <1>a, FaultsGrow
<1>1. CASE SendReturns(t)
  <2>1. pc[t] = "await" /\ lock = t /\ link.fp = Home
    BY <1>1, <1>a DEF SendReturns, ThreadOK, LockOK, Locking
  <2>2. terminal = Home BY <1>1, <2>1 DEF SendReturns, CallPasses
  <2>3. wire[req[t].op] # "elsewhere" BY <1>a, <2>1, <2>2 DEF ThreadOK, WireOK
  <2>4. Goto(t, "verify") /\ "verify" \in Owning /\ lock' = None
    BY <1>1, Names DEF SendReturns
  <2>5. pc'[t] = "verify" BY <1>a, <2>4, AtGoto, Names
  <2>6. LockOK(t)' BY <2>4, <2>5, ExitsAssumption DEF LockOK, Locking
  <2>7. WireOK(t)' BY <1>1, <2>3, <2>5 DEF WireOK, SendReturns
  <2> QED BY <1>1, <1>b, <1>c, <1>e, <2>1, <2>4, <2>6, <2>7, OwnerMoves DEF SendReturns
<1>2. CASE SendFails(t)
  <2>1. lock = t BY <1>2, <1>a DEF SendFails, ThreadOK, LockOK, Locking
  <2>2. Goto(t, "fail") /\ "fail" \in Owning /\ lock' = None
    BY <1>2, Names DEF SendFails
  <2>3. pc'[t] = "fail" BY <1>a, <2>2, AtGoto, Names
  <2>4. LockOK(t)' /\ WireOK(t)'
    BY <2>2, <2>3, ExitsAssumption DEF LockOK, WireOK, Locking
  <2> QED BY <1>2, <1>b, <1>c, <1>e, <2>1, <2>2, <2>4, OwnerMoves DEF SendFails
<1>3. CASE Verify(t)
  <2>1. pc[t] = "verify" /\ lock = None /\ lock' = None BY <1>3 DEF Verify
  <2>2. PICK l \in {"finish", "fail"} :
          /\ Goto(t, l)
          /\ l = "finish" /\ req[t].op = "close" => wire["close"] = "done"
    BY <1>3 DEF Verify
  <2>3. pc'[t] = l /\ l \in Owning BY <1>a, <2>2, AtGoto, Names
  <2>4. LockOK(t)' BY <2>1, <2>2, <2>3, ExitsAssumption DEF LockOK, Locking
  <2>5. WireOK(t)'
    BY <1>3, <1>a, <2>1, <2>2, <2>3 DEF Verify, ThreadOK, WireOK
  <2> QED BY <1>3, <1>b, <1>c, <1>e, <2>1, <2>2, <2>3, <2>4, <2>5, OwnerMoves DEF Verify
<1>4. CASE FinishSucceeded(t) /\ StoreRaises /\ Goto(t, "fail") /\ UNCHANGED <<exit, req>>
  <2>1. UNCHANGED <<link, lock>> /\ UNCHANGED <<store, broker, env>>
    BY <1>4 DEF FinishSucceeded, session
  <2>2. pc'[t] = "fail" /\ "fail" \in Owning BY <1>a, <1>4, AtGoto, Names
  <2>3. lock # t BY <1>4, <1>a DEF FinishSucceeded, ThreadOK, LockOK, Locking
  <2>4. LockOK(t)' /\ WireOK(t)'
    BY <2>1, <2>2, <2>3 DEF LockOK, WireOK, Locking
  <2> QED BY <1>4, <1>b, <1>c, <1>e, <2>1, <2>2, <2>4, OwnerMoves
<1> QED BY <1>1, <1>2, <1>3, <1>4

-----------------------------------------------------------------------------
(* Steps that make, send or settle an exit. *)

LEMMA OneExit ==
  ASSUME IInv, TypeOK', NEW t \in Threads, NEW op \in Ops, op = req[t].op,
         \A u \in Threads \ {t} : Undisturbed(u),
         \A u \in Threads \ {t} : Owner(u) => req[u].op # op,
         \A o \in Ops \ {op} : ExitKept(o),
         ScopeKept, UNCHANGED session, faults' >= faults,
         killed => killed', escalated => escalated', exposure' = exposure,
         wire'["close"] = "done" => wire["close"] = "done",
         Owner(t)' => req'[t] = req[t],
         ThreadOK(t)', RowOK(op)'
  PROVE  IInv'
<1>a. TypeOK BY DEF IInv
<1>1. \A u \in Threads \ {t} : ThreadOK(u)'
  <2>1. \A u \in Threads \ {t} : LockKept(u) BY DEF LockKept, session, env
  <2>2. \A u \in Threads \ {t} : Owner(u) => ExitKept(req[u].op)
    BY <1>a, KeyType
  <2> QED BY <2>1, <2>2, KeptByOther
<1>2. OneOwner'
  <2> SUFFICES ASSUME NEW u \in Threads, NEW v \in Threads, Owner(u)', Owner(v)',
                      Key(u)' = Key(v)'
               PROVE  u = v
    BY DEF OneOwner
  <2>1. \A w \in Threads : Owner(w)' => req'[w] = req[w]
    BY DEF Undisturbed
  <2>2. \A w \in Threads \ {t} : Owner(w)' => Owner(w) BY DEF Undisturbed, Owner
  <2>3. req[u].op = req[v].op /\ Key(u) = Key(v) BY <2>1 DEF Key
  <2>4. CASE u # t /\ v # t BY <2>2, <2>3, <2>4 DEF IInv, OneOwner
  <2>5. CASE u = t \/ v = t BY <2>2, <2>3, <2>5
  <2> QED BY <2>4, <2>5
<1>3. ASSUME NEW o \in Ops \ {op} PROVE RowOK(o)'
  <2>1. \A u \in Threads : Owner(u) /\ Key(u) = <<o, "own">> =>
                             u # t /\ Owner(u)' /\ Key(u)' = <<o, "own">>
    BY DEF Undisturbed, Owner, Key
  <2>2. \A u \in Threads : Owner(u) /\ Key(u) = <<o, "own">> => Behind(o)'
    BY <2>1 DEF Behind
  <2>3. epoch' >= epoch BY <1>a DEF TypeOK, session, env
  <2> QED BY <2>2, <2>3, RowKept
<1>4. wire'["close"] = "done" => exposure' = "closed" BY DEF IInv
<1> QED BY <1>1, <1>2, <1>3, <1>4 DEF IInv

(* The row of one exit is written, and nothing else of any exit. *)
LEMMA RowWritten ==
  ASSUME TypeOK, NEW op \in Ops, NEW r \in Rows,
         exit' = [exit EXCEPT ![<<op, "own">>] = r], UNCHANGED broker
  PROVE  /\ \A o \in Ops \ {op} : ExitKept(o)
         /\ exit'[<<op, "own">>] = r
         /\ exit'[<<op, "other">>] = exit[<<op, "other">>]
<1>1. exit \in [Ops \X Targets -> Rows] BY DEF TypeOK
<1>2. \A o \in Ops : \A x \in Targets : <<o, x>> \in Ops \X Targets OBVIOUS
<1>3. \A o \in Ops : \A x \in Targets : <<o, x>> # <<op, "own">> =>
                       exit'[<<o, x>>] = exit[<<o, x>>]
  BY <1>1, <1>2
<1>4. exit'[<<op, "own">>] = r BY <1>1, <1>2, Names
<1> QED BY <1>3, <1>4, Names DEF ExitKept, WireKept, broker

LEMMA GrantStep ==
  ASSUME IInv, TypeOK', NEW t \in Threads, Reserve(t), ~UNCHANGED exit
  PROVE  IInv'
<1>0. PICK op \in Ops : op = req[t].op BY KeyType DEF IInv
<1>a. TypeOK /\ ThreadOK(t) /\ PcOK BY TypeParts DEF IInv
<1>b. /\ pc[t] = "reserve" /\ MayExit(t) /\ exit[Key(t)] = "absent"
      /\ exit' = [exit EXCEPT ![Key(t)] = "pending"]
      /\ Goto(t, "send") /\ UNCHANGED <<req, bound>>
      /\ UNCHANGED <<killed, escalated, faults>> /\ UNCHANGED broker /\ UNCHANGED session
  BY DEF Reserve
<1>c. Key(t) = <<op, "own">> /\ Verified(t) /\ bound[op] /\ op \in Permitted
      /\ req[t].target = "own"
  BY <1>0, <1>b DEF MayExit, Key
<1>d. /\ pc'[t] = "send" /\ req'[t] = req[t] /\ Key(t)' = Key(t)
      /\ \A u \in Threads \ {t} : Undisturbed(u)
  BY <1>a, <1>b, GotoKeeps, Names
<1>e. /\ \A o \in Ops \ {op} : ExitKept(o)
      /\ exit'[<<op, "own">>] = "pending"
      /\ exit'[<<op, "other">>] = exit[<<op, "other">>]
  BY <1>a, <1>b, <1>c, RowWritten DEF Rows
<1>f. sends' = sends /\ wire' = wire /\ exposure' = exposure BY <1>b DEF broker
<1>g. Owner(t)' BY <1>d, Names DEF Owner
<1>1. \A u \in Threads \ {t} : Owner(u) => req[u].op # op
  BY <1>0, <1>b, <1>c, OwnerKey
<1>2. sends[<<op, "own">>] = 0
  <2>1. exit[<<op, "own">>] = "absent" BY <1>b, <1>c
  <2>2. SendOK(op) BY DEF IInv, RowOK
  <2> QED BY <2>1, <2>2 DEF SendOK
<1>3. ScopeKept /\ epoch' = epoch BY <1>b DEF ScopeKept, session, env
<1>4. ThreadOK(t)'
  <2>1. ScopeOK(t)' BY <1>0, <1>b, <1>c, <1>d, <1>3 DEF ScopeOK, Verified
  <2>2. OwnerOK(t)' BY <1>0, <1>b, <1>c, <1>d, <1>e, <1>f, <1>2 DEF OwnerOK
  <2>3. LockOK(t)'
    <3>1. lock # t BY <1>a, <1>b DEF ThreadOK, LockOK, Locking
    <3> QED BY <1>b, <1>d, <3>1 DEF LockOK, Locking, session
  <2>4. WireOK(t)' BY <1>d DEF WireOK
  <2> QED BY <2>1, <2>2, <2>3, <2>4 DEF ThreadOK
<1>5. RowOK(op)'
  <2>1. Behind(op)' BY <1>0, <1>c, <1>d, <1>g DEF Behind
  <2>2. SendOK(op)' BY <1>a, <1>e, <1>f, <1>2 DEF IInv, RowOK, SendOK
  <2> QED BY <1>e, <2>1, <2>2 DEF RowOK
<1>6. faults' >= faults BY <1>a, <1>b DEF TypeOK
<1> QED BY <1>a, <1>b, <1>d, <1>e, <1>f, <1>1, <1>3, <1>4, <1>5, <1>6, <1>0, OneExit

(* An owner's exit is its own. *)
LEMMA OthersElsewhere ==
  ASSUME IInv, NEW t \in Threads, Owner(t)
  PROVE  \A u \in Threads \ {t} : Owner(u) => req[u].op # req[t].op
BY OwnerKey DEF IInv, OneOwner

LEMMA SendStep ==
  ASSUME IInv, TypeOK', NEW t \in Threads, SendExit(t)
  PROVE  IInv'
<1>0. PICK op \in Ops : op = req[t].op BY KeyType DEF IInv
<1>a. TypeOK /\ ThreadOK(t) /\ PcOK BY TypeParts DEF IInv
<1>b. /\ pc[t] = "invoke"
      /\ sends' = [sends EXCEPT ![Key(t)] = @ + 1]
      /\ wire' = [wire EXCEPT ![op] = IF terminal = Home THEN "flying" ELSE "elsewhere"]
      /\ Goto(t, "await")
      /\ UNCHANGED <<req, faults, exposure>> /\ UNCHANGED store /\ UNCHANGED session
  BY <1>0 DEF SendExit
<1>c. Owner(t) /\ Key(t) = <<op, "own">> /\ Verified(t) /\ bound[op]
      /\ op \in Permitted /\ req[t].target = "own" /\ exit[<<op, "own">>] = "pending"
  <2>1. Owner(t) BY <1>b, Names DEF Owner
  <2> QED BY <1>0, <1>a, <2>1, OwnerKey DEF ThreadOK, OwnerOK
<1>d. /\ pc'[t] = "await" /\ req'[t] = req[t] /\ Key(t)' = Key(t)
      /\ \A u \in Threads \ {t} : Undisturbed(u)
  BY <1>a, <1>b, GotoKeeps, Names
<1>e. sends[<<op, "own">>] = 0 BY <1>0, <1>a, <1>b, <1>c DEF ThreadOK, OwnerOK
<1>f. /\ sends'[<<op, "own">>] = 1 /\ sends'[<<op, "other">>] = sends[<<op, "other">>]
      /\ \A o \in Ops \ {op} : \A x \in Targets : sends'[<<o, x>>] = sends[<<o, x>>]
  <2>1. sends \in [Ops \X Targets -> Nat] BY <1>a DEF TypeOK
  <2>2. \A o \in Ops : \A x \in Targets : <<o, x>> \in Ops \X Targets OBVIOUS
  <2>3. \A o \in Ops : \A x \in Targets : <<o, x>> # <<op, "own">> =>
                         sends'[<<o, x>>] = sends[<<o, x>>]
    BY <1>b, <1>c, <2>1, <2>2
  <2>4. sends'[<<op, "own">>] = 0 + 1 BY <1>a, <1>b, <1>c, <1>e, <2>1, <2>2, Names
  <2>5. <<op, "other">> # <<op, "own">> /\ "other" \in Targets BY Names
  <2>6. \A o \in Ops \ {op} : \A x \in Targets : <<o, x>> # <<op, "own">> OBVIOUS
  <2> QED BY <2>3, <2>4, <2>5, <2>6
<1>g. /\ wire'[op] # "done" /\ (terminal = Home => wire'[op] # "elsewhere")
      /\ \A o \in Ops \ {op} : wire'[o] = wire[o]
  <2>1. wire \in [Ops -> Wires] BY <1>a DEF TypeOK
  <2> QED BY <1>a, <1>b, <2>1
<1>h. exit' = exit /\ bound' = bound /\ killed' = killed /\ escalated' = escalated
      /\ epoch' = epoch /\ terminal' = terminal /\ lock' = lock /\ link' = link
  BY <1>b DEF store, session, env
<1>i. Owner(t)' BY <1>d, Names DEF Owner
<1>1. \A o \in Ops \ {op} : ExitKept(o) BY <1>f, <1>g, <1>h, Names DEF ExitKept, WireKept
<1>2. ScopeKept BY <1>h DEF ScopeKept
<1>3. ThreadOK(t)'
  <2>1. ScopeOK(t)' BY <1>0, <1>c, <1>d, <1>h DEF ScopeOK, Verified
  <2>2. OwnerOK(t)' BY <1>0, <1>c, <1>d, <1>f, <1>h DEF OwnerOK
  <2>3. LockOK(t)'
    <3>1. lock = t /\ link.gen = 1 /\ link.fp = Home
      BY <1>a, <1>b DEF ThreadOK, LockOK, Locking
    <3> QED BY <1>d, <1>h, <3>1 DEF LockOK, Locking
  <2>4. WireOK(t)' BY <1>0, <1>d, <1>g, <1>h DEF WireOK
  <2> QED BY <2>1, <2>2, <2>3, <2>4 DEF ThreadOK
<1>4. RowOK(op)'
  <2>1. Behind(op)' BY <1>0, <1>c, <1>d, <1>i DEF Behind
  <2>2. SendOK(op)' BY <1>a, <1>c, <1>f, <1>h DEF IInv, RowOK, SendOK
  <2> QED BY <1>c, <1>h, <2>1, <2>2 DEF RowOK
<1>5. wire'["close"] = "done" => wire["close"] = "done" BY <1>g, Names
<1>6. \A u \in Threads \ {t} : Owner(u) => req[u].op # op BY <1>0, <1>c, OthersElsewhere
<1>7. faults' >= faults BY <1>a, <1>b DEF TypeOK
<1> QED BY <1>a, <1>b, <1>d, <1>h, <1>1, <1>2, <1>3, <1>4, <1>5, <1>6, <1>7, <1>0, OneExit

(* Its row settled, or given up, a request owns nothing. *)
LEMMA Leaves ==
  ASSUME IInv, NEW t \in Threads, pc[t] \in {"finish", "fail"},
         pc'[t] \in {"done", "escalate"}, lock' = lock
  PROVE  ThreadOK(t)' /\ ~Owner(t)'
<1>1. lock # t BY DEF IInv, ThreadOK, LockOK, Locking
<1>2. \A l \in {"done", "escalate"} :
        /\ l \notin Owning /\ l \notin Scoped /\ l \notin Locking
  BY DEF Owning, Scoped, Reading, Locking
<1>3. pc'[t] \notin {"expose", "bind position", "reserve", "send", "authorize",
                     "invoke", "await", "verify", "finish"}
  OBVIOUS
<1>4. ~Owner(t)' BY <1>2 DEF Owner
<1> QED
  BY <1>1, <1>2, <1>3, <1>4 DEF ThreadOK, ScopeOK, OwnerOK, LockOK, WireOK

LEMMA SettleStep ==
  ASSUME IInv, TypeOK', NEW t \in Threads,
         \/ FinishSucceeded(t) /\ Answer(t, "success") /\ UNCHANGED faults
         \/ FinishUnknown(t)
  PROVE  IInv'
<1>0. PICK op \in Ops : op = req[t].op BY KeyType DEF IInv
<1>a. TypeOK /\ ThreadOK(t) /\ PcOK BY TypeParts DEF IInv
<1>b. /\ pc[t] \in {"finish", "fail"} /\ bound' = bound
      /\ UNCHANGED broker /\ UNCHANGED session
  BY DEF FinishSucceeded, FinishUnknown
<1>c. Owner(t) /\ Key(t) = <<op, "own">> /\ exit[<<op, "own">>] = "pending"
  <2>1. Owner(t) BY <1>b, Names DEF Owner
  <2> QED BY <1>0, <2>1, OwnerKey
<1>d. SendOK(op) BY DEF IInv, RowOK
<1>e. sends' = sends /\ wire' = wire /\ exposure' = exposure /\ lock' = lock
      /\ epoch' = epoch
  BY <1>b DEF broker, session, env
<1>f. ScopeKept BY <1>b, <1>e DEF ScopeKept
<1>g. \A u \in Threads \ {t} : Owner(u) => req[u].op # op
  BY <1>0, <1>c, OthersElsewhere
<1>h. faults \in Nat BY <1>a DEF TypeOK
<1>1. CASE FinishSucceeded(t) /\ Answer(t, "success") /\ UNCHANGED faults
  <2>1. exit' = [exit EXCEPT ![<<op, "own">>] = "succeeded"]
        /\ killed' = killed /\ escalated' = escalated
    <3>1. pc[t] = "finish" /\ killed' = killed /\ escalated' = escalated
      BY <1>1 DEF FinishSucceeded
    <3>2. ~Goto(t, "fail")
      BY <1>1, <1>a, AtAnswer, AtGoto, Names DEF Answers
    <3> QED BY <1>1, <1>c, <3>1, <3>2 DEF FinishSucceeded
  <2>2. /\ pc'[t] = "done" /\ \A u \in Threads \ {t} : Undisturbed(u)
    BY <1>1, <1>a, AtAnswer DEF Answers, Undisturbed
  <2>3. /\ \A o \in Ops \ {op} : ExitKept(o)
        /\ exit'[<<op, "own">>] = "succeeded"
        /\ exit'[<<op, "other">>] = exit[<<op, "other">>]
    BY <1>a, <1>b, <2>1, RowWritten DEF Rows
  <2>4. ThreadOK(t)' /\ ~Owner(t)' BY <1>b, <1>e, <2>2, Leaves
  <2>5. sends[<<op, "own">>] = 1 /\ wire[op] # "elsewhere"
        /\ (op = "close" => wire[op] = "done")
    <3>1. pc[t] = "finish" BY <1>1 DEF FinishSucceeded
    <3> QED BY <1>0, <1>a, <1>c, <3>1 DEF ThreadOK, OwnerOK, WireOK
  <2>6. RowOK(op)' BY <1>d, <1>e, <2>3, <2>5 DEF RowOK, SendOK
  <2>7. faults' >= faults BY <1>1, <1>h
  <2> QED
    BY <1>0, <1>b, <1>e, <1>f, <1>g, <2>1, <2>2, <2>3, <2>4, <2>6, <2>7, OneExit
<1>2. CASE FinishUnknown(t) /\ Goto(t, "escalate")
  <2>1. /\ exit' = [exit EXCEPT ![<<op, "own">>] = "indeterminate"]
        /\ killed' /\ escalated' /\ faults' = faults /\ req' = req
    <3>1. pc'[t] = "escalate" BY <1>2, <1>a, AtGoto, Names
    <3>2. "error" \in Answers BY DEF Answers
    <3>3. ~Answer(t, "error") BY <1>a, <3>1, <3>2, AtAnswer
    <3> QED BY <1>2, <1>c, <3>3 DEF FinishUnknown
  <2>2. /\ pc'[t] = "escalate" /\ \A u \in Threads \ {t} : Undisturbed(u)
    BY <1>2, <1>a, <2>1, GotoKeeps, Names
  <2>3. /\ \A o \in Ops \ {op} : ExitKept(o)
        /\ exit'[<<op, "own">>] = "indeterminate"
        /\ exit'[<<op, "other">>] = exit[<<op, "other">>]
    BY <1>a, <1>b, <2>1, RowWritten DEF Rows
  <2>4. ThreadOK(t)' /\ ~Owner(t)' BY <1>b, <1>e, <2>2, Leaves
  <2>5. RowOK(op)' BY <1>d, <1>e, <2>1, <2>3 DEF RowOK, SendOK
  <2>6. faults' >= faults BY <2>1, <1>h
  <2> QED
    BY <1>0, <1>b, <1>e, <1>f, <1>g, <2>1, <2>2, <2>3, <2>4, <2>5, <2>6, OneExit
<1>3. CASE FinishUnknown(t) /\ ~Goto(t, "escalate")
  <2>1. StoreRaises /\ Answer(t, "error") /\ UNCHANGED <<exit, killed, escalated>>
    BY <1>3 DEF FinishUnknown
  <2>2. /\ pc'[t] = "done" /\ \A u \in Threads \ {t} : Undisturbed(u)
    BY <2>1, <1>a, AtAnswer DEF Answers, Undisturbed
  <2>3. \A o \in Ops : ExitKept(o) BY <1>b, <2>1, ExitsKept DEF BrokerKept
  <2>4. ThreadOK(t)' /\ ~Owner(t)' BY <1>b, <1>e, <2>2, Leaves
  <2>5. faults' > 0 /\ faults' >= faults BY <1>a, <2>1, FaultsGrow
  <2>6. RowOK(op)' BY <1>c, <1>d, <1>e, <2>1, <2>5 DEF RowOK, SendOK, Behind
  <2> QED
    BY <1>0, <1>b, <1>e, <1>f, <1>g, <2>1, <2>2, <2>3, <2>4, <2>5, <2>6, OneExit
<1> QED BY <1>1, <1>2, <1>3

LEMMA ExitStep ==
  ASSUME IInv, NEW t \in Threads, Exit(t)
  PROVE  IInv'
<1>1. TypeOK' BY StepType DEF IInv
<1>2. CASE FinishSucceeded(t) \/ FinishUnknown(t)
  <2>1. CASE FinishSucceeded(t)
    BY <1>1, <2>1, SettleStep, SentSteps DEF FinishSucceeded
  <2> QED BY <1>1, <1>2, <2>1, SettleStep
<1>3. CASE \/ ReadScope(t) \/ ReadRecord(t) \/ RecoverOrder(t) \/ ProveExposure(t)
           \/ Bind(t)
  BY <1>1, <1>3, ReadingSteps, BindStep
<1>4. CASE Reserve(t) \/ StoreFailsEarly(t) \/ Escalate(t)
  BY <1>1, <1>4, AnsweringSteps, GrantStep
<1>5. CASE RefusedBeforeSend(t) \/ EnterSend(t) \/ Authorize(t) \/ SendExit(t)
  BY <1>1, <1>5, SendingSteps, SendStep
<1>6. CASE SendReturns(t) \/ SendFails(t) \/ Verify(t)
  BY <1>1, <1>6, SentSteps
<1> QED BY <1>2, <1>3, <1>4, <1>5, <1>6 DEF Exit

-----------------------------------------------------------------------------
(* Steps of the operator, the broker, the terminal and the process. *)

LEMMA EnvironmentKeeps ==
  ASSUME IInv, TypeOK', UNCHANGED <<pc, req, faults>>, ScopeKept,
         \A u \in Threads : LockKept(u), \A op \in Ops : ExitKept(op),
         killed => killed', escalated => escalated',
         wire'["close"] = "done" => exposure' = "closed"
  PROVE  IInv'
<1>a. TypeOK BY DEF IInv
<1>b. \A u \in Threads : Undisturbed(u) BY DEF Undisturbed
<1>1. \A u \in Threads : ThreadOK(u)' BY <1>a, <1>b, Kept, KeyType
<1>2. OneOwner' BY OneOwnerKept DEF Owner
<1>3. ASSUME NEW op \in Ops PROVE RowOK(op)'
  <2>1. \A u \in Threads : Owner(u) /\ Key(u) = <<op, "own">> => Behind(op)'
    BY DEF Owner, Key, Behind
  <2>2. epoch' >= epoch /\ faults' >= faults BY <1>a DEF TypeOK, ScopeKept
  <2> QED BY <2>1, <2>2, RowKept
<1> QED BY <1>1, <1>2, <1>3 DEF IInv

LEMMA EnvironmentStep ==
  ASSUME IInv, Environment
  PROVE  IInv'
<1> USE DEF store, broker, env, session
<1>a. TypeOK /\ TypeOK' BY EnvironmentType DEF IInv
<1>b. wire["close"] = "done" => exposure = "closed" BY DEF IInv
<1>1. CASE KillEntry \/ EntryBinds
  <2>1. ScopeKept
    <3>1. bound \in [Ops -> BOOLEAN] BY <1>a DEF TypeOK
    <3> QED BY <1>1, <3>1 DEF KillEntry, EntryBinds, ScopeKept
  <2>2. /\ \A u \in Threads : LockKept(u)
        /\ BrokerKept /\ UNCHANGED <<pc, req, faults>>
        /\ (killed => killed') /\ (escalated => escalated')
    BY <1>1 DEF KillEntry, EntryBinds, LockKept, BrokerKept
  <2> QED BY <1>a, <1>b, <2>1, <2>2, ExitsKept, EnvironmentKeeps DEF BrokerKept
<1>2. CASE ExposureMoves
  <2>1. exposure # "closed"
    <3>1. Becomes["closed"] = {} BY DEF Becomes
    <3> QED BY <1>2, <3>1 DEF ExposureMoves
  <2>2. /\ ScopeKept /\ \A u \in Threads : LockKept(u)
        /\ \A op \in Ops : ExitKept(op)
    BY <1>2 DEF ExposureMoves, ScopeKept, LockKept, ExitKept, WireKept
  <2> QED BY <1>2, <1>a, <1>b, <2>1, <2>2, EnvironmentKeeps DEF ExposureMoves
<1>3. ASSUME NEW op \in Ops, BrokerDecides(op) PROVE IInv'
  <2>1. wire \in [Ops -> Wires] BY <1>a DEF TypeOK
  <2>2. /\ ScopeKept /\ \A u \in Threads : LockKept(u)
    BY <1>3 DEF BrokerDecides, ScopeKept, LockKept
  <2>3. \A o \in Ops : ExitKept(o)
    <3>1. \A o \in Ops \ {op} : wire'[o] = wire[o]
      BY <1>3, <2>1 DEF BrokerDecides
    <3>2. wire[op] = "flying" /\ wire'[op] \in {"done", "refused"}
      BY <1>3, <2>1 DEF BrokerDecides
    <3> QED BY <1>3, <3>1, <3>2 DEF BrokerDecides, ExitKept, WireKept
  <2>4. wire'["close"] = "done" => exposure' = "closed"
    <3>1. CASE op = "close"
      BY <1>3, <2>1, <3>1, Names DEF BrokerDecides
    <3>2. CASE op = "cancel"
      BY <1>3, <1>b, <2>1, <3>2, Names DEF BrokerDecides
    <3> QED BY <3>1, <3>2, Names
  <2> QED BY <1>3, <1>a, <2>2, <2>3, <2>4, EnvironmentKeeps DEF BrokerDecides
<1>4. ASSUME NEW a \in Accounts, SwitchAccount(a) PROVE IInv'
  <2>1. \A u \in Threads : LockKept(u)
    <3>1. \A u \in Threads : lock = u => u # None /\ link.fp = Home
      BY ExitsAssumption DEF IInv, ThreadOK, LockOK
    <3> QED BY <1>4, <3>1 DEF SwitchAccount, LockKept
  <2>2. ScopeKept /\ \A op \in Ops : ExitKept(op)
    BY <1>4 DEF SwitchAccount, ScopeKept, ExitKept, WireKept
  <2> QED BY <1>4, <1>a, <1>b, <2>1, <2>2, EnvironmentKeeps DEF SwitchAccount
<1>5. CASE ConnectionLost \/ Tick
  <2>1. \A u \in Threads : LockKept(u)
    BY <1>5, ExitsAssumption DEF ConnectionLost, Tick, LockKept
  <2>2. ScopeKept /\ BrokerKept
    BY <1>5 DEF ConnectionLost, Tick, ScopeKept, BrokerKept
  <2> QED BY <1>5, <1>a, <1>b, <2>1, <2>2, ExitsKept, EnvironmentKeeps
          DEF ConnectionLost, Tick
<1>6. CASE Restart
  <2>1. /\ epoch' = epoch + 1 /\ lock' = None
        /\ killed' = killed /\ escalated' = escalated /\ faults' = faults
        /\ exposure' = exposure /\ wire' = wire /\ BrokerKept
    BY <1>6 DEF Restart, BrokerKept
  <2>2. \A t \in Threads : pc'[t] \in {"idle", "done", "lost"}
    BY <1>6 DEF Restart
  <2>3. \A l \in {"idle", "done", "lost"} :
          l \notin Owning /\ l \notin Scoped /\ l \notin Locking
    BY DEF Owning, Scoped, Reading, Locking
  <2>4. \A t \in Threads : ~Owner(t)' BY <2>2, <2>3 DEF Owner
  <2>5. ASSUME NEW t \in Threads PROVE ThreadOK(t)'
    <3>1. pc'[t] \notin {"expose", "bind position", "reserve", "send", "authorize",
                         "invoke", "await", "verify", "finish"}
      BY <2>2
    <3>2. pc'[t] \notin Scoped /\ pc'[t] \notin Locking /\ lock' # t
      BY <2>1, <2>2, <2>3, ExitsAssumption
    <3> QED BY <2>4, <3>1, <3>2 DEF ThreadOK, ScopeOK, OwnerOK, LockOK, WireOK
  <2>6. ASSUME NEW op \in Ops PROVE RowOK(op)'
    <3>1. epoch \in Nat /\ faults \in Nat BY <1>a DEF TypeOK
    <3>2. \A t \in Threads : Owner(t) => epoch = 1 BY OwnerKey DEF Verified
    <3>3. (\E t \in Threads : Owner(t)) => Behind(op)'
      BY <2>1, <3>2 DEF Behind
    <3> QED BY <1>a, <2>1, <3>1, <3>3, ExitsKept, RowKept
  <2> QED BY <1>a, <1>b, <2>1, <2>4, <2>5, <2>6 DEF IInv, OneOwner
<1> QED BY <1>1, <1>2, <1>3, <1>4, <1>5, <1>6 DEF Environment

-----------------------------------------------------------------------------
(* The invariant, and the theorems *)

LEMMA Start == Init => IInv
<1> SUFFICES ASSUME Init PROVE IInv
  OBVIOUS
<1>1. TypeOK BY TypeInit
<1>2. ASSUME NEW t \in Threads PROVE ThreadOK(t) /\ ~Owner(t)
  <2>1. pc[t] = "idle" /\ lock # t BY ExitsAssumption DEF Init
  <2>2. "idle" \notin Owning /\ "idle" \notin Scoped /\ "idle" \notin Locking
    BY DEF Owning, Scoped, Reading, Locking
  <2>3. ~Owner(t) BY <2>1, <2>2 DEF Owner
  <2> QED BY <2>1, <2>2, <2>3 DEF ThreadOK, ScopeOK, OwnerOK, LockOK, WireOK
<1>3. ASSUME NEW op \in Ops PROVE RowOK(op)
  <2>1. \A x \in Targets : <<op, x>> \in Ops \X Targets OBVIOUS
  <2>2. \A x \in Targets : exit[<<op, x>>] = "absent" /\ sends[<<op, x>>] = 0
    BY <2>1 DEF Init
  <2> QED BY <2>2, Names DEF RowOK, SendOK
<1>4. wire["close"] # "done" BY Names DEF Init
<1> QED BY <1>1, <1>2, <1>3, <1>4 DEF IInv, OneOwner

LEMMA Induction == IInv /\ [Next]_vars => IInv'
<1> SUFFICES ASSUME IInv, [Next]_vars PROVE IInv'
  OBVIOUS
<1>1. CASE UNCHANGED vars
  <2>1. TypeOK' BY TypeStep DEF IInv
  <2>2. UNCHANGED <<pc, req, faults, killed, bound, exit, escalated, exposure, wire,
                    sends, terminal, epoch, link, lock>>
    BY <1>1 DEF vars, store, broker, session, env
  <2>3. /\ ScopeKept /\ \A u \in Threads : LockKept(u)
        /\ \A op \in Ops : ExitKept(op)
    BY <2>2 DEF ScopeKept, LockKept, ExitKept, WireKept
  <2> QED BY <2>1, <2>2, <2>3, EnvironmentKeeps DEF IInv
<1>2. ASSUME NEW t \in Threads, Arrive(t) PROVE IInv'
  BY <1>2, ArriveType, ArriveStep DEF IInv
<1> QED BY <1>1, <1>2, Steps, ExitStep, EnvironmentStep

LEMMA Invariant == Spec => []IInv
BY Start, Induction, PTL DEF Spec

(* Every state satisfies what ScopedExits says of it: no exit reaches      *)
(* order_send twice, whichever requests race for it and whatever fails.    *)
THEOREM ExitsSentOnce == Spec => []ExitSentOnce
<1>1. IInv => ExitSentOnce
  <2> SUFFICES ASSUME IInv, NEW k \in Ops \X Targets PROVE sends[k] <= 1
    BY DEF ExitSentOnce
  <2>1. PICK op \in Ops, x \in Targets : k = <<op, x>> OBVIOUS
  <2>2. SendOK(op) BY DEF IInv, RowOK
  <2>3. x = "own" \/ x = "other" BY Names
  <2>4. sends[<<op, x>>] \in {0, 1} BY <2>2, <2>3 DEF SendOK
  <2> QED BY <2>1, <2>4
<1> QED BY <1>1, Invariant, PTL

(* finish_exit(succeeded) is told only of exits that were sent, once, to   *)
(* the account, and of a close only when its deal was made.                *)
THEOREM SuccessIsReal == Spec => []SucceededExitIsReal
<1>1. IInv => SucceededExitIsReal
  BY Names DEF IInv, RowOK, SendOK, SucceededExitIsReal
<1> QED BY <1>1, Invariant, PTL

(* No exit that may have been sent is dropped, and one of unknown outcome  *)
(* has closed entry and told the operator.                                 *)
THEOREM FailuresEscalate == Spec => []FailureEscalates
<1>1. IInv => FailureEscalates
  <2> SUFFICES ASSUME IInv, NEW k \in Ops \X Targets
               PROVE  /\ sends[k] > 0 => exit[k] # "absent"
                      /\ exit[k] = "pending" =>
                           \/ epoch > 1 \/ faults > 0
                           \/ \E t \in Threads : pc[t] \in Owning /\ Key(t) = k
                      /\ exit[k] = "indeterminate" => killed /\ escalated
    BY DEF FailureEscalates
  <2>1. PICK op \in Ops, x \in Targets : k = <<op, x>> OBVIOUS
  <2>2. RowOK(op) /\ SendOK(op) BY DEF IInv, RowOK
  <2>3. CASE x = "own"
    BY <2>1, <2>2, <2>3 DEF RowOK, SendOK, Behind, Owner
  <2>4. CASE x = "other"
    BY <2>1, <2>2, <2>4 DEF SendOK
  <2> QED BY <2>3, <2>4, Names
<1> QED BY <1>1, Invariant, PTL

(* Where a thread goes, its own step takes it, unless the process dies. *)
LEMMA OwnStep ==
  ASSUME TypeOK, [Next]_vars, NEW t \in Threads, pc'[t] # pc[t]
  PROVE  Exit(t) \/ (pc[t] = "idle" /\ pc'[t] \in {"scope", "done"}) \/ pc'[t] = "lost"
<1>1. ASSUME NEW u \in Threads, Exit(u) PROVE u = t
  BY <1>1, Advances, AtAnswer, AtGoto
<1>2. ASSUME NEW u \in Threads, Arrive(u)
      PROVE  pc[t] = "idle" /\ pc'[t] \in {"scope", "done"}
  <2>1. PICK l \in {"scope", "done"} : Goto(u, l)
    BY <1>2 DEF Arrive, Capture, Answer
  <2>2. l \in Labels BY DEF Labels, Reading
  <2>3. u = t /\ pc'[u] = l BY <2>1, <2>2, AtGoto
  <2>4. pc[u] = "idle" BY <1>2 DEF Arrive, Capture
  <2> QED BY <2>3, <2>4
<1>3. CASE Environment
  <2>1. CASE Restart BY <2>1 DEF Restart
  <2>2. CASE ~Restart
    BY <1>3, <2>2 DEF Environment, KillEntry, EntryBinds, ExposureMoves,
       BrokerDecides, SwitchAccount, ConnectionLost, Tick
  <2> QED BY <2>1, <2>2
<1>4. ~UNCHANGED vars BY DEF vars
<1> QED BY <1>1, <1>2, <1>3, <1>4, Steps

(* order_send is reached with the grant's whole authority and by nobody    *)
(* else: the row is pending, the ticket bound, the deadline ahead.         *)
THEOREM ExitsAuthorized == Spec => ExitIsAuthorized
<1>1. IInv /\ [Next]_vars =>
        \A t \in Threads : pc[t] # "invoke" /\ pc'[t] = "invoke" =>
          /\ exit[Key(t)] = "pending"
          /\ bound[req[t].op] /\ req[t].target = "own"
          /\ epoch = 1 /\ link.gen = 1 /\ now < RecoveryUntil
          /\ \A u \in Threads \ {t} : ~(pc[u] \in Owning /\ Key(u) = Key(t))
  <2> SUFFICES ASSUME IInv, [Next]_vars, NEW t \in Threads,
                      pc[t] # "invoke", pc'[t] = "invoke"
               PROVE  /\ exit[Key(t)] = "pending"
                      /\ bound[req[t].op] /\ req[t].target = "own"
                      /\ epoch = 1 /\ link.gen = 1 /\ now < RecoveryUntil
                      /\ \A u \in Threads \ {t} : ~(pc[u] \in Owning /\ Key(u) = Key(t))
    OBVIOUS
  <2>a. TypeOK /\ PcOK /\ ThreadOK(t) BY TypeParts DEF IInv
  <2>1. Exit(t) BY <2>a, OwnStep
  <2>2. Authorize(t) /\ Goto(t, "invoke")
    <3>1. ASSUME NEW l \in Labels, Goto(t, l) PROVE l = "invoke"
      BY <2>a, <3>1, AtGoto
    <3>2. ~Goto(t, "done") BY <3>1 DEF Labels
    <3>3. ~(\E l \in Labels \ {"invoke"} : Goto(t, l)) BY <3>1
    <3>4. \A l \in {"record", "expose", "recover", "bind order", "bind position",
                    "reserve", "send", "fail", "authorize", "await", "verify",
                    "finish", "escalate"} : l \in Labels \ {"invoke"}
      BY Names
    <3>5. CASE \/ ReadScope(t) \/ ReadRecord(t) \/ RecoverOrder(t)
               \/ ProveExposure(t) \/ Bind(t) \/ Reserve(t)
      BY <3>2, <3>3, <3>4, <3>5 DEF ReadScope, ReadRecord, RecoverOrder,
         ProveExposure, Bind, Reserve, AfterScope, Answer
    <3>6. CASE \/ RefusedBeforeSend(t) \/ EnterSend(t) \/ Authorize(t)
               \/ SendExit(t) \/ SendReturns(t) \/ SendFails(t) \/ Verify(t)
      BY <3>2, <3>3, <3>4, <3>6 DEF RefusedBeforeSend, EnterSend, Authorize,
         SendExit, SendReturns, SendFails, Verify
    <3>7. CASE FinishSucceeded(t) \/ FinishUnknown(t) \/ Escalate(t) \/ StoreFailsEarly(t)
      BY <3>2, <3>3, <3>4, <3>7 DEF FinishSucceeded, FinishUnknown, Escalate,
         StoreFailsEarly, Answer
    <3> QED BY <2>1, <3>5, <3>6, <3>7 DEF Exit
  <2>3. pc[t] = "authorize" BY <2>2 DEF Authorize
  <2>4. Owner(t) BY <2>3, Names DEF Owner
  <2>5. now < RecoveryUntil
    <3>1. "fail" \in Labels BY Names
    <3>2. ~Goto(t, "fail") BY <2>a, <3>1, AtGoto
    <3> QED BY <2>2, <3>2 DEF Authorize, MayExit
  <2>6. link.gen = 1 BY <2>a, <2>3 DEF ThreadOK, LockOK, Locking
  <2>7. epoch = 1 /\ bound[req[t].op] BY <2>4, OwnerKey DEF Verified
  <2>8. exit[Key(t)] = "pending" /\ req[t].target = "own"
    BY <2>a, <2>4 DEF ThreadOK, OwnerOK
  <2>9. \A u \in Threads \ {t} : ~(pc[u] \in Owning /\ Key(u) = Key(t))
    BY <2>4 DEF IInv, OneOwner, Owner
  <2> QED BY <2>5, <2>6, <2>7, <2>8, <2>9
<1> QED BY <1>1, Invariant, PTL DEF Spec, ExitIsAuthorized

(* OPERATOR_RUNBOOK.md: kill-entry takes from no exit its right to be      *)
(* sent; only the account, the boot, the deadline, a permission or a       *)
(* database that fails can.                                                *)
THEOREM KillsKeepExits == Spec => KillKeepsExits
<1>1. IInv /\ [Next]_vars =>
        \A t \in Threads :
          /\ pc[t] \in {"reserve", "authorize"} /\ req[t].target = "own"
          /\ pc'[t] \in {"done", "fail"} /\ req'[t].answer \in {"none", "denied"}
          => \/ terminal # req[t].fp \/ epoch # 1 \/ now >= RecoveryUntil
             \/ req[t].op \notin Permitted \/ faults' # faults
  <2> SUFFICES ASSUME IInv, [Next]_vars, NEW t \in Threads,
                      pc[t] \in {"reserve", "authorize"}, req[t].target = "own",
                      pc'[t] \in {"done", "fail"},
                      req'[t].answer \in {"none", "denied"},
                      terminal = req[t].fp, now < RecoveryUntil,
                      req[t].op \in Permitted, faults' = faults
               PROVE  FALSE
    BY ExitsAssumption, OwnerKey DEF IInv, TypeOK
  <2>a. TypeOK /\ ThreadOK(t) /\ ~StoreRaises BY FaultsGrow DEF IInv
  <2>1. Exit(t) BY <2>a, OwnStep
  <2>2. MayExit(t)
    <3>1. pc[t] \in Scoped /\ (pc[t] = "reserve" \/ Owner(t))
      BY Names DEF Scoped, Owner
    <3> QED BY <2>a, <3>1 DEF ThreadOK, ScopeOK, MayExit
  <2>3. CASE pc[t] = "reserve"
    <3>1. Reserve(t)
      BY <2>1, <2>3, <2>a DEF Exit, ReadScope, ReadRecord, RecoverOrder,
         ProveExposure, Bind, RefusedBeforeSend, EnterSend, Authorize,
         SendExit, SendReturns, SendFails, Verify, FinishSucceeded,
         FinishUnknown, Escalate, StoreFailsEarly
    <3>2. \E a \in {"success", "unknown"} : Answer(t, a)
      <4>1. "send" \in Labels BY Names
      <4>2. ~Goto(t, "send") BY <2>a, <4>1, AtGoto
      <4> QED BY <2>2, <3>1, <4>2 DEF Reserve, Replayed
    <3> QED BY <2>a, <3>2, AtAnswer DEF Answers
  <2>4. CASE pc[t] = "authorize"
    <3>1. Authorize(t)
      BY <2>1, <2>4 DEF Exit, ReadScope, ReadRecord, RecoverOrder,
         ProveExposure, Bind, Reserve, RefusedBeforeSend, EnterSend,
         SendExit, SendReturns, SendFails, Verify, FinishSucceeded,
         FinishUnknown, Escalate, StoreFailsEarly, Reading
    <3>2. Goto(t, "invoke") BY <2>a, <2>2, <3>1 DEF Authorize
    <3>3. "invoke" \in Labels BY Names
    <3> QED BY <2>a, <3>2, <3>3, AtGoto
  <2> QED BY <2>3, <2>4
<1> QED BY <1>1, Invariant, PTL DEF Spec, KillKeepsExits
=============================================================================
