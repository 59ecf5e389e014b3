---------------------------- MODULE ScopedExits ----------------------------
(***************************************************************************)
(* The exit path of the execution service: POST /orders/<id>/cancel and    *)
(* POST /positions/<id>/close (scoped_exit of app.py), under one operator  *)
(* grant of authorization.py, for the exposure its one entry order made at *)
(* the broker.                                                             *)
(*                                                                         *)
(* A grant is provisioned for an account, a session generation and a boot  *)
(* epoch: here Home, 1 and 1, and entry has been sent under it.  The       *)
(* request's threads, the stores, the client lock and the two observations *)
(* of the account around each call are those of ExecutionOrders; all       *)
(* accounts are Demo accounts, a request on any other is refused at once.  *)
(***************************************************************************)
EXTENDS Integers

CONSTANTS
  Threads,        \* HTTP requests, each served by a thread of its own
  Accounts,       \* accounts the terminal can be logged in to
  Home,           \* account_fingerprint of the grant
  Permitted,      \* permissions of the grant, as far as exits go
  RecoveryUntil,  \* recovery_expires_at of the grant
  None,           \* no thread
  MaxGen,         \* bound: session generations
  MaxEpoch,       \* bound: process starts
  MaxNow,         \* bound: ticks of the clock
  MaxFaults       \* bound: SQLite statements that raise

Ops == {"cancel", "close"}

(* The ticket of the grant's own order (or position), or another one. *)
Targets == {"own", "other"}

ASSUME ExitsAssumption ==
  /\ Home \in Accounts
  /\ Permitted \subseteq Ops
  /\ None \notin Threads
  /\ {RecoveryUntil, MaxGen, MaxEpoch, MaxNow, MaxFaults} \subseteq Nat

VARIABLES
  killed,         \* the grant is closed for entry
  bound,          \* which of order_id and position_id the grant has
  exit,           \* rows of demo_authorization_exit, by operation and target
  escalated,      \* demo_authorization_abort has an event
  exposure,       \* what became of the entry order at the broker
  wire,           \* what became of the last exit sent of each operation
  sends,          \* order_send calls, by operation and target
  terminal, link, epoch, now, lock,   \* as in ExecutionOrders
  pc,             \* where each thread is; at "done", its answer in req
  req,            \* what it was asked, captured, and answered
  faults          \* SQLite statements that have raised

store   == <<killed, bound, exit, escalated>>
broker  == <<exposure, wire, sends>>
env     == <<terminal, epoch, now>>
session == <<env, link, lock>>
vars    == <<store, broker, session, pc, req, faults>>

-----------------------------------------------------------------------------
(* Types *)

(* mixed: partly filled, partly closed, or added to by somebody else *)
Fates   == {"flying", "working", "open", "mixed", "closed", "gone"}
Wires   == {"none", "flying", "done", "refused", "elsewhere"}
Rows    == {"absent", "pending", "succeeded", "indeterminate"}
Answers == {"none", "success", "unknown", "denied", "failed", "error"}
Reading == {"scope", "record", "recover", "bind order", "expose",
            "bind position", "reserve"}
Owning  == {"send", "authorize", "invoke", "await", "verify", "finish", "fail"}
Labels  == {"idle", "escalate", "done", "lost"} \cup Reading \cup Owning

TypeOK ==
  /\ killed \in BOOLEAN /\ escalated \in BOOLEAN
  /\ bound \in [Ops -> BOOLEAN]
  /\ exit \in [Ops \X Targets -> Rows]
  /\ exposure \in Fates
  /\ wire \in [Ops -> Wires]
  /\ sends \in [Ops \X Targets -> Nat]
  /\ terminal \in Accounts
  /\ link \in [up : BOOLEAN, gen : Nat, fp : Accounts]
  /\ epoch \in Nat /\ now \in Nat /\ faults \in Nat
  /\ lock \in Threads \cup {None}
  /\ pc \in [Threads -> Labels]
  /\ req \in [Threads -> [op : Ops, target : Targets, gen : Nat,
                          fp : Accounts, answer : Answers]]

-----------------------------------------------------------------------------
Goto(t, l) == pc' = [pc EXCEPT ![t] = l]

NoRequest == [op |-> "cancel", target |-> "own", gen |-> 0, fp |-> Home,
              answer |-> "none"]

(* What the request was and captured is forgotten with it. *)
Answer(t, a) ==
  /\ Goto(t, "done")
  /\ req' = [req EXCEPT ![t] = [NoRequest EXCEPT !.answer = a]]

StoreRaises == faults < MaxFaults /\ faults' = faults + 1

Key(t) == <<req[t].op, req[t].target>>

(* MT5Client.call, as in ExecutionOrders *)
Attached ==
  IF link.up /\ link.fp = terminal THEN link
  ELSE [up |-> TRUE, gen |-> link.gen + 1, fp |-> terminal]
CallPasses == link.fp = terminal
Reset(l) == [l EXCEPT !.up = FALSE]
SessionHolds(t) ==
  CallPasses /\ Attached.gen = req[t].gen /\ terminal = req[t].fp

-----------------------------------------------------------------------------
(* AuthorizationStore *)

(* _verified against the session a request captured *)
Verified(t) == req[t].fp = Home /\ req[t].gen = 1 /\ epoch = 1

BugKillEndsExits(t) ==
  /\ Verified(t) /\ ~killed
  /\ req[t].op \in Permitted
  /\ bound[req[t].op] /\ req[t].target = "own"
  /\ now < RecoveryUntil

(* _exit.  The entry kill and the entry window are not asked for. *)
MayExit(t) ==
  /\ Verified(t)
  /\ req[t].op \in Permitted
  /\ bound[req[t].op] /\ req[t].target = "own"
  /\ now < RecoveryUntil

(* MT5ExecutionAdapter._validate_exposure: the whole volume of the grant's *)
(* order, and nothing else, is still pending (or is the position).         *)
Provable(op) ==
  /\ terminal = Home
  /\ exposure = IF op = "cancel" THEN "working" ELSE "open"

-----------------------------------------------------------------------------
Init ==
  /\ killed = FALSE /\ escalated = FALSE
  /\ \E b \in BOOLEAN :
       bound = [o \in Ops |-> IF o = "cancel" THEN b ELSE FALSE]
  /\ exit = [k \in Ops \X Targets |-> "absent"]
  /\ exposure \in {"flying", "working", "open"}
  /\ wire = [o \in Ops |-> "none"]
  /\ sends = [k \in Ops \X Targets |-> 0]
  /\ terminal = Home
  /\ link = [up |-> TRUE, gen |-> 1, fp |-> Home]
  /\ epoch = 1 /\ now = 0 /\ faults = 0
  /\ lock = None
  /\ pc = [t \in Threads |-> "idle"]
  /\ req = [t \in Threads |-> NoRequest]

-----------------------------------------------------------------------------
(* scoped_exit *)

(* require_mutation *)
Capture(t, op, target) ==
  /\ pc[t] = "idle"
  /\ lock = None
  /\ link' = Attached
  /\ IF CallPasses
       THEN /\ req' = [req EXCEPT ![t] =
                         [op |-> op, target |-> target, gen |-> Attached.gen,
                          fp |-> terminal, answer |-> "none"]]
            /\ Goto(t, "scope")
       ELSE Answer(t, "denied")
  /\ UNCHANGED <<store, broker, env, lock, faults>>

AfterScope == IF bound["cancel"] THEN "expose" ELSE "recover"

(* scope: an exit of the bound target may have been made already *)
ReadScope(t) ==
  /\ pc[t] = "scope"
  /\ IF ~Verified(t) THEN Answer(t, "denied")
     ELSE /\ Goto(t, IF bound[req[t].op] /\ req[t].target = "own"
                       THEN "record" ELSE AfterScope)
          /\ UNCHANGED req
  /\ UNCHANGED <<store, broker, session, faults>>

BugStatusIsTheAnswer(row) == row

(* Answers for a row that another request made *)
Replayed(row) == IF row = "succeeded" THEN "success" ELSE "unknown"

(* exit_record, authorize_exit *)
ReadRecord(t) ==
  /\ pc[t] = "record"
  /\ IF exit[Key(t)] = "absent" THEN Goto(t, AfterScope) /\ UNCHANGED req
     ELSE Answer(t, IF MayExit(t) THEN Replayed(exit[Key(t)]) ELSE "denied")
  /\ UNCHANGED <<store, broker, session, faults>>

(* validate_recovery_session, order_by_client: the order is at the broker  *)
(* under its correlation token, whatever the entry request was told.       *)
RecoverOrder(t) ==
  /\ pc[t] = "recover"
  /\ lock = None
  /\ link' = Attached
  /\ IF SessionHolds(t) /\ exposure # "flying"
       THEN Goto(t, "bind order") /\ UNCHANGED req
       ELSE Answer(t, "denied")
  /\ UNCHANGED <<store, broker, env, lock, faults>>

(* exposure_scope, cancel_scope *)
ProveExposure(t) ==
  /\ pc[t] = "expose"
  /\ lock = None
  /\ link' = Attached
  /\ IF CallPasses /\ Provable(req[t].op)
       THEN /\ Goto(t, IF req[t].op = "close" THEN "bind position" ELSE "reserve")
            /\ UNCHANGED req
       ELSE Answer(t, "denied")
  /\ UNCHANGED <<store, broker, env, lock, faults>>

(* bind_exposure, of the order or of the position *)
Bind(t) ==
  /\ pc[t] \in {"bind order", "bind position"}
  /\ IF Verified(t)
       THEN /\ IF pc[t] = "bind order"
                 THEN bound' = [bound EXCEPT !["cancel"] = TRUE] /\ Goto(t, "expose")
                 ELSE bound' = [bound EXCEPT !["close"] = TRUE] /\ Goto(t, "reserve")
            /\ UNCHANGED req
       ELSE Answer(t, "denied") /\ UNCHANGED bound
  /\ UNCHANGED <<killed, exit, escalated, broker, session, faults>>

BugUnknownMayRetry(t) ==
  /\ pc[t] = "reserve"
  /\ IF ~MayExit(t) THEN Answer(t, "denied") /\ UNCHANGED exit
     ELSE IF exit[Key(t)] \in {"absent", "indeterminate"}
       THEN /\ exit' = [exit EXCEPT ![Key(t)] = "pending"]
            /\ Goto(t, "send") /\ UNCHANGED req
     ELSE Answer(t, Replayed(exit[Key(t)])) /\ UNCHANGED exit
  /\ UNCHANGED <<killed, bound, escalated, broker, session, faults>>

(* authorize_exit, then reserve_exit: one BEGIN IMMEDIATE transaction that *)
(* asks the same again.                                                    *)
Reserve(t) ==
  /\ pc[t] = "reserve"
  /\ IF ~MayExit(t) THEN Answer(t, "denied") /\ UNCHANGED exit
     ELSE IF exit[Key(t)] = "absent"
       THEN /\ exit' = [exit EXCEPT ![Key(t)] = "pending"]
            /\ Goto(t, "send") /\ UNCHANGED req
     ELSE Answer(t, Replayed(exit[Key(t)])) /\ UNCHANGED exit
  /\ UNCHANGED <<killed, bound, escalated, broker, session, faults>>

(* A call before order_send fails, or refuses. *)
RefusedBeforeSend(t) ==
  /\ pc[t] = "send"
  /\ lock = None
  /\ link' \in {Attached, Reset(Attached)}
  /\ Goto(t, "fail")
  /\ UNCHANGED <<store, broker, env, lock, req, faults>>

(* send_once: the session and the exposure are checked under the lock. *)
EnterSend(t) ==
  /\ pc[t] = "send"
  /\ lock = None
  /\ SessionHolds(t) /\ Provable(req[t].op)
  /\ link' = Attached
  /\ lock' = t
  /\ Goto(t, "authorize")
  /\ UNCHANGED <<store, broker, env, req, faults>>

BugAuthorizedWhenReserved(t) ==
  /\ pc[t] = "authorize"
  /\ Goto(t, "invoke")
  /\ UNCHANGED <<store, broker, env, link, lock, req, faults>>

(* the session again, then authorize_exit, under the lock *)
Authorize(t) ==
  /\ pc[t] = "authorize"
  /\ LET granted == terminal = req[t].fp /\ MayExit(t) IN
     \/ /\ granted
        /\ Goto(t, "invoke")
        /\ UNCHANGED <<link, lock, faults>>
     \/ /\ (~granted /\ UNCHANGED faults) \/ StoreRaises
        /\ link' = Reset(link) /\ lock' = None
        /\ Goto(t, "fail")
  /\ UNCHANGED <<store, broker, env, req>>

(* mt5.order_send *)
SendExit(t) ==
  /\ pc[t] = "invoke"
  /\ sends' = [sends EXCEPT ![Key(t)] = @ + 1]
  /\ wire' = [wire EXCEPT ![req[t].op] =
                IF terminal = Home THEN "flying" ELSE "elsewhere"]
  /\ Goto(t, "await")
  /\ UNCHANGED <<store, exposure, session, req, faults>>

(* The retcode says placed or done, and the account is still the same. *)
SendReturns(t) ==
  /\ pc[t] = "await"
  /\ CallPasses
  /\ wire[req[t].op] \in {"flying", "done", "elsewhere"}
  /\ lock' = None
  /\ Goto(t, "verify")
  /\ UNCHANGED <<store, broker, env, link, req, faults>>

BugLockKept(t) ==
  /\ pc[t] = "await"
  /\ link' \in {Attached, Reset(link)}
  /\ Goto(t, "fail")
  /\ UNCHANGED <<store, broker, env, lock, req, faults>>

(* A rejection, an ambiguous result or an exception: all alike for an exit *)
SendFails(t) ==
  /\ pc[t] = "await"
  /\ link' \in {Attached, Reset(link)}
  /\ lock' = None
  /\ Goto(t, "fail")
  /\ UNCHANGED <<store, broker, env, req, faults>>

BugCloseNotVerified(t) ==
  /\ pc[t] = "verify"
  /\ lock = None
  /\ SessionHolds(t)
  /\ Goto(t, "finish")
  /\ link' = Attached
  /\ UNCHANGED <<store, broker, env, lock, req, faults>>

(* cancel reads the order back, close looks for its deal in the history;   *)
(* either read can fail.                                                   *)
Verify(t) ==
  /\ pc[t] = "verify"
  /\ lock = None
  /\ \/ /\ CallPasses /\ terminal = Home
        /\ req[t].op = "close" => wire["close"] = "done"
        /\ Goto(t, "finish")
        /\ link' = Attached
     \/ Goto(t, "fail") /\ link' \in {Attached, Reset(Attached)}
  /\ UNCHANGED <<store, broker, env, lock, req, faults>>

(* finish_exit(succeeded) *)
FinishSucceeded(t) ==
  /\ pc[t] = "finish"
  /\ \/ /\ exit' = [exit EXCEPT ![Key(t)] =
                      IF @ = "pending" THEN "succeeded" ELSE @]
        /\ Answer(t, "success")
        /\ UNCHANGED faults
     \/ StoreRaises /\ Goto(t, "fail") /\ UNCHANGED <<exit, req>>
  /\ UNCHANGED <<killed, bound, escalated, broker, session>>

BugFailureKeepsEntry(t) ==
  /\ pc[t] = "fail"
  /\ exit' = [exit EXCEPT ![Key(t)] = IF @ = "pending" THEN "indeterminate" ELSE @]
  /\ Goto(t, "escalate")
  /\ UNCHANGED <<killed, escalated, bound, broker, session, req, faults>>

(* finish_exit(indeterminate): the row, the entry kill and the abort event *)
(* are one transaction.                                                    *)
FinishUnknown(t) ==
  /\ pc[t] = "fail"
  /\ \/ /\ exit' = [exit EXCEPT ![Key(t)] =
                      IF @ = "pending" THEN "indeterminate" ELSE @]
        /\ killed' = TRUE /\ escalated' = TRUE
        /\ Goto(t, "escalate")
        /\ UNCHANGED <<req, faults>>
     \/ StoreRaises /\ Answer(t, "error") /\ UNCHANGED <<exit, killed, escalated>>
  /\ UNCHANGED <<bound, broker, session>>

(* disable_entry("exit_failed_operator_escalation") *)
Escalate(t) ==
  /\ pc[t] = "escalate"
  /\ \/ killed' = TRUE /\ escalated' = TRUE
        /\ Answer(t, "failed") /\ UNCHANGED faults
     \/ StoreRaises /\ Answer(t, "error") /\ UNCHANGED <<killed, escalated>>
  /\ UNCHANGED <<bound, exit, broker, session>>

(* A statement raises before the exit is reserved. *)
StoreFailsEarly(t) ==
  /\ pc[t] \in Reading
  /\ StoreRaises
  /\ Answer(t, "error")
  /\ UNCHANGED <<store, broker, session>>

-----------------------------------------------------------------------------
(* The operator, the entry request, the broker, the terminal, the process *)

KillEntry ==
  /\ ~killed
  /\ killed' = TRUE /\ escalated' = TRUE
  /\ UNCHANGED <<bound, exit, broker, session, pc, req, faults>>

(* The entry request, still under way, binds its order. *)
EntryBinds ==
  /\ epoch = 1 /\ ~bound["cancel"]
  /\ bound' = [bound EXCEPT !["cancel"] = TRUE]
  /\ UNCHANGED <<killed, exit, escalated, broker, session, pc, req, faults>>

Becomes ==
  [flying  |-> {"working", "open", "mixed", "gone"},
   working |-> {"open", "mixed", "gone"},
   open    |-> {"mixed", "closed"},
   mixed   |-> {"open", "closed"},
   closed  |-> {}, gone |-> {}]

(* Fills, stops, expiries, and trades of others. *)
ExposureMoves ==
  /\ exposure' \in Becomes[exposure]
  /\ UNCHANGED <<store, wire, sends, session, pc, req, faults>>

(* The broker executes an exit, or rejects it, or never gets it. *)
BrokerDecides(op) ==
  /\ wire[op] = "flying"
  /\ \/ /\ exposure \in IF op = "cancel" THEN {"working"} ELSE {"open", "mixed"}
        /\ wire' = [wire EXCEPT ![op] = "done"]
        /\ exposure' = IF op = "cancel" THEN "gone" ELSE "closed"
     \/ /\ wire' = [wire EXCEPT ![op] = "refused"]
        /\ UNCHANGED exposure
  /\ UNCHANGED <<store, sends, session, pc, req, faults>>

SwitchAccount(a) ==
  /\ a # terminal
  /\ link.gen < MaxGen
  /\ lock = None \/ terminal = link.fp
  /\ terminal' = a
  /\ UNCHANGED <<store, broker, link, epoch, now, lock, pc, req, faults>>

ConnectionLost ==
  /\ lock = None
  /\ link.up /\ link.gen < MaxGen
  /\ link' = Reset(link)
  /\ UNCHANGED <<store, broker, env, lock, pc, req, faults>>

Tick ==
  /\ now < MaxNow
  /\ now' = now + 1
  /\ UNCHANGED <<store, broker, terminal, epoch, link, lock, pc, req, faults>>

Restart ==
  /\ epoch < MaxEpoch
  /\ epoch' = epoch + 1
  /\ link' = [up |-> TRUE, gen |-> 1, fp |-> terminal]
  /\ lock' = None
  /\ pc' = [t \in Threads |->
              IF pc[t] \in {"idle", "done"} THEN pc[t] ELSE "lost"]
  /\ req' = [t \in Threads |-> IF pc[t] = "done" THEN req[t] ELSE NoRequest]
  /\ UNCHANGED <<store, broker, terminal, now, faults>>

-----------------------------------------------------------------------------
Exit(t) ==
  \/ ReadScope(t) \/ ReadRecord(t) \/ RecoverOrder(t) \/ ProveExposure(t)
  \/ Bind(t) \/ Reserve(t) \/ RefusedBeforeSend(t) \/ EnterSend(t)
  \/ Authorize(t) \/ SendExit(t) \/ SendReturns(t) \/ SendFails(t)
  \/ Verify(t) \/ FinishSucceeded(t) \/ FinishUnknown(t) \/ Escalate(t)
  \/ StoreFailsEarly(t)

Next ==
  \/ \E t \in Threads :
       Exit(t) \/ \E op \in Ops, target \in Targets : Capture(t, op, target)
  \/ KillEntry \/ EntryBinds
  \/ ExposureMoves \/ \E op \in Ops : BrokerDecides(op)
  \/ \E a \in Accounts : SwitchAccount(a)
  \/ ConnectionLost \/ Tick \/ Restart

Spec == Init /\ [][Next]_vars

(* A request that can go on is served; the rest of the world may stop. *)
FairSpec == Spec /\ \A t \in Threads : WF_vars(Exit(t))

-----------------------------------------------------------------------------
(* Properties *)

(* An exit is handed to order_send at most once, however many requests for *)
(* it race between exit_record and reserve_exit, and whatever failed.      *)
ExitSentOnce == \A k \in Ops \X Targets : sends[k] <= 1

(* A row says "succeeded" only for an exit that was sent and did not go to *)
(* another account; for a close, only when its deal was made.              *)
SucceededExitIsReal ==
  /\ \A op \in Ops :
       exit[<<op, "own">>] = "succeeded" =>
         sends[<<op, "own">>] = 1 /\ wire[op] # "elsewhere"
  /\ exit[<<"close", "own">>] = "succeeded" =>
       wire["close"] = "done" /\ exposure = "closed"

(* An exit that may have been sent is never dropped: its row is there, and *)
(* once no request is behind it the row is settled, or the process died,   *)
(* or the database failed the handler.  If it is not known to have         *)
(* succeeded, entry is closed and the operator has been notified.          *)
FailureEscalates ==
  \A k \in Ops \X Targets :
    /\ sends[k] > 0 => exit[k] # "absent"
    /\ exit[k] = "pending" =>
         \/ epoch > 1 \/ faults > 0
         \/ \E t \in Threads : pc[t] \in Owning /\ Key(t) = k
    /\ exit[k] = "indeterminate" => killed /\ escalated

(* A request that passes the last check before order_send is the only one  *)
(* behind a pending row, its ticket is the one that is bound, the boot and *)
(* the generation are the grant's, and the recovery deadline is ahead.     *)
ExitIsAuthorized ==
  [][\A t \in Threads : pc[t] # "invoke" /\ pc'[t] = "invoke" =>
       /\ exit[Key(t)] = "pending"
       /\ bound[req[t].op] /\ req[t].target = "own"
       /\ epoch = 1 /\ link.gen = 1 /\ now < RecoveryUntil
       /\ \A u \in Threads \ {t} : ~(pc[u] \in Owning /\ Key(u) = Key(t))]_vars

(* OPERATOR_RUNBOOK.md: kill-entry "preserves the same-session scoped      *)
(* exit".  An exit of proven exposure is denied, or loses its right to be  *)
(* sent, only if the account, the boot, the deadline or a permission       *)
(* stands against it.                                                      *)
KillKeepsExits ==
  [][\A t \in Threads :
       /\ pc[t] \in {"reserve", "authorize"} /\ req[t].target = "own"
       /\ pc'[t] \in {"done", "fail"} /\ req'[t].answer \in {"none", "denied"}
       => \/ terminal # req[t].fp \/ epoch # 1 \/ now >= RecoveryUntil
          \/ req[t].op \notin Permitted \/ faults' # faults]_vars

(* Every exit request is answered unless the process dies under it. *)
ExitsAnswered ==
  \A t \in Threads :
    pc[t] \in Labels \ {"idle", "done", "lost"} ~> pc[t] \in {"done", "lost"}
=============================================================================
