-------------------------- MODULE ExecutionOrders --------------------------
(***************************************************************************)
(* The entry path of the execution service: POST /api/v1/orders and        *)
(* GET /api/v1/orders/by-client of service/execution/app.py, served by     *)
(* concurrent threads (app.run(threaded=True)) over two SQLite stores      *)
(* (idempotency.py, authorization.py) that survive a restart, and over one *)
(* MT5 terminal reached through MT5Client.call, whose lock serialises the  *)
(* calls and observes the logged-in account before and after each one.     *)
(*                                                                         *)
(* An action is one step of one thread between two points where another    *)
(* thread, the operator's command line, the terminal, the broker or a      *)
(* crash can act.  One trading symbol is modelled: requests for different  *)
(* symbols only share what is modelled here.                               *)
(***************************************************************************)
EXTENDS Integers

CONSTANTS
  Threads,        \* HTTP requests, each served by a thread of its own
  Clients,        \* client order ids, also the idempotency keys
  Payloads,       \* normalised order requests, told apart by fingerprint
  ClientOf,       \* the client order id in a payload
  Grants,         \* authorization ids
  GrantClient,    \* the client order id an authorization names
  EntryFrom,      \* entry_not_before of an authorization
  EntryUntil,     \* entry_expires_at of an authorization
  Accounts,       \* account fingerprints the terminal can be logged in to
  DemoAccounts,   \* those whose account_mode is DEMO
  None,           \* no payload, no order
  MaxGen,         \* bound: session generations the environment may start
  MaxEpoch,       \* bound: process starts
  MaxNow,         \* bound: ticks of the clock
  MaxFaults       \* bound: SQLite statements that raise

ASSUME ConstantsAssumption ==
  /\ ClientOf \in [Payloads -> Clients]
  /\ GrantClient \in [Grants -> Clients]
  /\ EntryFrom \in [Grants -> Int]
  /\ EntryUntil \in [Grants -> Int]
  /\ DemoAccounts \subseteq Accounts
  /\ Accounts # {}
  /\ None \notin Payloads \cup Clients \cup Threads \cup Grants \cup Accounts
  /\ {MaxGen, MaxEpoch, MaxNow, MaxFaults} \subseteq Nat

VARIABLES
  rec,            \* rec[c]: row of execution_idempotency
  grant,          \* grant[g]: row of demo_authorization
  book,           \* book[c]: what became of the order at the broker
  sends,          \* sends[c]: order_send calls made for the client order
  terminal,       \* account the MT5 terminal is logged in to
  link,           \* this process's connection and its session guard
  epoch,          \* session_epoch of the running process
  now,            \* wall clock
  lock,           \* holder of MT5Client._lock across order_send, or None
  pc,             \* pc[t]: where thread t is
  req,            \* req[t]: what thread t was asked and captured
  note,           \* note[t]: what thread t remembers; at "done", its answer
  faults          \* SQLite statements that have raised so far

stores  == <<rec, grant>>
broker  == <<book, sends>>
session == <<terminal, link, epoch>>
env     == <<terminal, epoch, now>>
thread  == <<pc, req, note>>
vars    == <<rec, grant, book, sends, terminal, link, epoch, now, lock,
             pc, req, note, faults>>

-----------------------------------------------------------------------------
(* Types *)

RecordStates == {"absent", "pending", "succeeded", "failed", "indeterminate"}

Answers ==
  {"denied", "conflict", "accepted", "rejected", "unknown", "in progress",
   "not found", "found", "error"}

Notes == {"none", "first", "again"} \cup RecordStates \cup Answers

(* What a thread of create_order does next, in the order of the code. *)
OwnerSteps == {"scope", "send", "authorize", "invoke"}
SettleSteps ==
  {"await", "finish", "bind", "kill", "settle", "settle unknown", "kill last"}
Labels ==
  {"idle", "lookup", "claim", "reserve", "replay", "find", "resolve",
   "done", "lost"} \cup OwnerSteps \cup SettleSteps

Record == [state : RecordStates, payload : Payloads \cup {None},
           gen : Nat, fp : Accounts]
Grant  == [ready : BOOLEAN, gen : Nat, fp : Accounts, epoch : Nat,
           killed : BOOLEAN, claim : Payloads \cup {None},
           order : Clients \cup {None}]
Links  == [up : BOOLEAN, gen : Nat, fp : Accounts]
Asked  == [client : Clients, payload : Payloads \cup {None},
           grant : Grants \cup {None}, gen : Nat, fp : Accounts]
Fates  == {"none", "flying", "open", "closed", "rejected", "dropped"}

StoresOK ==
  /\ rec \in [Clients -> Record]
  /\ grant \in [Grants -> Grant]

BrokerOK ==
  /\ book \in [Clients -> [fate : Fates, acct : Accounts]]
  /\ sends \in [Clients -> Nat]

SessionOK ==
  /\ terminal \in Accounts
  /\ link \in Links
  /\ epoch \in Nat
  /\ now \in Nat
  /\ faults \in Nat

ThreadsOK ==
  /\ lock \in Threads \cup {None}
  /\ pc \in [Threads -> Labels]
  /\ req \in [Threads -> Asked]
  /\ note \in [Threads -> Notes]

TypeOK == StoresOK /\ BrokerOK /\ SessionOK /\ ThreadsOK

-----------------------------------------------------------------------------
(* Threads *)

Goto(t, l) == pc' = [pc EXCEPT ![t] = l]

Remember(t, n) == note' = [note EXCEPT ![t] = n]

Answer(t, a) == Goto(t, "done") /\ Remember(t, a)

(* An SQLite statement raises: nothing is written. *)
StoreRaises == faults < MaxFaults /\ faults' = faults + 1

-----------------------------------------------------------------------------
(* MT5Client.call: observe the account, run the callback, observe again.   *)
(* The guard starts a new generation when the observed identity is not the *)
(* one it last recorded, and after every disconnect.                       *)

Attached ==
  IF link.up /\ link.fp = terminal THEN link
  ELSE [up |-> TRUE, gen |-> link.gen + 1, fp |-> terminal]

(* A switch is reconciled in the same call, and that call is refused. *)
CallPasses == link.fp = terminal

(* The callback raised: the connection is closed. *)
Reset(l) == [l EXCEPT !.up = FALSE]

(* _validate_session_status under the call's own observation *)
SessionHolds(t) ==
  CallPasses /\ Attached.gen = req[t].gen /\ terminal = req[t].fp

SymbolEmpty ==
  \A c \in Clients : ~(book[c].fate = "open" /\ book[c].acct = terminal)

-----------------------------------------------------------------------------
(* AuthorizationStore *)

BugEpochIgnored(g, t) ==
  /\ grant[g].ready
  /\ req[t].fp \in DemoAccounts
  /\ grant[g].fp = req[t].fp
  /\ grant[g].gen = req[t].gen

(* _verified against the session a request captured *)
Verified(g, t) ==
  /\ grant[g].ready
  /\ req[t].fp \in DemoAccounts
  /\ grant[g].fp = req[t].fp
  /\ grant[g].gen = req[t].gen
  /\ grant[g].epoch = epoch

InEntryWindow(g) == EntryFrom[g] <= now /\ now < EntryUntil[g]

EntryOpen(g) == ~grant[g].killed /\ InEntryWindow(g)

BugKilledGrantStillSends(g, t) ==
  Verified(g, t) /\ grant[g].claim = req[t].payload /\ InEntryWindow(g)

(* authorize_entry, called as final_authorization inside the send lock *)
ValidateEntry(g, t) ==
  Verified(g, t) /\ grant[g].claim = req[t].payload /\ EntryOpen(g)

DisableEntry(g) == grant' = [grant EXCEPT ![g].killed = TRUE]

-----------------------------------------------------------------------------
(* IdempotencyStore.finish: an UPDATE whatever the state of the row *)

Finish(c, s) == rec' = [rec EXCEPT ![c].state = s]

(* finish returns what it then reads: it raises before its UPDATE or, when *)
(* that is committed, after it.                                            *)
FinishRaises(c, s) == StoreRaises /\ (UNCHANGED rec \/ Finish(c, s))

-----------------------------------------------------------------------------
Init ==
  /\ \E a \in Accounts :
       /\ terminal = a
       /\ link = [up |-> TRUE, gen |-> 1, fp |-> a]
       /\ rec = [c \in Clients |->
                  [state |-> "absent", payload |-> None, gen |-> 0, fp |-> a]]
       /\ grant = [g \in Grants |->
                    [ready |-> FALSE, gen |-> 0, fp |-> a, epoch |-> 0,
                     killed |-> FALSE, claim |-> None, order |-> None]]
       /\ book = [c \in Clients |-> [fate |-> "none", acct |-> a]]
       /\ \E c \in Clients :
            req = [t \in Threads |-> [client |-> c, payload |-> None,
                                      grant |-> None, gen |-> 0, fp |-> a]]
  /\ sends = [c \in Clients |-> 0]
  /\ epoch = 1
  /\ now = 0
  /\ lock = None
  /\ pc = [t \in Threads |-> "idle"]
  /\ note = [t \in Threads |-> "none"]
  /\ faults = 0

-----------------------------------------------------------------------------
(* POST /api/v1/orders *)

(* require_mutation: the session of a ready Demo account is captured.  A   *)
(* request it refuses reaches no store.                                    *)
Capture(t, p, g) ==
  /\ pc[t] = "idle"
  /\ lock = None
  /\ link' = Attached
  /\ req' = [req EXCEPT ![t] =
              [client |-> ClientOf[p], payload |-> p, grant |-> g,
               gen |-> Attached.gen, fp |-> terminal]]
  /\ IF CallPasses /\ terminal \in DemoAccounts
       THEN Goto(t, "lookup") /\ UNCHANGED note
       ELSE Answer(t, "denied")
  /\ UNCHANGED <<stores, broker, env, lock, faults>>

(* store.get: another payload under the same key is refused here, before   *)
(* it can claim the grant.                                                 *)
Lookup(t) ==
  /\ pc[t] = "lookup"
  /\ IF rec[req[t].client].payload \in {None, req[t].payload}
       THEN Goto(t, "claim") /\ UNCHANGED note
       ELSE Answer(t, "conflict")
  /\ UNCHANGED <<stores, broker, session, now, lock, req, faults>>

(* claim_entry, one BEGIN IMMEDIATE transaction *)
ClaimEntry(t) ==
  LET g == req[t].grant IN
  /\ pc[t] = "claim"
  /\ IF ~(Verified(g, t) /\ GrantClient[g] = req[t].client)
       THEN Answer(t, "denied") /\ UNCHANGED grant
     ELSE IF grant[g].claim = req[t].payload
       THEN Goto(t, "reserve") /\ Remember(t, "again") /\ UNCHANGED grant
     ELSE IF grant[g].claim # None \/ ~EntryOpen(g)
       THEN Answer(t, "denied") /\ UNCHANGED grant
     ELSE /\ grant' = [grant EXCEPT ![g].claim = req[t].payload]
          /\ Goto(t, "reserve") /\ Remember(t, "first")
  /\ UNCHANGED <<rec, broker, session, now, lock, req, faults>>

(* The right to send belongs to the thread that both claimed the grant and *)
(* created the row; a row created under an old claim is never sent.        *)
NextAfterReserve(t) ==
  IF note[t] = "first" THEN Goto(t, "scope") /\ UNCHANGED note
  ELSE Answer(t, "unknown")

BugPendingTakenOver(t) ==
  LET c == req[t].client IN
  /\ pc[t] = "reserve"
  /\ IF rec[c].state \in {"absent", "pending"}
       THEN /\ rec' = [rec EXCEPT ![c] =
                        [state |-> "pending", payload |-> req[t].payload,
                         gen |-> req[t].gen, fp |-> req[t].fp]]
            /\ Goto(t, "scope")
            /\ UNCHANGED note
     ELSE Goto(t, "replay") /\ Remember(t, rec[c].state) /\ UNCHANGED rec
  /\ UNCHANGED <<grant, broker, session, now, lock, req, faults>>

(* store.reserve, one BEGIN IMMEDIATE transaction *)
Reserve(t) ==
  LET c == req[t].client IN
  /\ pc[t] = "reserve"
  /\ IF rec[c].state = "absent"
       THEN /\ rec' = [rec EXCEPT ![c] =
                        [state |-> "pending", payload |-> req[t].payload,
                         gen |-> req[t].gen, fp |-> req[t].fp]]
            /\ NextAfterReserve(t)
     ELSE IF rec[c].payload # req[t].payload
       THEN Answer(t, "conflict") /\ UNCHANGED rec
     ELSE Goto(t, "replay") /\ Remember(t, rec[c].state) /\ UNCHANGED rec
  /\ UNCHANGED <<grant, broker, session, now, lock, req, faults>>

(* validate_recovery_session, then the answer for the row that reserve     *)
(* returned, which may have moved on meanwhile.                            *)
ReplayAnswer(s) ==
  CASE s = "pending" -> "in progress"
    [] s = "failed" -> "rejected"
    [] s = "succeeded" -> "accepted"
    [] OTHER -> "unknown"

Replay(t) ==
  /\ pc[t] = "replay"
  /\ lock = None
  /\ link' = Attached
  /\ IF CallPasses /\ terminal = rec[req[t].client].fp
       THEN Answer(t, ReplayAnswer(note[t]))
       ELSE Answer(t, "denied")
  /\ UNCHANGED <<stores, broker, env, lock, req, faults>>

(* assert_entry_scope, the order kind, preflight (order_check) and         *)
(* validate_mutation_session.  MT5 may refuse whatever the model knows.    *)
CheckScope(t) ==
  /\ pc[t] = "scope"
  /\ lock = None
  /\ SessionHolds(t) /\ SymbolEmpty
  /\ link' = Attached
  /\ Goto(t, "send")
  /\ UNCHANGED <<stores, broker, env, lock, req, note, faults>>

BugRefusalForgotten(t) ==
  /\ pc[t] \in {"scope", "send"}
  /\ lock = None
  /\ link' \in {Attached, Reset(Attached)}
  /\ Goto(t, "kill")
  /\ UNCHANGED <<stores, broker, env, lock, req, note, faults>>

(* A check or a call before order_send fails with an ExecutionError.       *)
RefusedBeforeSend(t) ==
  /\ pc[t] \in {"scope", "send"}
  /\ lock = None
  /\ link' \in {Attached, Reset(Attached)}
  /\ Goto(t, "kill") /\ Remember(t, "failed")
  /\ UNCHANGED <<stores, broker, env, lock, req, faults>>

(* Any other exception there reaches the handler's last except clause.     *)
BrokenBeforeSend(t) ==
  /\ pc[t] \in {"scope", "send"}
  /\ lock = None
  /\ link' \in {Attached, Reset(Attached)}
  /\ Goto(t, "settle unknown")
  /\ UNCHANGED <<stores, broker, env, lock, req, note, faults>>

(* send_once takes the client lock and holds it until order_send returns.  *)
(* The book and the session are checked again under it.                    *)
EnterSend(t) ==
  /\ pc[t] = "send"
  /\ lock = None
  /\ SessionHolds(t) /\ SymbolEmpty
  /\ link' = Attached
  /\ lock' = t
  /\ Goto(t, "authorize")
  /\ UNCHANGED <<stores, broker, env, req, note, faults>>

(* The second session check and final_authorization, still under the lock; *)
(* a refusal, or a database that cannot be read, raises in the callback.   *)
Authorize(t) ==
  /\ pc[t] = "authorize"
  /\ \/ /\ terminal = req[t].fp /\ ValidateEntry(req[t].grant, t)
        /\ Goto(t, "invoke")
        /\ UNCHANGED <<note, link, lock, faults>>
     \/ /\ ~(terminal = req[t].fp /\ ValidateEntry(req[t].grant, t))
        /\ link' = Reset(link) /\ lock' = None
        /\ Goto(t, "kill") /\ Remember(t, "failed")
        /\ UNCHANGED faults
     \/ /\ StoreRaises
        /\ link' = Reset(link) /\ lock' = None
        /\ Goto(t, "settle unknown")
        /\ UNCHANGED note
  /\ UNCHANGED <<stores, broker, env, req>>

(* mt5.order_send: from here on the outcome is the broker's. *)
OrderSend(t) ==
  LET c == req[t].client IN
  /\ pc[t] = "invoke"
  /\ sends' = [sends EXCEPT ![c] = @ + 1]
  /\ book' = [book EXCEPT ![c] = [fate |-> "flying", acct |-> terminal]]
  /\ Goto(t, "await")
  /\ UNCHANGED <<stores, session, now, lock, req, note, faults>>

BugNoSecondObservation(t) ==
  /\ pc[t] = "await"
  /\ lock' = None
  /\ book[req[t].client].fate \in {"flying", "open", "closed"}
  /\ Goto(t, "finish")
  /\ UNCHANGED <<stores, broker, session, now, req, note, faults>>

(* The retcode says placed or done, or names a rejection.  A retcode       *)
(* counts only if the account observed after the call is still the one     *)
(* observed before it.                                                     *)
Replied(t, outcome) ==
  LET fate == book[req[t].client].fate IN
  CASE outcome = "succeeded" -> fate \in {"flying", "open", "closed"}
    [] outcome = "failed" -> fate = "rejected"

OrderSendReturns(t) ==
  /\ pc[t] = "await"
  /\ CallPasses
  /\ lock' = None
  /\ \/ Replied(t, "succeeded") /\ Goto(t, "finish") /\ UNCHANGED note
     \/ Replied(t, "failed") /\ Goto(t, "kill") /\ Remember(t, "failed")
  /\ UNCHANGED <<stores, broker, session, now, req, faults>>

BugTimeoutMeansFailed(t) ==
  /\ pc[t] = "await"
  /\ lock' = None
  /\ link' \in {Attached, Reset(link)}
  /\ Goto(t, "kill") /\ Remember(t, "failed")
  /\ UNCHANGED <<stores, broker, env, req, faults>>

BugLockKeptOnTimeout(t) ==
  /\ pc[t] = "await"
  /\ link' \in {Attached, Reset(link)}
  /\ Goto(t, "kill") /\ Remember(t, "indeterminate")
  /\ UNCHANGED <<stores, broker, env, lock, req, faults>>

(* AmbiguousMT5Result: no result, a malformed one, retcode 10012 or 10031, *)
(* an exception after invocation, or the account changed under the call.   *)
OrderSendAmbiguous(t) ==
  /\ pc[t] = "await"
  /\ lock' = None
  /\ link' \in {Attached, Reset(link)}
  /\ Goto(t, "kill") /\ Remember(t, "indeterminate")
  /\ UNCHANGED <<stores, broker, env, req, faults>>

(* store.finish(succeeded); if it raises, the last except clause runs and  *)
(* overwrites a row that was written.                                      *)
FinishSucceeded(t) ==
  /\ pc[t] = "finish"
  /\ \/ /\ Finish(req[t].client, "succeeded")
        /\ Goto(t, "bind")
        /\ UNCHANGED faults
     \/ FinishRaises(req[t].client, "succeeded") /\ Goto(t, "settle unknown")
  /\ UNCHANGED <<grant, broker, session, now, lock, req, note>>

BugBindChecksLiveSession(t) ==
  LET g == req[t].grant
      c == req[t].client IN
  /\ pc[t] = "bind"
  /\ IF link.up /\ grant[g].gen = link.gen
       THEN /\ grant' = [grant EXCEPT ![g].order = c]
            /\ Answer(t, "accepted")
       ELSE /\ Goto(t, "kill") /\ Remember(t, "failed")
            /\ UNCHANGED grant
  /\ UNCHANGED <<rec, broker, session, now, lock, req, faults>>

(* bind_exposure(order_id): write once.  A conflict is an ExecutionError,  *)
(* which overwrites the row just finished.                                 *)
BindOrder(t) ==
  LET g == req[t].grant
      c == req[t].client IN
  /\ pc[t] = "bind"
  /\ \/ /\ IF /\ Verified(g, t) /\ grant[g].claim # None
               /\ grant[g].order \in {None, c}
            THEN /\ grant' = [grant EXCEPT ![g].order = c]
                 /\ Answer(t, "accepted")
            ELSE /\ Goto(t, "kill") /\ Remember(t, "failed")
                 /\ UNCHANGED grant
        /\ UNCHANGED faults
     \/ StoreRaises /\ Goto(t, "settle unknown") /\ UNCHANGED <<grant, note>>
  /\ UNCHANGED <<rec, broker, session, now, lock, req>>

BugOnlyFailureKills(t) ==
  /\ pc[t] = "kill"
  /\ IF note[t] = "failed" THEN DisableEntry(req[t].grant)
     ELSE UNCHANGED grant
  /\ Goto(t, "settle")
  /\ UNCHANGED <<rec, broker, session, now, lock, req, note, faults>>

(* except AmbiguousMT5Result / except ExecutionError: disable_entry, then  *)
(* finish.  A store error in either leaves the rest undone.                *)
KillGrant(t) ==
  /\ pc[t] = "kill"
  /\ \/ DisableEntry(req[t].grant) /\ Goto(t, "settle")
        /\ UNCHANGED <<note, faults>>
     \/ StoreRaises /\ Answer(t, "error") /\ UNCHANGED grant
  /\ UNCHANGED <<rec, broker, session, now, lock, req>>

Settle(t) ==
  /\ pc[t] = "settle"
  /\ \/ /\ Finish(req[t].client, note[t])
        /\ Answer(t, IF note[t] = "failed" THEN "rejected" ELSE "unknown")
        /\ UNCHANGED faults
     \/ FinishRaises(req[t].client, note[t]) /\ Answer(t, "error")
  /\ UNCHANGED <<grant, broker, session, now, lock, req>>

(* except Exception: finish(indeterminate), then disable_entry. *)
SettleUnknown(t) ==
  /\ pc[t] = "settle unknown"
  /\ \/ /\ Finish(req[t].client, "indeterminate")
        /\ Goto(t, "kill last")
        /\ UNCHANGED <<note, faults>>
     \/ FinishRaises(req[t].client, "indeterminate") /\ Answer(t, "error")
  /\ UNCHANGED <<grant, broker, session, now, lock, req>>

KillLast(t) ==
  /\ pc[t] = "kill last"
  /\ \/ /\ DisableEntry(req[t].grant)
        /\ Answer(t, "unknown")
        /\ UNCHANGED faults
     \/ StoreRaises /\ Answer(t, "error") /\ UNCHANGED grant
  /\ UNCHANGED <<rec, broker, session, now, lock, req>>

(* store.get, claim_entry or reserve raises outside the handler's try: the  *)
(* request ends where it is.                                               *)
StoreFailsEarly(t) ==
  /\ pc[t] \in {"lookup", "claim", "reserve"}
  /\ StoreRaises
  /\ Answer(t, "error")
  /\ UNCHANGED <<stores, broker, session, now, lock, req>>

-----------------------------------------------------------------------------
(* GET /api/v1/orders/by-client/{client_order_id} *)

(* store.get: a failed row is "not accepted" without asking the broker. *)
GetByClient(t, c) ==
  /\ pc[t] = "idle"
  /\ req' = [req EXCEPT ![t].client = c]
  /\ IF rec[c].state \in {"absent", "failed"}
       THEN Answer(t, "not found")
       ELSE Goto(t, "find") /\ Remember(t, rec[c].state)
  /\ UNCHANGED <<stores, broker, session, now, lock, faults>>

(* The order is looked up by its correlation token, on the account of the  *)
(* row only.  One still in flight is unseen, pending (no answer), or       *)
(* already in the state MT5 calls placed, which counts as accepted.        *)
FindOrder(t) ==
  LET c == req[t].client
      fate == book[c].fate IN
  /\ pc[t] = "find"
  /\ lock = None
  /\ link' = Attached
  /\ IF ~(CallPasses /\ terminal = rec[c].fp) THEN Answer(t, "denied")
     ELSE \/ /\ ~(book[c].acct = terminal /\ fate \in {"open", "closed", "rejected"})
             /\ Answer(t, "not found")
          \/ /\ book[c].acct = terminal /\ fate \in {"flying", "open", "closed", "rejected"}
             /\ IF note[t] = "succeeded" THEN Answer(t, "found")
                ELSE /\ Goto(t, "resolve")
                     /\ Remember(t, IF fate = "rejected" THEN "failed" ELSE "succeeded")
  /\ UNCHANGED <<stores, broker, env, lock, req, faults>>

(* The row is finished from what was read earlier. *)
Resolve(t) ==
  /\ pc[t] = "resolve"
  /\ \/ /\ Finish(req[t].client, note[t])
        /\ Answer(t, IF note[t] = "failed" THEN "not found" ELSE "found")
        /\ UNCHANGED faults
     \/ FinishRaises(req[t].client, note[t]) /\ Answer(t, "error")
  /\ UNCHANGED <<grant, broker, session, now, lock, req>>

-----------------------------------------------------------------------------
(* The operator, the broker, the terminal, the clock and the process *)

(* authorization.py provision, with the session of a fresh health answer *)
Provision(g) ==
  /\ ~grant[g].ready
  /\ link.up
  /\ grant' = [grant EXCEPT ![g].ready = TRUE, ![g].gen = link.gen,
                            ![g].fp = link.fp, ![g].epoch = epoch]
  /\ UNCHANGED <<rec, broker, session, now, lock, thread, faults>>

(* authorization.py kill-entry: another process, no lock in common *)
KillEntry(g) ==
  /\ grant[g].ready /\ ~grant[g].killed
  /\ DisableEntry(g)
  /\ UNCHANGED <<rec, broker, session, now, lock, thread, faults>>

(* The broker decides on an order it received, at any time, also after its *)
(* reply was lost; a dropped order never reached it.                       *)
BrokerDecides(c) ==
  /\ book[c].fate = "flying"
  /\ \E f \in {"open", "rejected", "dropped"} :
       book' = [book EXCEPT ![c].fate = f]
  /\ UNCHANGED <<stores, sends, session, now, lock, thread, faults>>

PositionCloses(c) ==
  /\ book[c].fate = "open"
  /\ book' = [book EXCEPT ![c].fate = "closed"]
  /\ UNCHANGED <<stores, sends, session, now, lock, thread, faults>>

(* Somebody logs the terminal in to another account.  Assumed: not there   *)
(* and back within one guarded call, which no observation could reveal.    *)
SwitchAccount(a) ==
  /\ a # terminal
  /\ link.gen < MaxGen
  /\ lock = None \/ terminal = link.fp
  /\ terminal' = a
  /\ UNCHANGED <<stores, broker, link, epoch, now, lock, thread, faults>>

(* Another call of this process failed and closed the connection. *)
ConnectionLost ==
  /\ lock = None
  /\ link.up /\ link.gen < MaxGen
  /\ link' = Reset(link)
  /\ UNCHANGED <<stores, broker, env, lock, thread, faults>>

Tick ==
  /\ now < MaxNow
  /\ now' = now + 1
  /\ UNCHANGED <<stores, broker, session, lock, thread, faults>>

(* The process dies and starts again: a new boot epoch, a guard whose      *)
(* generations start over, and no memory of the requests being served.     *)
Restart ==
  /\ epoch < MaxEpoch
  /\ epoch' = epoch + 1
  /\ link' = [up |-> TRUE, gen |-> 1, fp |-> terminal]
  /\ lock' = None
  /\ pc' = [t \in Threads |->
              IF pc[t] \in {"idle", "done"} THEN pc[t] ELSE "lost"]
  /\ UNCHANGED <<stores, broker, terminal, now, req, note, faults>>

-----------------------------------------------------------------------------
Entry(t) ==
  \/ Lookup(t) \/ ClaimEntry(t) \/ Reserve(t) \/ Replay(t)
  \/ CheckScope(t) \/ RefusedBeforeSend(t) \/ BrokenBeforeSend(t)
  \/ EnterSend(t) \/ Authorize(t) \/ OrderSend(t)
  \/ OrderSendReturns(t) \/ OrderSendAmbiguous(t)
  \/ FinishSucceeded(t) \/ BindOrder(t)
  \/ KillGrant(t) \/ Settle(t) \/ SettleUnknown(t) \/ KillLast(t)
  \/ StoreFailsEarly(t)

Recovery(t) == FindOrder(t) \/ Resolve(t)

Arrive(t) ==
  \/ \E p \in Payloads, g \in Grants : Capture(t, p, g)
  \/ \E c \in Clients : GetByClient(t, c)

Environment ==
  \/ \E g \in Grants : Provision(g) \/ KillEntry(g)
  \/ \E c \in Clients : BrokerDecides(c) \/ PositionCloses(c)
  \/ \E a \in Accounts : SwitchAccount(a)
  \/ ConnectionLost \/ Tick \/ Restart

Next ==
  \/ \E t \in Threads : Arrive(t) \/ Entry(t) \/ Recovery(t)
  \/ Environment

Spec == Init /\ [][Next]_vars

(* A thread that can run is run; nothing is promised of the environment.   *)
FairSpec == Spec /\ \A t \in Threads : WF_vars(Entry(t) \/ Recovery(t))

-----------------------------------------------------------------------------
(* Properties *)

Holds(t, c) == req[t].client = c /\ pc[t] \in OwnerSteps

Alive(t) == pc[t] \notin {"idle", "done", "lost"}

(* A client order id is handed to order_send at most once, over concurrent *)
(* duplicates, replays, store errors and restarts.                         *)
AtMostOneSend == \A c \in Clients : sends[c] <= 1

(* A row says "failed" only if the broker holds no such order: a later     *)
(* replay and the by-client lookup tell the caller it was not accepted     *)
(* without asking MT5.                                                     *)
FailedMeansNotAccepted ==
  \A c \in Clients :
    rec[c].state = "failed" => book[c].fate \in {"none", "rejected"}

(* A row says "succeeded" only for an order that was sent, and on the      *)
(* account that reserved the row: an order that went to another account is *)
(* never taken for this one.  MT5 may still drop it: placed is all that    *)
(* the retcode, or the state of the order, says.                           *)
SucceededMeansSentHere ==
  \A c \in Clients :
    rec[c].state = "succeeded" =>
      sends[c] > 0 /\ book[c].acct = rec[c].fp

(* Two answers about one client order never contradict each other unless   *)
(* the broker itself rejected an order it had placed.                      *)
AnswersAgree ==
  \A t, u \in Threads :
    /\ pc[t] = "done" /\ note[t] = "accepted"
    /\ pc[u] = "done" /\ note[u] = "rejected"
    /\ req[t].client = req[u].client
    => book[req[t].client].fate = "rejected"

(* The order id bound to a grant, which exits rely on, is that of the one  *)
(* order sent for the client order id both the grant and its claim name,   *)
(* on the account of the grant.  (Which of two grants for that id it was   *)
(* sent under is left to SendIsAuthorized, and the binding that a recovery *)
(* makes to ScopedExits.)                                                  *)
BoundOrderIsOwn ==
  \A g \in Grants :
    grant[g].order # None =>
      /\ grant[g].order = GrantClient[g]
      /\ grant[g].claim # None /\ ClientOf[grant[g].claim] = GrantClient[g]
      /\ sends[GrantClient[g]] = 1
      /\ book[GrantClient[g]].acct = grant[g].fp

(* At order_send the row, the grant and the session agree: the sender is   *)
(* the request that made the claim and created the row, the row is still   *)
(* pending with its payload, and the grant was given for this boot and     *)
(* this session generation.                                                *)
SendIsAuthorized ==
  [][\A c \in Clients : sends'[c] # sends[c] =>
       \E t \in Threads :
         LET g == req[t].grant IN
         /\ pc[t] = "invoke" /\ pc'[t] = "await" /\ req[t].client = c
         /\ note[t] = "first"
         /\ rec[c].state = "pending" /\ rec[c].payload = req[t].payload
         /\ grant[g].claim = rec[c].payload
         /\ grant[g].epoch = epoch /\ grant[g].gen = link.gen
         /\ sends'[c] = sends[c] + 1]_vars

(* kill-entry stops new entry without a restart: once a grant is killed    *)
(* and no thread is past its last check, no thread ever reaches order_send *)
(* under it again.                                                         *)
KilledAndQuiet(g) ==
  /\ grant[g].killed
  /\ \A t \in Threads : ~(pc[t] = "invoke" /\ req[t].grant = g)

KillIsFinal ==
  [][\A g \in Grants : KilledAndQuiet(g) => KilledAndQuiet(g)']_vars

(* An unknown outcome closes entry: the grant that claimed an              *)
(* indeterminate order is killed, or a thread is about to kill it, or a    *)
(* restart has revoked it.  Stated for stores that do not raise.           *)
UnknownEntryIsKilled ==
  \A c \in Clients :
    rec[c].state = "indeterminate" =>
      \E g \in Grants :
        /\ grant[g].claim = rec[c].payload
        /\ \/ grant[g].killed
           \/ grant[g].epoch < epoch
           \/ \E t \in Threads : pc[t] = "kill last" /\ req[t].grant = g

(* The entry path implements EntryOnce: the right to send is held by the   *)
(* one thread between reserve and order_send.                              *)
Right == [c \in Clients |->
            IF rec[c].state = "absent" THEN "unclaimed"
            ELSE IF \E t \in Threads : Holds(t, c) THEN "held" ELSE "spent"]

Once == INSTANCE EntryOnce WITH right <- Right, sent <- sends

ImplementsEntryOnce == Once!Spec

(* Every request is answered unless the process dies under it: no thread   *)
(* waits for the client lock for ever.                                     *)
RequestsAnswered ==
  \A t \in Threads : Alive(t) ~> pc[t] \in {"done", "lost"}

(* test_execution_api.py: a "recovered rejection is not persisted as       *)
(* acceptance"; once the lookup has recorded a rejection the row does not  *)
(* turn into an acceptance.                                                *)
RecoveredRejectionStands ==
  [][\A c \in Clients :
       rec[c].state = "failed" => rec'[c].state # "succeeded"]_vars

(* app.py: execution_in_progress, "The original request is still in        *)
(* progress"; an answer given now has a thread behind it.                  *)
InProgressIsTrue ==
  [][\A t \in Threads :
       pc'[t] = "done" /\ pc[t] # "done" /\ note'[t] = "in progress" =>
         \E u \in Threads \ {t} :
           Alive(u) /\ req[u].client = req[t].client
             /\ req[u].payload # None]_vars
=============================================================================
