--------------------------- MODULE AccountSession ---------------------------
(***************************************************************************)
(* One process's use of the MT5 terminal: MT5Client (client.py), its       *)
(* AccountSessionGuard (session.py) and its SymbolResolver, under the      *)
(* threads that use them: the tick worker, the history worker, the         *)
(* requests of the execution service and the session monitor.              *)
(*                                                                         *)
(* An action is what a thread does around one call to the terminal: the    *)
(* client lock keeps other threads out for a whole operation, but somebody *)
(* can log the terminal in to another account between any two calls, any   *)
(* call can fail once, and the connection itself can be lost: then every   *)
(* call over it fails until it is closed.  One trading symbol is modelled; *)
(* a broker name is known by the account whose catalog it was taken from.  *)
(***************************************************************************)
EXTENDS Integers

CONSTANTS
  Threads,      \* the threads of the process that use its client
  Role,         \* what each of them is: see Roles
  Accounts,     \* account identities (login, server, mode)
  Modeless,     \* those whose trade mode is neither DEMO nor REAL
  Incomplete,   \* those whose catalog lacks a configured symbol
  None,         \* nobody logged in, no identity, no resolver, no thread
  Broken,       \* a resolver whose last initialization failed
  Unset,        \* no observation recorded since the last disconnect
  MaxMoves,     \* bound: logins between two observations of the account
  MaxLogins,    \* bound: logins
  MaxFaults,    \* bound: single calls that fail, and lost connections
  MaxGen        \* bound: session generations

Roles == {"ticks", "history", "request", "monitor"}

ASSUME SessionAssumption ==
  /\ Role \in [Threads -> Roles]
  /\ Modeless \subseteq Accounts
  /\ Incomplete \subseteq Accounts
  /\ {None, Broken, Unset} \cap Accounts = {}
  /\ None # Broken /\ None # Unset
  /\ None \notin Threads
  /\ {MaxMoves, MaxLogins, MaxFaults, MaxGen} \subseteq Nat

VARIABLES
  terminal,     \* account the terminal is logged in to, or None
  moves,        \* logins since the client last saw the account
  logins,       \* logins in all
  faults,       \* single calls that have failed, and connections lost
  up,           \* MT5Client._mt5 is not None
  lost,         \* its transport is gone, which nobody knows before a call
  guard,        \* AccountSessionGuard
  resolver,     \* MT5Client._resolver: the account of its catalog
  known,        \* _resolver_symbols is set
  snapshot,     \* _session_snapshot, what health and requests are told
  lock,         \* holder of MT5Client._lock between two calls
  pc,           \* where each thread is
  local         \* what each thread remembers

outside == <<terminal, logins>>
client  == <<up, lost, guard, resolver, known>>
vars    == <<terminal, moves, logins, faults, up, lost, guard, resolver,
             known, snapshot, lock, pc, local>>

-----------------------------------------------------------------------------
(* Types *)

States == {"disconnected", "ready", "switch", "unknown"}
Guards == [state : States, gen : Nat, active : Accounts \cup {None},
           seen : Accounts \cup {None}, key : Accounts \cup {None, Unset}]

(* op: the client operation under way.  fresh: _resolver_initialized of a  *)
(* worker; was: its client was connected when the cycle began.  gen, acct: *)
(* the session the callback ran in.  alias: the account of the broker name *)
(* it used; at: the account that was logged in when it read.               *)
Locals == [op : {"ensure", "resolve", "read"}, fresh : BOOLEAN,
           was : BOOLEAN, gen : Nat, acct : Accounts \cup {None},
           alias : Accounts \cup {None}, at : Accounts \cup {None}]

(* The steps that hold the lock across a call to the terminal. *)
Inside == {"refresh", "reconcile", "late reconcile", "callback", "leave"}
Labels == {"idle", "enter", "init", "check", "reset", "accepted"} \cup Inside

Snapshots == [ready : BOOLEAN, gen : Nat, acct : Accounts \cup {None}]

TypeOK ==
  /\ terminal \in Accounts \cup {None}
  /\ moves \in Nat /\ logins \in Nat /\ faults \in Nat
  /\ up \in BOOLEAN /\ lost \in BOOLEAN /\ known \in BOOLEAN
  /\ guard \in Guards
  /\ resolver \in Accounts \cup {None, Broken}
  /\ snapshot \in Snapshots
  /\ lock \in Threads \cup {None}
  /\ pc \in [Threads -> Labels]
  /\ local \in [Threads -> Locals]

-----------------------------------------------------------------------------
(* AccountSessionGuard *)

BugOnlyConnectionsCount(g, id) ==
  IF id = g.key THEN g
  ELSE [g EXCEPT !.gen = IF g.key = Unset THEN g.gen + 1 ELSE g.gen,
                 !.key = id]

(* _record_observation *)
Recorded(g, id) ==
  IF id = g.key THEN g ELSE [g EXCEPT !.gen = g.gen + 1, !.key = id]

BugUnknownIgnored(g, id) ==
  IF id = None \/ id \in Modeless THEN [g EXCEPT !.seen = id]
  ELSE IF g.active \in {None, id}
    THEN [g EXCEPT !.state = "ready", !.seen = id, !.active = id]
  ELSE [g EXCEPT !.state = "switch", !.seen = id]

(* observe_account_info: an account that is not the active one has to be   *)
(* reconciled; an unknown one blocks the session and keeps the active one. *)
Judged(g, id) ==
  IF id = None \/ id \in Modeless
    THEN [g EXCEPT !.state = "unknown", !.seen = id]
  ELSE IF g.active \in {None, id}
    THEN [g EXCEPT !.state = "ready", !.seen = id, !.active = id]
  ELSE [g EXCEPT !.state = "switch", !.seen = id]

Disconnected(g) == [g EXCEPT !.state = "disconnected", !.key = Unset]

(* reconcile *)
Acknowledged(g) == [g EXCEPT !.state = "ready", !.active = g.seen]

BugFingerprintFromKey(g) == g.key

(* _observed or _active *)
Fingerprint(g) == IF g.seen # None THEN g.seen ELSE g.active

Publish(g) ==
  snapshot' = [ready |-> g.state = "ready", gen |-> g.gen,
               acct |-> Fingerprint(g)]

-----------------------------------------------------------------------------
(* The terminal *)

CallFails == faults < MaxFaults /\ faults' = faults + 1

(* account_info.  The resolver is dropped with the account it was for. *)
Observe ==
  /\ ~lost
  /\ guard' = Judged(Recorded(guard, terminal), terminal)
  /\ resolver' = IF guard'.state \in {"switch", "unknown"} THEN None
                 ELSE resolver
  /\ moves' = 0
  /\ UNCHANGED faults

(* account_info raises, once or, over a lost connection, always: readiness *)
(* is closed, and the connection is kept.                                  *)
ObserveFails ==
  /\ (lost /\ UNCHANGED faults) \/ CallFails
  /\ guard' = Disconnected(guard)
  /\ UNCHANGED <<resolver, moves>>

(* symbols_get: there is a catalog where somebody is logged in. *)
CatalogRead  == ~lost /\ terminal # None /\ UNCHANGED faults
CatalogFails == ((lost \/ terminal = None) /\ UNCHANGED faults) \/ CallFails

(* The connection is closed, and what was wrong with it is gone with it.   *)
Close == up' = FALSE /\ lost' = FALSE

(* resolve finds the symbol in the catalog a resolver was built from. *)
Resolves(r) == r \in Accounts \ Incomplete

-----------------------------------------------------------------------------
(* The threads *)

Goto(t, l) == pc' = [pc EXCEPT ![t] = l]

(* _resolver_initialized = False, which only the tick worker does *)
Forgotten(t) ==
  IF Role[t] = "ticks" THEN [local EXCEPT ![t].fresh = FALSE] ELSE local

BugLockKept(t) ==
  /\ lock' = lock
  /\ local' = Forgotten(t)
  /\ Goto(t, IF Role[t] = "ticks" /\ local[t].op = "read" THEN "reset"
             ELSE "idle")

(* ensure_connected returned False, or call raised: the tick worker resets *)
(* the connection after a failed read and will initialize its resolver     *)
(* again; the others report the failure and go on.                         *)
Refused(t) ==
  /\ lock' = None
  /\ local' = Forgotten(t)
  /\ Goto(t, IF Role[t] = "ticks" /\ local[t].op = "read" THEN "reset"
             ELSE "idle")

(* ensure_connected raised: the loop of a worker resets the connection. *)
Unwinds(t) ==
  /\ lock' = None
  /\ local' = Forgotten(t)
  /\ Goto(t, IF Role[t] \in {"ticks", "history"} THEN "reset" ELSE "idle")

(* The session is ready: ensure_connected returns True and the worker      *)
(* initializes its resolver unless it has; call runs its callback.         *)
AfterEnsure(t) ==
  CASE Role[t] = "ticks"   -> IF local[t].fresh THEN "enter" ELSE "init"
    [] Role[t] = "history" ->
         IF local[t].fresh /\ local[t].was THEN "check" ELSE "init"
    [] OTHER               -> "idle"

Admitted(t) ==
  IF local[t].op = "ensure"
    THEN /\ Publish(guard')
         /\ lock' = None
         /\ local' = [local EXCEPT ![t].op = "read"]
         /\ Goto(t, AfterEnsure(t))
    ELSE /\ lock' = t
         /\ Goto(t, "callback")
         /\ UNCHANGED <<snapshot, local>>

-----------------------------------------------------------------------------
Init ==
  /\ terminal \in Accounts \cup {None}
  /\ moves = 0 /\ logins = 0 /\ faults = 0
  /\ up = FALSE /\ lost = FALSE /\ known = FALSE
  /\ guard = [state |-> "disconnected", gen |-> 0, active |-> None,
              seen |-> None, key |-> Unset]
  /\ resolver = None
  /\ snapshot = [ready |-> FALSE, gen |-> 0, acct |-> None]
  /\ lock = None
  /\ pc = [t \in Threads |-> "idle"]
  /\ local = [t \in Threads |->
               [op |-> "ensure", fresh |-> FALSE, was |-> FALSE, gen |-> 0,
                acct |-> None, alias |-> None, at |-> None]]

(* A cycle of a worker or a monitor, or a request for a quote.  The        *)
(* monitor marks the snapshot first, without the client lock.              *)
Start(t) ==
  /\ pc[t] \in {"idle", "accepted"}
  /\ guard.gen < MaxGen
  /\ Goto(t, "enter")
  /\ IF Role[t] = "request"
       THEN local' = [local EXCEPT ![t].op = "resolve"]
       ELSE local' = [local EXCEPT ![t].op = "ensure", ![t].was = up]
  /\ snapshot' = IF Role[t] = "monitor" THEN [snapshot EXCEPT !.ready = FALSE]
                 ELSE snapshot
  /\ UNCHANGED <<outside, moves, faults, client, lock>>

-----------------------------------------------------------------------------
(* MT5Client._ensure_connected_unsafe, at the start of every operation *)

(* A connection is opened if there is none, and the account observed.  A   *)
(* new connection is kept for a switch to be reconciled over it and        *)
(* dropped if the account is unknown; over a new one to the same account   *)
(* the resolver has to be refreshed.                                       *)
Enter(t) ==
  /\ pc[t] = "enter" /\ lock = None
  /\ Observe
  /\ up' = (up \/ guard'.state # "unknown")
  /\ \/ /\ guard'.state = "ready"
        /\ IF ~up /\ resolver # None
             THEN lock' = t /\ Goto(t, "refresh") /\ UNCHANGED <<snapshot, local>>
             ELSE Admitted(t)
     \/ /\ guard'.state = "switch"
        /\ lock' = t /\ Goto(t, "reconcile")
        /\ UNCHANGED <<snapshot, local>>
     \/ /\ guard'.state = "unknown"
        /\ Publish(guard') /\ Refused(t)
  /\ UNCHANGED <<outside, lost, known>>

(* account_info raises, or no connection can be opened: in the second case *)
(* the guard is not told.                                                  *)
EnterFails(t) ==
  /\ pc[t] = "enter" /\ lock = None
  /\ \/ ObserveFails
     \/ ~up /\ CallFails /\ UNCHANGED <<guard, resolver, moves>>
  /\ Publish(guard')
  /\ Refused(t)
  /\ UNCHANGED <<outside, up, lost, known>>

(* _refresh_resolver_unsafe, over a new connection *)
Refresh(t) ==
  /\ pc[t] = "refresh"
  /\ CatalogRead
  /\ resolver' = terminal
  /\ guard' = guard
  /\ Admitted(t)
  /\ UNCHANGED <<outside, moves, up, lost, known>>

(* The connection is closed and the guard is not told.  A ConnectionError  *)
(* makes ensure_connected return False; anything else is raised, and the   *)
(* monitor closes readiness.                                               *)
RefreshFails(t) ==
  /\ pc[t] = "refresh"
  /\ CatalogFails
  /\ resolver' = Broken
  /\ Close
  /\ \/ guard' = guard /\ Publish(guard) /\ Refused(t)
     \/ /\ IF Role[t] = "monitor"
             THEN guard' = Disconnected(guard) /\ Publish(guard')
             ELSE guard' = guard /\ UNCHANGED snapshot
        /\ Unwinds(t)
  /\ UNCHANGED <<outside, moves, known>>

(* _reconcile_session_unsafe: the new account is acknowledged once a       *)
(* resolver for every configured symbol has been built.  The operation     *)
(* that met the switch is refused; when its callback had run already, the  *)
(* snapshot was published before.                                          *)
Reconcile(t) ==
  /\ pc[t] \in {"reconcile", "late reconcile"}
  /\ \/ /\ known /\ CatalogRead /\ Resolves(terminal)
        /\ resolver' = terminal /\ guard' = Acknowledged(guard)
     \/ /\ known /\ (CatalogFails \/ (CatalogRead /\ ~Resolves(terminal)))
        /\ UNCHANGED <<resolver, guard>>
     \/ /\ ~known
        /\ guard' = Acknowledged(guard)
        /\ UNCHANGED <<faults, resolver>>
  /\ IF pc[t] = "reconcile" THEN Publish(guard') ELSE UNCHANGED snapshot
  /\ Refused(t)
  /\ UNCHANGED <<outside, moves, up, lost, known>>

-----------------------------------------------------------------------------
(* The callbacks of MT5Client.call *)

(* MT5ExecutionAdapter._resolve: the broker name for the reads that        *)
(* follow, from a resolver built here if there is none.  The session is    *)
(* what consistent_read compares the following reads with.                 *)
ResolveSymbol(t) ==
  /\ pc[t] = "callback" /\ local[t].op = "resolve"
  /\ IF resolver = None
       THEN CatalogRead /\ resolver' = terminal /\ known' = TRUE
       ELSE UNCHANGED <<faults, resolver, known>>
  /\ Resolves(resolver')
  /\ local' = [local EXCEPT ![t].gen = guard.gen, ![t].acct = Fingerprint(guard),
                            ![t].alias = resolver']
  /\ Goto(t, "leave")
  /\ UNCHANGED <<outside, moves, up, lost, guard, snapshot, lock>>

BugReadsNotCompared(t) == guard.state = "ready"

(* _call's guard over the reads of one request *)
SameSession(t) ==
  local[t].gen = guard.gen /\ local[t].acct = Fingerprint(guard)

CanRead(t) ==
  IF Role[t] = "request" THEN SameSession(t) ELSE Resolves(resolver)

(* symbol_info, symbol_info_tick or copy_rates_from_pos.  The workers      *)
(* resolve the name here, a request has it from its first call.            *)
Read(t) ==
  /\ pc[t] = "callback" /\ local[t].op = "read"
  /\ CanRead(t) /\ ~lost
  /\ local' = [local EXCEPT
       ![t].gen = guard.gen, ![t].acct = Fingerprint(guard), ![t].at = terminal,
       ![t].alias = IF Role[t] = "request" THEN local[t].alias ELSE resolver]
  /\ Goto(t, "leave")
  /\ UNCHANGED <<outside, moves, faults, client, snapshot, lock>>

(* The callback raises, for a name that does not resolve, a changed        *)
(* session or a failed call: the connection is reset, nothing published.   *)
CallbackRaises(t) ==
  /\ pc[t] = "callback"
  /\ \/ /\ local[t].op = "resolve" /\ resolver = None
        /\ known' = TRUE
        /\ \/ CatalogFails /\ resolver' = Broken
           \/ CatalogRead /\ resolver' = terminal /\ ~Resolves(terminal)
     \/ /\ local[t].op = "resolve" /\ resolver # None /\ ~Resolves(resolver)
        /\ UNCHANGED <<faults, resolver, known>>
     \/ /\ local[t].op = "read"
        /\ ((~CanRead(t) \/ lost) /\ UNCHANGED faults) \/ CallFails
        /\ UNCHANGED <<resolver, known>>
  /\ Close
  /\ guard' = Disconnected(guard)
  /\ Refused(t)
  /\ UNCHANGED <<outside, moves, snapshot>>

(* The account is observed again, and the result of the callback is only   *)
(* returned if the session is still the one the callback ran in.  (Ready   *)
(* with another generation, which the code refuses as well, cannot be: the *)
(* lock keeps the guard still under the callback.)                         *)
Leave(t) ==
  /\ pc[t] = "leave"
  /\ Observe
  /\ \/ /\ guard'.state = "ready" /\ guard'.gen = local[t].gen
        /\ Publish(guard') /\ lock' = None
        /\ Goto(t, IF local[t].op = "resolve" THEN "enter" ELSE "accepted")
        /\ local' = [local EXCEPT ![t].op = "read"]
     \/ /\ guard'.state = "switch"
        /\ Publish(guard') /\ Goto(t, "late reconcile")
        /\ UNCHANGED <<lock, local>>
     \/ /\ guard'.state = "unknown"
        /\ Publish(guard') /\ Refused(t)
  /\ UNCHANGED <<outside, up, lost, known>>

LeaveFails(t) ==
  /\ pc[t] = "leave"
  /\ ObserveFails
  /\ Publish(guard')
  /\ Refused(t)
  /\ UNCHANGED <<outside, up, lost, known>>

-----------------------------------------------------------------------------
(* Outside MT5Client.call *)

(* init_resolver, which checks the guard but does not observe the account *)
InitResolver(t) ==
  /\ pc[t] = "init" /\ lock = None
  /\ known' = (known \/ (up /\ guard.state = "ready"))
  /\ \/ /\ up /\ guard.state = "ready"
        /\ CatalogRead /\ resolver' = terminal
        /\ local' = [local EXCEPT ![t].fresh = TRUE]
        /\ Goto(t, IF Role[t] = "ticks" THEN "enter" ELSE "check")
     \/ /\ IF up /\ guard.state = "ready"
             THEN CatalogFails /\ resolver' = Broken
             ELSE UNCHANGED <<faults, resolver>>
        /\ local' = Forgotten(t) /\ Goto(t, "reset")
  /\ UNCHANGED <<outside, moves, up, lost, guard, snapshot, lock>>

(* is_resolved, by which the history worker skips a symbol for this cycle *)
IsResolved(t) ==
  /\ pc[t] = "check" /\ lock = None
  /\ Goto(t, IF up /\ Resolves(resolver) THEN "enter" ELSE "idle")
  /\ UNCHANGED <<outside, moves, faults, client, snapshot, lock, local>>

(* reset *)
ResetClient(t) ==
  /\ pc[t] = "reset" /\ lock = None
  /\ Close
  /\ guard' = Disconnected(guard)
  /\ Goto(t, "idle")
  /\ UNCHANGED <<outside, moves, faults, resolver, known, snapshot, lock, local>>

(* session_status without refresh, when the lock is free *)
ReadStatus ==
  /\ lock = None
  /\ Publish(guard)
  /\ UNCHANGED <<outside, moves, faults, client, lock, pc, local>>

(* Somebody logs the terminal in to an account, or out. *)
LogIn(id) ==
  /\ id # terminal
  /\ moves < MaxMoves /\ logins < MaxLogins
  /\ terminal' = id /\ moves' = moves + 1 /\ logins' = logins + 1
  /\ UNCHANGED <<faults, client, snapshot, lock, pc, local>>

(* The RPyC transport of the open connection is lost. *)
LoseConnection ==
  /\ up /\ ~lost
  /\ CallFails
  /\ lost' = TRUE
  /\ UNCHANGED <<outside, moves, up, guard, resolver, known, snapshot, lock,
                 pc, local>>

Step(t) ==
  \/ Start(t) \/ Enter(t) \/ EnterFails(t) \/ Refresh(t) \/ RefreshFails(t)
  \/ Reconcile(t) \/ ResolveSymbol(t) \/ Read(t) \/ CallbackRaises(t)
  \/ Leave(t) \/ LeaveFails(t) \/ InitResolver(t) \/ IsResolved(t)
  \/ ResetClient(t)

Next ==
  \/ \E t \in Threads : Step(t)
  \/ \E id \in Accounts \cup {None} : LogIn(id)
  \/ LoseConnection
  \/ ReadStatus

Spec == Init /\ [][Next]_vars

(* Threads are scheduled, calls to the terminal return or time out; nothing *)
(* is promised of who logs in.                                              *)
FairSpec == Spec /\ \A t \in Threads : WF_vars(Step(t))

-----------------------------------------------------------------------------
(* Properties *)

(* What a caller of MT5Client.call is given was read on the account its    *)
(* session names, by the broker name that account's catalog has for the    *)
(* symbol, provided the terminal changed at most once between two          *)
(* observations (MaxMoves = 1).                                            *)
ReadsAreTrue ==
  \A t \in Threads :
    pc[t] = "accepted" =>
      local[t].at = local[t].acct /\ local[t].alias = local[t].acct

(* A session generation names one account: a request that kept a           *)
(* generation, and a health probe that was told one, never find the guard  *)
(* at that generation with another account.                                *)
GenerationNamesAccount ==
  /\ \A t \in Threads :
       local[t].acct # None /\ local[t].gen = guard.gen /\ guard.seen # None
         => guard.seen = local[t].acct
  /\ snapshot.ready /\ snapshot.gen = guard.gen /\ guard.seen # None
         => guard.seen = snapshot.acct

Tradable == (Accounts \ Modeless) \ Incomplete

(* No call of the process reaches the terminal any more: the transport is  *)
(* lost, and every later operation asks the dead handle for the account    *)
(* first, is refused and keeps it.                                         *)
CutOff == lost /\ guard.state = "disconnected" /\ ~snapshot.ready

(* After any switches, logouts and failed calls, reads are accepted again  *)
(* once the terminal stays on an account that has the symbols, unless the  *)
(* process is cut off for good.                                            *)
ReadsResume ==
  \A t \in Threads :
    Role[t] # "monitor" /\ <>[](terminal \in Tradable) =>
      []<>(pc[t] = "accepted") \/ <>[]CutOff

(* Health follows the terminal: it names the account the terminal stays    *)
(* on, or says for ever that the process is not ready, because the account *)
(* cannot be identified or because the process is cut off for good.        *)
HealthFollows ==
  /\ \A a \in Tradable :
       <>[](terminal = a) =>
         []<>(snapshot.ready /\ snapshot.acct = a) \/ <>[]CutOff
  /\ <>[](terminal \in Modeless \cup {None}) => <>[](~snapshot.ready)
  /\ <>[]lost => <>[]CutOff
=============================================================================
