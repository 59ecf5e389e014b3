# Verification of EA_trade_data_sys

TLA+ models, TLC runs and TLAPS proofs for the trading data system in this
repository.  `app.py`, `authorization.py`, `idempotency.py`, `mt5_adapter.py`
are the files of `service/execution/`; `client.py` and `session.py` those of
`service/infrastructure/mt5/`.  Section 1 is the inventory, 2 the modules and
what is left to do, 3 to 8 are the models, 9 the findings, 10 the proofs.

## 1. Inventory

| Component | Source | State | Operations | Hard behaviour |
|---|---|---|---|---|
| Execution API | `service/execution/app.py`, `entrypoints/execution_server.py` | none of its own: a `session_epoch` per process | POST orders, GET by-client, cancel, close, on concurrent threads | duplicates, replays, crashes between two database writes, unknown outcomes |
| Idempotency store | `idempotency.py` | SQLite row per client order id | reserve, finish, get | unconditional finish from two writers |
| Authorization store | `authorization.py` | SQLite grant, exit rows, abort outbox | provision, claim, authorize, bind, disable, exits | a second process (the operator's command line), stale grants, time windows |
| MT5 execution adapter | `mt5_adapter.py`, `contracts.py` | a read session per request | preflight, send_once, order_by_client, cancel, close | the account changes under a call, ambiguous results |
| MT5 client, session guard, symbol resolver | `client.py`, `session.py`, `symbol_resolver.py` | connection, generation, active and observed identity, published snapshot, resolver | call, ensure_connected, monitor, reconcile, shutdown | one lock, a monitor thread, snapshots that lag, reconnects |
| History worker and repository | `service/history/` | CSV and ready marker per series, gap certificates and staged bars | fetch_incremental, read | late reads of an executor thread, two files replaced one after the other, account switches |
| Historical archive | `archive.py`, `archive_backfill.py` | SQLite bars and completion certificates | backfill | source changes between two reads |
| Realtime ticks | `service/realtime/`, `infrastructure/ipc/tick_protocol.py` | latest ticks, client channels with bounded queues, consumer cache | publish, accept, write, read, reconnect, stop | slow consumers, order of snapshot and live ticks, stop racing accept |
| Supervisor | `service/runtime/supervisor.py` | child processes, stop signal | start, monitor, shutdown | failures while starting, children that ignore SIGTERM |
| API gateway, component status | `service/gateway/`, `infrastructure/status/` | status files, web sockets | read-only routes, health | statuses that are stale |
| Trade query, ETL, configuration | `service/trade_query/`, `service/etl/`, `service/config/` | trade database (ETL) | mapping, synchronisation | rows that fail to map |
| Container and terminal lifecycle | `mt5docker/terminal_lifecycle.sh`, `start_server.sh` | Wine prefix, terminal and updater processes, snapshots of the Journal | launch, wait for startup and login, follow an update, open the API | two views of the terminal (processes, Journal) that disagree, a terminal that replaces itself |
| Web application | `apps/trade-review-web/` | none | read-only views, trade simulation | the simulation algorithm |

How they interact: the supervisor starts the tick worker, the history worker
and the gateway as processes; the execution server is a process of its own.
Each of them holds an `MT5Client` and shares one MT5 terminal with the others;
somebody can log that terminal in to another account at any time.  The history
worker and the gateway share files, the tick worker and the gateway a Unix
socket, the execution server and the operator's command line a database.

What makes each part correct: an order is sent at most once and what the rows
and answers say agrees with the broker (execution); nothing is read or sent
under an account identity that has changed (client and guard); a reader never
gets bars of another instrument or an unverified series (history); a coverage
row is about the bars that are stored (archive); a consumer never goes back to
an older tick and gets the latest in the end (ticks); the supervisor leaves no
child that it has not told to end, and then killed (supervisor); a run of the
ETL that nothing upset is stored whole (ETL); the API opens for the terminal
that has started up and logged in, and no terminal is launched over another one
that can be seen (container).  The hazards with their lines are
listed in `PROJECT.json`.

## 2. Modules

| Module | Models | Checked by | Section |
|---|---|---|---|
| `ExecutionOrders`, abstract specification `EntryOnce` | entry path, both stores, send lock, restarts | `once`, `refines`, `grants`, `rejection`, `in_progress` | 3, proofs in 10 |
| `AccountSession` | client, guard, resolver, monitor, snapshot, under the threads that use them | `session_processes`, `session_stuck` | 4, proofs in 10 |
| `ScopedExits` | cancel and close under one grant, exit rows, abort outbox, recovery window | `exits` | 5, proofs in 10 |
| `HistoryPublication` | CSV and marker of a series, writer lock, late calls, certificates, reader | `publication`, `mixed` | 6, proofs in 10 |
| `TickIpc` | tick worker, publisher, channels, consumer, browser | `ticks` | 7, proofs in 10 |
| `Archive`, `Supervisor`, `TradeEtl`, `TerminalLifecycle`, `GapVerification` | backfill jobs, child processes, the ETL transaction, the start of the terminal, the holes of a series over several refreshes | `jobs` | 8, proofs in 10 |

A module `MC...` gives the constants of a small instance.  Two of them do more.
`MCSessionProcesses` chooses which process of the system a behaviour of
`AccountSession` is about.  `MCJobs` is the disjoint union of five parts that
share no state, one of which runs in each behaviour: what it checks of one part
is what a run of that part alone would check, because the others then stand
still in states where their properties hold.

The proofs are in `ExecutionOrdersProofs` and `ExecutionOrdersTheorems`,
`AccountSessionProofs`, `ScopedExitsProofs`, `HistoryPublicationProofs`,
`TickIpcProofs`, `TerminalLifecycleProofs` and `JobsProofs` (archive, supervisor,
ETL, gap verification, and all parts of `MCJobs` together).

Left to do, in this order:

1. that `AccountSession` implements the one-step view that `ExecutionOrders`
   and `ScopedExits` take of a guarded call;
2. for the liveness properties, proofs of the safety facts their arguments
   rest on (that a waiting thread is never without a step, that each step of a
   loop lowers a bound);
3. pure algorithms against reference definitions: the mapping of deals and
   orders, the health rule, the trade simulation of the web application.

## 3. The entry path: `ExecutionOrders`

One action is one step of one thread between two points where another thread,
the operator, the terminal, the broker or a crash can act.  A SQLite
transaction is one action; everything `MT5Client.call` does under its lock is
one action, except in `send_once`, where the lock is held over four actions
(`EnterSend`, `Authorize`, `OrderSend`, `OrderSendReturns` or
`OrderSendAmbiguous`) because the operator, the clock, the broker and the
terminal do not take that lock.

| Variable | Code |
|---|---|
| `rec[c]` | row of `execution_idempotency`: state, payload fingerprint, session |
| `grant[g]` | row of `demo_authorization`: artifact fields once provisioned, `killed`, `claim`, `order_id` |
| `link` | `AccountSessionGuard`: connected, generation, last recorded identity |
| `epoch` | `ExecutionContext.session_epoch`, a new one per process |
| `lock` | the holder of `MT5Client._lock` across `send_once` |
| `pc`, `req`, `note` | where a thread of `create_order` or `order_by_client` is, the session it captured, and what it remembers (`claimed`, the state read, the outcome to write); at "done" `note` is its answer |
| `book`, `sends` | external: what became of the order at the broker, and the calls of `order_send` |
| `terminal`, `now` | external: the account that is logged in, the clock |

`POST /orders` is `Capture`, `Lookup`, `ClaimEntry`, `Reserve`, then `Replay`
or `CheckScope`, `EnterSend`, `Authorize`, `OrderSend`, an outcome,
`FinishSucceeded`, `BindOrder`; the except clauses are `KillGrant` and
`Settle` (disable_entry, then finish) and `SettleUnknown` and `KillLast` (the
last clause, in the opposite order).  `finish` ends with a read of its own, so
it may raise after its UPDATE is committed as well as before it
(`FinishRaises`).  `GET by-client` is `GetByClient`,
`FindOrder`, `Resolve`; an order still on its way is not seen, or is found in a
state that counts as pending or already as accepted (`mt5_adapter.py:453-456`).
Refusals that depend on data the model leaves out
(volumes, `order_check`, malformed results) are nondeterministic:
`RefusedBeforeSend` and `BrokenBeforeSend` may happen whenever the code could
raise there, `OrderSendAmbiguous` whatever the broker did.

Assumptions of the model, each named in a comment where it is used:

- one trading symbol; orders for others meet only in what is modelled;
- the terminal does not change account there and back within one guarded
  call: the two observations of `MT5Client.call` could not see it;
- reconciliation after an account switch succeeds (a failed one only refuses
  more calls) and the published snapshot does not lag (a lagging one only
  refuses more requests at `Capture`);
- the broker does not invent orders, and rejects, drops or fills an order once;
- session generations start again at 1 in every process, as in the code.

### Properties

| Property | Says |
|---|---|
| `AtMostOneSend` | no client order id reaches `order_send` twice, over duplicates, replays, store errors and restarts |
| `FailedMeansNotAccepted` | a failed row means the broker holds no such order |
| `SucceededMeansSentHere` | a succeeded row means the order was sent, on the account of the row; MT5 may drop it later, "placed" says no more |
| `AnswersAgree` | "accepted" and "rejected" for one order only if the broker rejected what it had placed |
| `BoundOrderIsOwn` | the order a grant's exits rely on is the one order sent for the id that it and its claim name, on its account; which of two grants for that id sent it is the matter of `SendIsAuthorized` |
| `SendIsAuthorized` | at `order_send` row, claim, boot epoch and generation agree |
| `KillIsFinal` | after kill-entry, and once no thread is past its last check, nothing is sent under the grant |
| `UnknownEntryIsKilled` | an unknown outcome closes entry under its grant |
| `ImplementsEntryOnce` | the right to send is given out once, spent by the send or given up for good |
| `RequestsAnswered` | every request is answered unless the process dies under it |

### Runs

| Run | Instance | Shows |
|---|---|---|
| `once` | 3 requests, 1 client order, 2 payloads, 2 accounts (one Demo), 2 generations, 1 restart, 1 store error | the row and answer properties; two duplicates and a lookup at once, which every race of the path needs |
| `refines` | 2 client orders on one symbol, a restart, fair threads | `ImplementsEntryOnce`, `RequestsAnswered` |
| `grants` | 2 grants for one client order, an entry window that opens and closes, a restart, no store errors | `BoundOrderIsOwn`, `UnknownEntryIsKilled` |
| `rejection`, `in_progress` | small instances | the findings of section 9 |

`CHECK_DEADLOCK` is off because the set of requests is finite: when all are
answered and the bounds are used up the system may stop.  The bounds `MaxGen`,
`MaxEpoch`, `MaxNow` and `MaxFaults` only limit the environment.  Two
generations are enough for a request to capture one session and meet another;
two process starts for a row to outlive its process; one store error because
every error ends the thread that meets it.  The properties compare at most two
threads; the third is the lookup.  Symmetry is over threads (and over grants
where nothing tells them apart) and is not used in the liveness run.

Fairness: `FairSpec` assumes that a thread that can take a step of its request
takes one (threads are scheduled, SQLite transactions end) and that
`order_send` returns or raises (it runs over an RPyC connection with a
timeout).  Nothing is assumed of the operator, the broker or the terminal.

## 4. The account session: `AccountSession`

One process's `MT5Client`, its guard and its resolver, used by the threads of
that process: the tick worker, the history worker, requests for a quote in the
execution service, and the session monitor.  An action is what a thread does
around one call to the terminal.  The client lock keeps other threads out for
a whole operation, so most interleavings are with the terminal: between any
two calls somebody can log it in to another account or out (`LogIn`), and any
call can fail once.  Beside that the connection can be lost (`LoseConnection`):
then every call over it fails until it is closed.  The code closes it when a
callback raises and in the workers' `reset` after one (`Close`); an observation
that raises only marks the session disconnected and keeps `_mt5`
(`client.py:305-307`), and so do all later ones.  A process that comes to that
point reaches the terminal no more; `CutOff` names it.

| Variable | Code |
|---|---|
| `up`, `lost` | `MT5Client._mt5` is not None; its transport is gone, which the client does not know |
| `guard` | `_state`, `_generation`, `_active`, `_observed`, `_last_observation_key` |
| `resolver` | `_resolver`, by the account whose catalog it holds; `Broken` after a failed `initialize` |
| `known` | `_resolver_symbols` is set |
| `snapshot` | `_session_snapshot`: ready, generation, identity |
| `lock` | holder of `MT5Client._lock` across a call to the terminal |
| `local` | `op`: the client operation; `fresh`: a worker's `_resolver_initialized`; `was`: `was_connected`; `gen`, `acct`, `alias`, `at`: the session, broker name and account of the last read |
| `terminal`, `moves`, `logins`, `faults` | external: the account logged in, logins since it was last observed, logins in all, failed calls and lost connections in all |

`_ensure_connected_unsafe` is `Enter` or `EnterFails`, then `Refresh` over a
new connection or `Reconcile` after a switch; `MT5Client.call` goes on with a
callback (`ResolveSymbol`, `Read`, or `CallbackRaises`) and the observation
after it (`Leave`, `LeaveFails`).  Outside `call` are `InitResolver`,
`IsResolved`, `ResetClient`, `ReadStatus`.  `Start` begins a cycle; the
monitor's marks the snapshot without the client lock.

Assumptions:

- for `ReadsAreTrue` only: at most one login between two observations of the
  account (`MaxMoves = 1`).  The code cannot see a terminal that goes away and
  comes back between two calls of `account_info` (section 9).
- there is a catalog exactly where somebody is logged in, and the catalog and
  mode of an account do not change;
- one symbol, and an unidentified account is one value (`None`), although the
  code tells partly known ones apart;
- the tick worker and the history worker are alone in their processes;
- the process does not end (`shutdown` is not modelled).

| Property | Says |
|---|---|
| `ReadsAreTrue` | a returned result was read on the account of its session, by the name that account's catalog has; for a request also over its two calls |
| `GenerationNamesAccount` | the guard is never at a generation a request or health has been told of with another account |
| `ReadsResume` | once the terminal stays on an account that has the symbols, reads are accepted again and again, or the process is cut off for good: true of the request and the tick worker (`ProcessReadsResume`), not of the history worker |
| `HealthFollows` | health names the account the terminal stays on, and does not stay ready over one that cannot be identified or over a connection that is lost for good |

| Run | Instance | Shows |
|---|---|---|
| `session_processes` | one of three processes: a request and the monitor on one client, the tick worker, the history worker; 4 accounts (one of unknown mode, one without the symbol), 3 logins, 1 failed call or lost connection, fair | `ReadsAreTrue`, `GenerationNamesAccount`, `HealthFollows`, `ProcessReadsResume` |
| `session_stuck` | the history worker, 1 account, 2 logins | `ReadsResume` fails for it (section 9) |

Three logins are a switch, a logout and a return; the failed call can be the
one that recovers from a switch, and the connection can be lost before, under
or after any call.  The exception for `CutOff` does not carry the properties:
the mutants of `HealthFollows` and `ProcessReadsResume` break them over
connections that live.  `MaxGen` bounds the cycles a thread may
start; it is above every generation the logins and failures can reach, so it
stops no thread.  The account without the symbol can be logged in only when the
history worker runs: the tick worker would connect over and over and meet that
bound.

Fairness is of each thread's steps: the loops of the workers and the monitor
run until the process ends, and a call to the terminal returns or times out
(`sync_request_timeout`).  Nothing is assumed of who logs in; the liveness
properties are about a terminal that stays where it is.

## 5. The exits: `ScopedExits`

`scoped_exit` of `app.py` serves `POST /orders/<id>/cancel` and
`/positions/<id>/close` under a grant whose entry order has been sent.  The
steps of a request are those of section 3: a SQLite transaction, a guarded
call, or a point inside `send_once`, where the client lock is held.

| Variable | Code |
|---|---|
| `killed`, `bound` | the grant: closed for entry; which of `order_id`, `position_id` it has |
| `exit` | rows of `demo_authorization_exit`, by operation and target |
| `escalated` | `demo_authorization_abort` has an event |
| `link`, `lock`, `epoch`, `pc`, `req` | as in `ExecutionOrders`; `req` ends with the answer |
| `exposure`, `wire`, `sends` | external: what became of the entry order, what became of the last exit sent, calls of `order_send` |

A request is `Capture`, `ReadScope`, `ReadRecord`, `RecoverOrder` (when the
entry request never bound its order), `ProveExposure`, `Bind`, `Reserve`,
`EnterSend`, `Authorize`, `SendExit`, `SendReturns` or `SendFails`, `Verify`,
`FinishSucceeded`; whatever goes wrong after `Reserve` ends in `FinishUnknown`
and `Escalate`.  Beside it act the operator (`KillEntry`), the entry request
(`EntryBinds`), the broker (`ExposureMoves`, `BrokerDecides`), the clock, the
terminal and `Restart`.

| Property | Says |
|---|---|
| `ExitSentOnce` | no exit of an operation and target is sent twice |
| `SucceededExitIsReal` | a succeeded row was sent on its account, and a close has closed the position |
| `FailureEscalates` | an exit that was sent keeps its row; one that is not known to have succeeded has closed entry and raised the abort event |
| `ExitIsAuthorized` | at `order_send` the request alone is behind a pending row, on the bound ticket, in the grant's boot, generation and time window |
| `KillKeepsExits` | a kill of entry refuses no exit of proven exposure, at its reservation or at the check inside the send lock |
| `ExitsAnswered` | every exit request is answered unless the process dies |

The run `exits` has two requests of any operation and target, two accounts, two
generations, a restart, the deadline and one failing statement.  Two requests
are enough for the race between the read of the record and the reservation;
`RefusedBeforeSend` stands for every refusal that depends on data.
`FairSpec` assumes that a thread goes on; nothing of the operator or the broker.

## 6. Published history: `HistoryPublication`

One series of the history service.  `Refresh` is the loop of
`fetch_incremental`, `Execute` the executor thread that carries out its calls:
`StartRefresh` takes the writer lock, reads the file and submits the page read;
`CallBegins` and `CallEnds` are the two observations of the account around a
callback; `TimeOut` leaves a call behind that goes on; `Merge` decides whether
gaps have to be verified (`GapVerification` has how, in section 8); `WriteCsv` and `Mark` replace the two files, one
after the other; `Fail` withdraws the marker; `Crash` may come anywhere.  The
reader is `ReadMarker` and `ReadCsv`.

What an observation finds is one of four operators: the session's account
(`Confirmed`), an account that cannot be identified, over which the resolver is
dropped (`Unidentified`), another account (`Reconciled`), or nothing
(`Unobserved`), which keeps the connection, a lost one too.  A callback that
raises closes the connection (`CallRaises`).  A worker whose connection is lost
and kept, or open without a resolver, is stranded (`Stranded`): it withdraws the
series in every later refresh and asks for bars no more.

| Variable | Code |
|---|---|
| `csv`, `marker`, `lock` | the file (by its source, the accounts its bars and its gap certificate come from), the ready marker, the `flock` |
| `pc`, `work`, `cert` | locals of `fetch_incremental`; `_verified_gaps` |
| `guard`, `client`, `call` | the client's session; its connection and resolver; the executor's call |
| `asked` | the marker a reader has read |

| Property | Says |
|---|---|
| `ServedFromOneSource` | a reader gets one broker name, only bars read by it, and no gap that another account's history explained |
| `MarkerNamesCsv` | no marker without its file, after crashes and late calls too |
| `NoLostUpdate` | two workers do not overwrite each other's bars |
| `PublicationFollows` | once the terminal stays, the series is published again and again, or withdrawn for good: because the account has too little history, or because every worker is stranded, and for no other reason |

Assumed, beside what is said in section 3 of a guarded call: a terminal that is
switched away and back inside one callback, which neither observation of the
account sees, is outside; what the callback read is taken for the account that
both found.

Both runs have two workers, three accounts of two broker names (one with too
little history), two switches or logouts and one fault (a failed or timed-out
call, a lost connection, or a crash).  Two switches go to another catalog and
back, which is what a late call or an old certificate needs to do harm, or to
a logout and back, which drops the resolvers.  `PublicationSpec` starts with
the terminal on an account that has enough history (1.6 million states; the
proofs start anywhere).  Fairness is of the loop
and of the executor; calls return, and logins need not happen.

## 7. Ticks: `TickIpc`

`Produce` is the tick worker (`Poll`, `Publish`, `Stop`, `DropClients`, `Exit`,
`Start`), `Accept` and `Register` the accept thread, `Write` a client's writer
thread, `Consume` the gateway's consumer (`Connect`, `Receive`, `EmitTick`,
`EndOfStream`), `Handle` the thread of a browser's subscription (`Subscribe`,
`TakeTick`, `EmitTaken`).  A tick is a number, larger for a newer one.  A
connection has its publisher's end, its consumer's end, the queue and what is
on the socket.

| Property | Says |
|---|---|
| `NothingMissed` | a registered client has, or will get from its socket and queue, the newest published tick of every symbol |
| `TicksForward` | the gateway never goes back to an older tick, over reconnections and restarts of the worker |
| `TicksCatchUp` | when the market is quiet the gateway and a subscribed browser end with its ticks, whoever was dropped or restarted before |

The run `ticks` has two symbols, two connections at a time, two ticks and two
faults (a read that fails, a client that is too slow, a worker or a gateway
that ends).  The queue holds the snapshot and one poll, the socket one event,
which is the ratio that matters: `client_queue_size` is 256 and the symbols are
a few (`TickAssumption`).  A poll finds the clients' queues empty unless a
fault is spent on it: `poll_interval` is long against the writing of a few
lines.  Fairness is of each thread, and of a worker that is down being started
again (the supervisor stops the whole application and the container starts it
again); logins, ticks and subscriptions need not happen.

## 8. Jobs and the terminal: `Archive`, `Supervisor`, `TradeEtl`, `TerminalLifecycle`

All five are checked by the run `jobs`.

**`Archive`.**  A job of `archive_backfill.py` reads its range twice
(`FirstRead`, `SecondRead`), then `Upsert`, `MarkCompleted`, `EndJob`, each a
transaction; the broker may revise bars and the account may change in between.
`CoverageIsTrue`: a coverage row vouches for the bars that are stored now,
whatever another job on an overlapping range did.  Instance: two jobs, two
accounts, all ranges of three bars, one change at the broker.

**`Supervisor`.**  `StartChild` (which may fail), `Watch`, and the four steps
of `shutdown`: `Terminate`, `AwaitEnd`, `Kill`, `Reap`.  Children end by
themselves or do not listen, a signal may come at any time.  A child that was
sent SIGKILL takes its time to end, too: `shutdown` waits a second for it and
swallows the timeout (`supervisor.py:110-114`), so it may be there still when
the supervisor has returned.  `EndIsAnswered`: any of these makes the supervisor
return, and not before every child has ended or was sent SIGKILL; it reports a
signal only if there was one.  Three children; weak fairness of the
supervisor's own steps, the passing of its deadline included, and nothing of
the children.

**`TradeEtl`.**  One action per step of `main` with its SQL: `Statement` is a
statement in the open transaction, which may fail and then takes every later
one with it, although each step catches its own exception; `Commit` rolls back
after a failed one.  A row of the history file that cannot be parsed ends its
import after earlier batches of 500 were inserted (`OhlcStep`).
`TablesHoldWholeRuns`: a run that nothing upset makes of the tables exactly what
`WholeRun` says, whatever earlier runs left: a snapshot of its account, each of
its deals and orders with its data, under its login if the row is new and under
the login it was first written with if not, every other row as it was, and the
bar, but as it was first imported (section 9).  Instance: three runs, three upsets (failed
requests and statements, kills, account changes), two accounts that share the
number of a deal and an order.

**`TerminalLifecycle`.**  The part of `start_server.sh` from the launch of the
terminal on, with the loops of `terminal_lifecycle.sh`: `Launch`,
`await_terminal_ready` (`Ready`, `ReadyConfirm`), `await_terminal_authorized`
(`Authorized`, `AuthorizedConfirm`), `await_single_update` (`Update`),
`hold_for_terminal_authorization` (`Hold`, `HoldAgain`),
`await_native_account_persistence` (`Stored`), the snapshot and the API (`Open`),
the last loop (`Serve`).  A turn of a loop is two steps, the scan of the
processes (`Scan`) and the reading of the Journal, because the terminal goes on
between them.  `place` is where the script is, `memory` its variables, `proc`
the processes, `journal` the lines since the last snapshot; each line carries
the process that wrote it, which the script cannot see and only the properties
use.  The terminal starts up, logs in and out, prompts, announces an updater or
starts one silently, leaves and is replaced.

| Property | Says |
|---|---|
| `LaunchIsAlone` | when the script launches, no updater is there, announced or visible, and no terminal but a replacement that its scan has not shown |
| `ReadyIsEarned` | when the API is about to open, the Journal holds the startup and then the login of the very process the script has settled on, unless a terminal was launched beside such a replacement |
| `LoginIsNoticed` | the script does not take window after window over a terminal that is logged in, with the same exception |

A terminal that an updater starts is not visible at once (`native`, until
`Appear`), and the updater may be gone by then.  A scan in between shows no
process, `await_single_update` takes the update for ended without a replacement
(`terminal_lifecycle.sh:209-213`), and `Launch` starts a second terminal.  The
ghost variable `doubled` is set by that launch.  What such a pair of terminals
writes is in one Journal without names, so that one can be taken for the other;
the last two properties say what holds without it, and section 9 has the
disagreement.

What is assumed of the terminal, at the action it is about: it does not leave
between announcing an updater and that updater's process (`Leave`); an updater
replaces the executable when no terminal runs (`Replace`); a terminal's first
line is its startup; an updater the Journal is silent about lives longer than a
turn of a loop (`EndUpdate`); an update replaces the executable once (`replaced`)
and the terminal it starts is up to date, so that it needs no other one: with a
second update of four processes `ReadyIsEarned` would be false.  The instance
has four processes and four lines: a terminal, its updater, the replacement and
a second launch, and of the lines the startup of the old terminal, the
announcement, the startup and the login of the new one.  Fairness is of the
script only.

**`GapVerification`.**  `_verify_gaps` over several refreshes of one series:
`BeginRound` drops the staged rows of holes that are gone, `VerifyHole` takes
one hole (staged rows, a certificate, a range call, or the end of the budget),
`EndVerification` replaces the certificates, `Publish` writes.  `WriteFails`,
`ReadFails`, `Expire` (the hour of the staged rows and that of the certificates
run separately), `ReviseBar` and `Die` come in between.  `GapsSettle`: once a
refresh has begun, the file is ready for good in the end, although a refresh
asks for a few holes only; and a hole in a ready file is one the broker has
too, but for the case of section 9.  Five times, every subset of them at the
broker and of these in its positional reads, one call for each refresh (the
code has 8) so that two holes exceed it, and two mishaps.  Fairness is of the
refreshes.  The account is that of one session (`HistoryPublication` has the
switches), retention does not cut the series, and the limits on the span of a
hole and on the staged rows are left out.  `HolesAreTrue` takes the holes of the
exception (`unsaved`) by their two sides, not by the bars there: a response for
the next hole may revise a bar both share, and then the hole is the same but its
signature is not (seen in a larger instance, of seven times and four mishaps).

`CHECK_DEADLOCK` is off in these runs because jobs, runs, requests and the
script end.

## 9. Findings

- **A recorded rejection can be overwritten** (`rejection`).  `finish` is
  unconditional (`idempotency.py:132`), so the thread that got "placed"
  (retcode 10008) replaces the failed state that by-client recovery has just
  recorded with succeeded, against the test at
  `service/tests/unit/test_execution_api.py:476`.
- **"The original request is still in progress" can be false**
  (`in_progress`).  A duplicate that overtakes the first request between
  `claim_entry` and `reserve` (`app.py:287-291`) leaves a pending row that no
  thread works on.  It is safe (nothing is sent) but the row stays pending.
- **The history worker can lose its symbols for good** (`session_stuck`).  An
  observation without identity drops the resolver (`client.py:311-314`); the
  same account, back again, makes the guard ready without a reconciliation,
  and `history/worker.py:473` initializes only after a reconnect.  Every later
  cycle reports "broker symbol unresolved".  The tick worker recovers, because
  it forgets `_resolver_initialized` on every failure; so do requests, which
  build a resolver when there is none.
- **A published file can mix two accounts** (`mixed`).  The cached bars are
  dropped only if the broker name differs (`history/worker.py:546`): after a
  switch to an account whose catalog has the same name, the bars of both are
  merged under a fresh marker, against
  `tests/unit/test_history_service.py:667`.

Seen while modelling, and not checked by a run of its own:

- `mt5_adapter.py:779` checks the account, `:781` reads the authorization
  database, `:783` sends: a login in between redirects the order.  The second
  observation notices, the outcome becomes indeterminate and nothing is resent,
  but `mt5docker/README.md:190-194` promises that a generation change "never
  targets a resource from the previous terminal account".  `OrderSend` and
  `SendExit` have the case; the properties are stated so that they hold with it.
- `init_resolver` does not observe the account (`client.py:334-345`); if the
  terminal was elsewhere just then and is back at the next call, that call uses
  a broker name of the other account, against `client.py:312-313`.  It takes
  two logins between two observations, which `MaxMoves` excludes.
- When the resolver refresh over a new connection fails, `client.py:149-158`
  closes the connection and leaves the guard ready; the snapshot published next
  says ready, against `mt5docker/README.md:163-165`.  The next operation
  connects again, so `HealthFollows` is not affected.
- A connection whose transport is lost is not replaced, against the docstrings
  of `client.py:22` and `:60` ("disconnected: reconnects by itself").
  `ensure_connected` and `call` ask the handle they have for the account
  (`client.py:80-86`, `:113-122`), the exception marks the session disconnected
  (`:305-307`), and `_mt5` stays; the monitor does the same (`:242-245`), the
  tick worker returns without a `reset` (`realtime/worker.py:50-53`) and the
  history worker goes on as degraded (`history/worker.py:456-470`).  Only a
  callback that raises resets it.  `CutOff` in `AccountSession` and `Stranded`
  in `HistoryPublication` are these processes: health says that they are not
  ready and the series is withdrawn (`HealthFollows`, `PublicationFollows`).
- A terminal can be launched beside the replacement of an update, when the
  updater is gone and the terminal it has started is not visible yet
  (`terminal_lifecycle.sh:209-213`).  `mt5docker/README.md:130` says "It never
  launches a second terminal over the native replacement", and `:141` that a
  visibility gap alone does not trigger a launch, which is so of the gap of an
  announced updater only.  `LaunchIsAlone` shows that it is the one case, and
  that it needs the update to have taken place.
- `import_csv_to_ohlc` is to "upsert rows" (`trade_etl.py:176`) and inserts with
  ON CONFLICT DO NOTHING (`:189`): a bar the broker has revised stays in the
  database as it was first imported (`WholeRun`).
- A recovery before an exit (`app.py:386-396`) binds whatever order the client
  order id has: a second grant that claimed for that id in the same session is
  bound to the order that the first one sent.  `ScopedExits` has one grant and
  `BoundOrderIsOwn` is about the entry path; no document says that it may not.
- `mt5docker/README.md:152-154` says that the expiry of the login window fails
  the startup closed; `hold_for_terminal_authorization`
  (`terminal_lifecycle.sh:415-425`) opens the next window, for ever
  (`HoldAgain`).
- A blocking line that the Journal gains between the authorization check
  (`terminal_lifecycle.sh:390`) and the snapshot for health
  (`start_server.sh:179`) is before that baseline, and health never sees it
  (`Open`).
- After a bootstrap `start_server.sh:157-158` takes the processes anew without
  comparing them with the one that was authorized (`AwaitStored`).
  `ReadyIsEarned` holds all the same: an announced updater leaves a line that
  `Stored` reads, and a silent one is assumed to be still there at the scan.
- `history/worker.py:251` certifies every hole it looked at, one that the range
  response filled included, against the comment at `:311` ("Remember each actual
  remaining broker closure, not a filled hole").  If the file then cannot be
  written and the staged rows expire before the certificates, the next refresh
  passes the unfilled hole and publishes it as ready.  `unsaved` in
  `GapVerification` remembers these holes, and `HolesAreTrue` holds but for them.
- A staged response's own holes are certified when it comes
  (`history/worker.py:308`) and forgotten when the certificates are replaced
  (`:317`): the refresh after the publication asks for them again, and with
  more of them than the budget withdraws the marker for a while.  `GapsSettle`
  allows it.

## 10. Proofs

Every invariant and every action property of the runs is proved for all values
of the constants, from the assumptions the modules state on them (`ASSUME`); the
bounds on the environment (`MaxFaults`, `MaxSwitches`, ...) are any numbers.
Liveness is checked by TLC only: `RequestsAnswered`, `ReadsResume`,
`HealthFollows`, `ExitsAnswered`, `PublicationFollows`, `TicksCatchUp`,
`LoginIsNoticed`, the `~>` of `EndIsAnswered` and of `GapsSettle`.  It rests on
fairness and ENABLED, which the prover does not handle.

### The entry path

`ExecutionOrdersProofs` proves the types and the inductive invariant,
`ExecutionOrdersTheorems` what follows from it.

These theorems hold for every value of the constants, from
`ConstantsAssumption` alone: any number of requests, orders, grants and
accounts, and any bounds.  The bounds on the environment play no part.

| Theorem | States |
|---|---|
| `TypeCorrect` | `Spec => []TypeOK` |
| `SendsAtMostOnce` | `Spec => []AtMostOneSend` |
| `FailedIsFinalAtBroker` | `Spec => []FailedMeansNotAccepted` |
| `SucceededWasSent` | `Spec => []SucceededMeansSentHere` |
| `BoundOrderIsGrants` | `Spec => []BoundOrderIsOwn` |
| `SendsAreAuthorized` | `Spec => SendIsAuthorized` |
| `KillsAreFinal` | `Spec => KillIsFinal` |
| `RefinesEntryOnce` | `Spec => ImplementsEntryOnce` |
| `AnswersNeverContradict` | `Spec => []AnswersAgree` |
| `UnknownsAreKilled` | `Spec => [](faults = 0 => UnknownEntryIsKilled)` |

The type is not inductive: `Settle` and `Resolve` write `note[t]` into a row,
so its proof adds `NoteFits` (what a thread remembers when it is about to
finish a row is a row state).

The safety theorems follow from one inductive invariant, `IInv`
(`InvariantHolds == Spec => []IInv`).  None of the properties is inductive by
itself: that an order is not sent twice depends on who may send, that a failed
row is truthful on what the thread that writes it knows.  `IInv` says

- for each thread (`ThreadOK`): what it was asked; that a sender holds the
  claim of a grant verified against the session it captured; that its row is
  its own, and pending with nothing sent before `order_send`; that it holds
  the client lock exactly between `EnterSend` and the return of `order_send`,
  and that the guard does not move under it; what it knows of the broker;
- for each row (`ClientOK`) and grant (`GrantOK`): agreement with the broker;
- that a client order has one sender (`OneSender`): `Reserve` makes a thread
  the sender only where there was no row, and every sender has a row.

The proof has one lemma per group of actions.  `Kept` is the non-interference
argument: a step that leaves a thread's own variables alone, keeps verified
grants, rows, sends and the lock, and does not touch an unsent order of a
sender, keeps that thread's part of the invariant.  `WalkStep`, `FinishStep`
and `GrantStep` then reduce the steps that write no store, finish a row or
write a grant to what they do to their own thread.  Under
"What no step does" four lemmas say where sends, rows, kills and owners come
from; the action properties and the refinement are read off them.

`AnswersAgree` and `UnknownEntryIsKilled` each need a little more, proved beside
`IInv`.  For the answers (`AnswersTrue`): "accepted" was answered where the order
was sent, "rejected" where the broker rejected it or where it never was sent and
nobody is left who could.  For the unknown outcomes (`UnknownsClosed`): a thread
about to write one in `Settle` has killed the grant, and one in `KillLast` is
about to.  The second is stated for stores that have not raised,
because a kill that raises is lost.

### The account session

`AccountSessionProofs`, from `SessionAssumption` alone.

| Theorem | States |
|---|---|
| `SessionTypeCorrect` | `Spec => []TypeOK` |
| `GenerationsNameAccounts` | `Spec => []GenerationNamesAccount` |
| `AcceptedReadsAreTrue` | `MaxMoves <= 1` implies `Spec => []ReadsAreTrue` |

`ReadsAreTrue` compares what a thread remembers; that it is true depends on
the terminal, which the code sees only at its observations.  The inductive
invariant adds where the terminal can be in between: under `MaxMoves <= 1` it
is where the guard saw it exactly if nobody has logged in since (`Near`).  A
resolver is of the account the guard saw, if the terminal has not moved
(`ResolverInv`): `InitResolver` may build one from another account's catalog,
but then the next observation finds an account that is not the active one and
drops it.  The lock keeps the guard still under a callback (`LockOK`), so an
observation that ends in the same generation finds the terminal where the
callback read, and `TrueOK` says that what the callback used was of that
account.  For the generation, `GuardStep` is enough: no step takes it back or
gives it to another account, and that needs no bound on the logins.

### The exits

`ScopedExitsProofs`, from `ExitsAssumption`.

| Theorem | States |
|---|---|
| `ExitsTyped` | `Spec => []TypeOK` |
| `ExitsSentOnce` | `Spec => []ExitSentOnce` |
| `SuccessIsReal` | `Spec => []SucceededExitIsReal` |
| `FailuresEscalate` | `Spec => []FailureEscalates` |
| `ExitsAuthorized` | `Spec => ExitIsAuthorized` |
| `KillsKeepExits` | `Spec => KillKeepsExits` |

A thread past `Reserve` owns its exit until it has settled the row.  `IInv` says
that there is one owner (`OneOwner`: `Reserve` makes one only where no row was),
what an owner has checked and has done (`ThreadOK`), and what a row says of the
broker and of the abort outbox (`RowOK`).  Boot, session and ticket stay checked
because only a restart takes them back and it ends all owners.  That a succeeded
exit went to its own account needs the client lock: while it is held the
session cannot move, and the terminal, which may leave the account, cannot come
back unobserved.

### Published history

`HistoryPublicationProofs`, from `HistoryAssumption`.

| Theorem | States |
|---|---|
| `HistoryTyped` | `Spec => []TypeOK` |
| `ReadersGetOneSource` | `Spec => []ServedFromOneSource` |
| `MarkerIsTrue` | `Spec => []MarkerNamesCsv` |
| `MergesIntoTheFile` | `Spec => []NoLostUpdate` |

A worker past its start holds the writer lock, so the file it read is the file
it merges into.  Only the holder sets a marker or replaces the file; a late call
or a refresh that cannot connect can only remove the marker.  From the moment
the holder's page call has begun, the marker is absent or names the source of
what it read (`WorkerOK`), which is why a reader that takes marker and file in
two steps is served from one source although two files are replaced in turn.

### Ticks

`TickIpcProofs`, from `TickAssumption`.

| Theorem | States |
|---|---|
| `TicksTyped` | `Spec => []TypeOK` |
| `NoneMissed` | `Spec => []NothingMissed` |
| `NeverBack` | `Spec => TicksForward` |

The events on the socket and in the queue of the consumer's connection are one
line.  Along it the ticks of a symbol do not get older, none is older than what
the gateway has and none newer than what the worker has read (`Ordered`); while
the connection is open, the last event of a symbol is its newest published tick
(`Current`).  Writing moves along the line, receiving takes its first event,
publishing and registering append, closing cuts its end off.  Neither property
is inductive: `NothingMissed` looks at the end of the line and `TicksForward` at
its beginning.

### The start of the terminal

`TerminalLifecycleProofs`, from `LifecycleAssumption`: any number of processes
and Journal lines.

| Theorem | States |
|---|---|
| `LifecycleTyped` | `LifecycleSpec => []LifecycleTypeOK` |
| `LaunchesAreAlone` | `LifecycleSpec => LaunchIsAlone` |
| `OnlyEarnedIsReady` | `LifecycleSpec => []ReadyIsEarned` |

The invariant is `LifecycleInv`: as long as no terminal was launched beside an
invisible replacement, `Processes`, `JournalInv` and `ScriptInv` hold; once one
was, what is left (`SecondLaunch`) is that the single cycle of update is spent,
so that the script does not launch again.

`Processes` is about the processes: one terminal at a time, visible or not, and
what a scan that found none means for the rest of the turn (`LeftOver`: nothing
is there but a replacement).  `JournalInv` says whose lines follow
whose: a terminal's own startup comes before its other lines, and after a
startup of another process there is an announcement or a silent updater.
`ScriptInv` says what the script may conclude at each place: the Journal names
no process, so a startup and a login it reads are those of the process it has
pinned only because a foreign startup would be followed by something that the
same or the next reading sees (`MixedIsNoticed`, `Verified`, `SnapshotVerified`).

### Archive, supervisor, ETL, gaps

`JobsProofs`, from the assumptions of the four modules.

| Theorem | States |
|---|---|
| `CoverageStaysTrue` | `ArchiveSpec => [](ArchiveTypeOK /\ CoverageIsTrue)` |
| `NoneIsLeftUnkilled` | `SupervisorSpec`: at the return every child has ended, was never started or was sent SIGKILL; a signal is reported only if there was one |
| `WholeRuns` | `EtlSpec => []EtlTypeOK /\ TablesHoldWholeRuns` |
| `HolesStayTrue` | `Spec => []HolesAreTrue` |
| `PartsTyped` | `Spec => []TypeOK` (of `MCJobs`) |

Archive: an upsert changes no bar of a range it does not overlap and takes the
coverage of the others, and a row is written in the transaction that compares
the bars.  Supervisor: after its SIGTERM nothing is started, so what runs is
among those told, and those are sent SIGKILL or have ended.  ETL: a run that is
still calm has changed the tables, step by step, to what `WholeRun` says of the
steps it has taken (`Taken`).

`HolesAreTrue` is the second half of `GapsSettle`.  Its invariant, `GapsInv`,
follows a hole through a refresh: each hole before `round.at` is one the broker
has too, or its whole response is among the rows found (`Answered`); a row that
was found and is not in the frame lies in a hole whose response is; a
certificate is of a true hole, or of one that the file, or the one to be
written, has filled (`CertsInv`).  When the refresh ends, a hole of the merged
series lies in one of the frame (`Around`), and either is that hole or has a
side that was found in it.  The proof showed that the exception had been stated
too narrowly (section 8).

Induction over data is out of the prover's reach; the two facts of that kind
these proofs need (a set of numbers has a least, a bounded one a greatest
element: `Least`, `MaxIsGreatest`) come from the library's theorem on minimal
elements of well-founded relations.

## 11. Not modelled

- Of the account session: `shutdown`, `reconcile_session` and
  `refresh_resolver` (no caller in the services), the gateway's account
  queries (their `_ensure_resolver` runs inside a callback like
  `ResolveSymbol`), and the name matching of `SymbolResolver`.
- `ExecutionOrders`, `ScopedExits` and `HistoryPublication` take a guarded call
  as one or two steps; that `AccountSession` implements that view is planned
  and not shown yet.
- Of the history service: the validation of bars and the status file.
- Of the container: the shutdown of the desktop, the bootstrap decision, the
  generation of the terminal's config and the health check.
- The connection manager (I/O below the client), the configuration (parsing at
  start), the mapping of deals, orders and positions in the adapter, the trade
  query and the ETL (data), metrics, log rotation and the read-only routes.
- The web application: it reads the trade database and changes nothing.

The components of `PROJECT.json` repeat this per file.
