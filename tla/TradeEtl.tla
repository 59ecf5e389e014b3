------------------------------ MODULE TradeEtl ------------------------------
(***************************************************************************)
(* The trade ETL (main of etl/trade_etl.py): a script that reads the       *)
(* account, its deals and its orders from the gateway, one request each,   *)
(* and a history file, and writes them to PostgreSQL in one transaction.   *)
(* Every step catches its own exceptions and lets the next go on.          *)
(*                                                                         *)
(* The gateway answers a request for one account, the one that is logged   *)
(* in (AccountService, MT5Client.call), or with an error; which account    *)
(* may change between two requests.  Deals and orders are identified by    *)
(* numbers that accounts of different servers may share.                   *)
(***************************************************************************)
EXTENDS Integers

CONSTANTS
  Logins,     \* accounts, as their login numbers
  DealsOf,    \* the deals of each account
  OrdersOf,   \* and its history orders
  NoLogin,    \* login 0: no account data was returned
  MaxRuns,    \* bound: runs of the script
  MaxUpsets   \* bound: failed requests and statements, kills, account changes

ASSUME EtlAssumption ==
  NoLogin \notin Logins /\ {MaxRuns, MaxUpsets} \subseteq Nat

VARIABLES
  active,   \* the account the gateway answers for
  csvBar,   \* the version of a bar in the history file, 0 for no bar
  at,       \* the next step of the script
  info,     \* account_info
  stored,   \* the committed tables
  written,  \* the tables as the transaction sees them
  aborted,  \* a statement of the transaction has failed
  calm,     \* nothing failed and the account stayed, since the run began
  runs, upsets

etlVars == <<active, csvBar, at, info, stored, written, aborted, calm, runs, upsets>>

Ids(of) == UNION {of[a] : a \in Logins}
Absent == [login |-> NoLogin, of |-> NoLogin]
Rows == [login : Logins \cup {NoLogin}, of : Logins] \cup {Absent}
Tables == [snapshots : SUBSET Logins, deals : [Ids(DealsOf) -> Rows],
           orders : [Ids(OrdersOf) -> Rows], ohlc : 0..2]

EtlTypeOK ==
  /\ active \in Logins /\ csvBar \in 0..2
  /\ at \in {"ended", "account", "deals", "orders", "ohlc", "commit"}
  /\ info \in Logins \cup {NoLogin}
  /\ stored \in Tables /\ written \in Tables
  /\ aborted \in BOOLEAN /\ calm \in BOOLEAN
  /\ runs \in 0..MaxRuns /\ upsets \in 0..MaxUpsets
  /\ calm => ~aborted /\ (at \in {"deals", "orders", "ohlc", "commit"} => info = active)

EtlInit ==
  /\ active \in Logins /\ csvBar = 1
  /\ at = "ended" /\ info = NoLogin
  /\ stored = [snapshots |-> {}, deals |-> [d \in Ids(DealsOf) |-> Absent],
               orders |-> [o \in Ids(OrdersOf) |-> Absent], ohlc |-> 0]
  /\ written = stored
  /\ aborted = FALSE /\ calm = FALSE
  /\ runs = 0 /\ upsets = 0

Upset == upsets < MaxUpsets /\ upsets' = upsets + 1 /\ calm' = FALSE

-----------------------------------------------------------------------------
(* psycopg2.connect: a transaction, on the tables as they are *)
Run ==
  /\ at = "ended" /\ runs < MaxRuns
  /\ at' = "account" /\ info' = NoLogin
  /\ written' = stored /\ aborted' = FALSE /\ calm' = TRUE
  /\ runs' = runs + 1
  /\ UNCHANGED <<active, csvBar, stored, upsets>>

(* A statement changes the tables of the transaction.  It may fail, and    *)
(* then so does every later one: the exceptions are caught, and no step    *)
(* rolls back.                                                             *)
Statement(tables) ==
  /\ UNCHANGED stored
  /\ \/ ~aborted /\ written' = tables /\ UNCHANGED <<aborted, calm, upsets>>
     \/ ~aborted /\ Upset /\ aborted' = TRUE /\ UNCHANGED written
     \/ aborted /\ UNCHANGED <<written, aborted, calm, upsets>>

(* fetch_api gives nothing after its retry, or what it gives is refused    *)
(* (decode_deal_payloads, float(None)): the step writes nothing.           *)
NoData == Upset /\ UNCHANGED <<written, stored, aborted>>

Step(step, next) == at = step /\ at' = next

(* record_snapshot: every run that reads the account adds one. *)
AccountStep ==
  /\ Step("account", "deals")
  /\ \/ info' = active /\ Statement([written EXCEPT !.snapshots = @ \cup {active}])
     \/ info' \in {active, NoLogin} /\ NoData
  /\ UNCHANGED <<active, csvBar, runs>>

BugConflictDoesNothing(table, ids) ==
  [i \in DOMAIN table |->
    IF i \notin ids \/ table[i] # Absent THEN table[i] ELSE [login |-> info, of |-> active]]

(* INSERT ... ON CONFLICT DO UPDATE: a row that is there keeps its login. *)
Upserted(table, ids) ==
  [i \in DOMAIN table |->
    IF i \notin ids THEN table[i]
    ELSE [login |-> IF table[i] = Absent THEN info ELSE table[i].login, of |-> active]]

(* upsert_deals; the login is that of the first request. *)
DealsStep ==
  /\ Step("deals", "orders")
  /\ Statement([written EXCEPT !.deals = Upserted(@, DealsOf[active])]) \/ NoData
  /\ UNCHANGED <<active, csvBar, info, runs>>

OrdersStep ==
  /\ Step("orders", "ohlc")
  /\ Statement([written EXCEPT !.orders = Upserted(@, OrdersOf[active])]) \/ NoData
  /\ UNCHANGED <<active, csvBar, info, runs>>

(* import_csv_to_ohlc: ON CONFLICT DO NOTHING.  A missing file is skipped. *)
(* A row that cannot be parsed ends it, after the batches of 500 before    *)
(* were inserted: they stay in the transaction.                            *)
OhlcStep ==
  LET imported == [written EXCEPT !.ohlc = IF @ = 0 THEN csvBar ELSE @] IN
  /\ Step("ohlc", "commit")
  /\ \/ Statement(imported) \/ NoData
     \/ ~aborted /\ Upset /\ written' = imported /\ UNCHANGED <<stored, aborted>>
  /\ UNCHANGED <<active, csvBar, info, runs>>

(* COMMIT of a transaction in which a statement failed rolls it back. *)
Commit ==
  /\ Step("commit", "ended")
  /\ stored' = IF aborted THEN stored ELSE written
  /\ UNCHANGED <<active, csvBar, info, written, aborted, calm, runs, upsets>>

(* The script is killed, or the connection is lost. *)
Killed ==
  /\ at # "ended" /\ at' = "ended"
  /\ Upset
  /\ UNCHANGED <<active, csvBar, info, stored, written, aborted, runs>>

SwitchLogin(a) ==
  /\ a # active /\ active' = a
  /\ Upset
  /\ UNCHANGED <<csvBar, at, info, stored, written, aborted, runs>>

(* The history worker replaces the file; the broker has revised the bar. *)
ReviseCsv ==
  /\ csvBar = 1 /\ csvBar' = 2
  /\ UNCHANGED <<active, at, info, stored, written, aborted, calm, runs, upsets>>

EtlNext ==
  \/ Run \/ AccountStep \/ DealsStep \/ OrdersStep \/ OhlcStep \/ Commit \/ Killed
  \/ ReviseCsv \/ \E a \in Logins : SwitchLogin(a)

EtlSpec == EtlInit /\ [][EtlNext]_etlVars

-----------------------------------------------------------------------------
(* Properties *)

(* What a whole run makes of the tables: the active account has a snapshot *)
(* and each of its deals and orders a row with its data, under its login   *)
(* if the row is new, under the login it was first written with if not;    *)
(* every other row is as it was.  The bar is there, but as it was first    *)
(* imported, whatever the history file says by now.                        *)
WholeRun(before, after) ==
  LET row(r) == [login |-> IF r = Absent THEN active ELSE r.login, of |-> active]
      rows(table, ids) == [i \in DOMAIN table |-> IF i \in ids THEN row(table[i]) ELSE table[i]]
  IN
  /\ after.snapshots = before.snapshots \cup {active}
  /\ after.deals = rows(before.deals, DealsOf[active])
  /\ after.orders = rows(before.orders, OrdersOf[active])
  /\ after.ohlc = before.ohlc \/ (before.ohlc = 0 /\ after.ohlc # 0)
  /\ after.ohlc # 0

(* A run in which nothing failed and the account stayed stores all of it,  *)
(* although the account, the deals and the orders come from three requests *)
(* and the bars from a file that is replaced meanwhile, and whatever       *)
(* earlier runs left, with other accounts or half their requests.  That    *)
(* the bars are only added is not what the docstring of import_csv_to_ohlc *)
(* says ("upsert rows", trade_etl.py:176).                                 *)
TablesHoldWholeRuns ==
  [][at = "commit" /\ at' = "ended" /\ calm' => WholeRun(stored, stored')]_etlVars
=============================================================================
