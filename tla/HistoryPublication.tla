------------------------- MODULE HistoryPublication -------------------------
(***************************************************************************)
(* One published series of the history service (symbol and timeframe): the *)
(* CSV file and its ready marker, the writers that refresh them            *)
(* (HistoryService.fetch_incremental of history/worker.py, the loop of a   *)
(* process, with one executor thread for the calls to MT5) and a reader    *)
(* (HistoryRepository.read and HistoryQueryService._validate).             *)
(*                                                                         *)
(* A file content is known by the broker name in its source_symbol column, *)
(* the accounts its bars were read from and the account whose range        *)
(* responses explain its gaps.  MT5Client.call observes the account before *)
(* and after its callback (AccountSession): what a callback read is        *)
(* accepted only if both observations are the session's account, and is    *)
(* taken for that account's here.  A terminal that is switched away and    *)
(* back inside one callback, which neither observation sees, is outside.   *)
(***************************************************************************)
EXTENDS Integers

CONSTANTS
  Workers,     \* processes that run the history service on one directory
  Accounts,    \* accounts the terminal can be logged in to
  NameOf,      \* the broker name of the symbol in each account's catalog
  Shallow,     \* accounts whose history is shorter than minimum_bars
  None,        \* no file, no marker, nobody
  MaxSwitches, \* bound: logins to another account, and logouts
  MaxFaults    \* bound: calls that fail or time out, lost connections,
               \*   and crashes

ASSUME HistoryAssumption ==
  /\ Shallow \subseteq Accounts
  /\ None \notin Accounts \cup Workers
  /\ \A a \in Accounts : NameOf[a] # None
  /\ {MaxSwitches, MaxFaults} \subseteq Nat

VARIABLES
  csv,       \* the CSV file
  marker,    \* the ready marker: the broker name in it
  lock,      \* holder of the writer lock (flock)
  pc,        \* where the loop of each worker is
  guard,     \* the session of each worker's client: account and generation
  client,    \* its connection and its symbol resolver
  call,      \* the executor's call in flight
  work,      \* what the loop remembers of this refresh
  cert,      \* _verified_gaps: session and account of the last verification
  asked,     \* the reader: the marker it has read
  terminal,  \* the account that is logged in, None for one that cannot
             \*   be identified
  switches, faults

files == <<csv, marker, lock>>
loop  == <<pc, guard, client, call, work, cert>>
world == <<terminal, switches, faults>>
vars  == <<files, loop, asked, world>>

-----------------------------------------------------------------------------
(* Types *)

Names    == {NameOf[a] : a \in Accounts}
Contents == [src : Names, from : SUBSET Accounts, checked : Accounts]
Sessions == [acct : Accounts \cup {None}, gen : Nat]

(* link: MT5Client._mt5, open while its transport lives, lost when it is   *)
(* gone and nobody has closed it.  Of an open one, ready: the last         *)
(* observation found the session's account; names: the resolver has the    *)
(* broker name.                                                            *)
Clients == [link : {"closed", "open", "lost"}, ready : BOOLEAN, names : BOOLEAN]

(* kind: page read or gap verification; begun: the account was observed    *)
(* and the callback runs; cached: the source the callback compares with    *)
Calls == [kind : {"page", "gap"}, begun : BOOLEAN, cached : Names \cup {None}]

ASSUME NoneAssumption == None \notin Contents \cup Calls

Labels == {"idle", "wait", "merge", "write", "mark", "fail"}

TypeOK ==
  /\ csv \in Contents \cup {None}
  /\ marker \in Names \cup {None}
  /\ lock \in Workers \cup {None}
  /\ pc \in [Workers -> Labels]
  /\ guard \in [Workers -> Sessions]
  /\ client \in [Workers -> Clients]
  /\ call \in [Workers -> Calls \cup {None}]
  /\ work \in [Workers -> [old : Contents \cup {None}, id : Sessions,
                           checked : Accounts \cup {None}]]
  /\ cert \in [Workers -> Sessions]
  /\ asked \in Names \cup {None}
  /\ terminal \in Accounts \cup {None} /\ switches \in Nat /\ faults \in Nat

-----------------------------------------------------------------------------
Goto(w, l) == pc' = [pc EXCEPT ![w] = l]

Fault == faults < MaxFaults /\ faults' = faults + 1

NoSession == [acct |-> None, gen |-> 0]
NoClient  == [link |-> "closed", ready |-> FALSE, names |-> FALSE]
NoWork    == [old |-> None, id |-> NoSession, checked |-> None]

(* account_info finds the session's account, over the open connection or a *)
(* new one, for which init_resolver has built a resolver.  A session that  *)
(* was not ready gets a new generation.                                    *)
Confirmed(w) ==
  /\ client[w].link # "lost" /\ terminal # None
  /\ guard[w].acct \in {None, terminal}
  /\ guard' = IF client[w].ready /\ guard[w].acct = terminal THEN guard
              ELSE [guard EXCEPT ![w] = [acct |-> terminal, gen |-> @.gen + 1]]
  /\ client' = [client EXCEPT ![w] =
       [link |-> "open", ready |-> TRUE,
        names |-> client[w].link = "closed" \/ client[w].names]]
  /\ UNCHANGED faults

(* An account that cannot be identified: the resolver is dropped, a new    *)
(* connection is closed again.                                             *)
Unidentified(w) ==
  /\ client[w].link # "lost" /\ terminal = None
  /\ client' = [client EXCEPT ![w].ready = FALSE, ![w].names = FALSE]
  /\ UNCHANGED <<guard, faults>>

(* Another account: the resolver is built anew and the account is the      *)
(* session's from now on, or the catalog cannot be read.                   *)
Reconciled(w) ==
  /\ client[w].link # "lost" /\ terminal # None
  /\ guard[w].acct \notin {None, terminal}
  /\ \/ /\ guard' = [guard EXCEPT ![w] = [acct |-> terminal, gen |-> @.gen + 1]]
        /\ client' = [client EXCEPT ![w] =
             [link |-> "open", ready |-> TRUE, names |-> TRUE]]
        /\ UNCHANGED faults
     \/ /\ Fault
        /\ client' = [client EXCEPT ![w] =
             [link |-> "open", ready |-> FALSE, names |-> FALSE]]
        /\ UNCHANGED guard

(* account_info raises, or no connection can be opened: a connection there *)
(* is is kept, a lost one too.                                             *)
Unobserved(w) ==
  /\ (client[w].link = "lost" /\ UNCHANGED faults) \/ Fault
  /\ client' = [client EXCEPT ![w].ready = FALSE]
  /\ UNCHANGED guard

(* The call, or the refresh, is refused. *)
Refused(w) == Unidentified(w) \/ Reconciled(w) \/ Unobserved(w)

Init ==
  /\ csv = None /\ marker = None /\ lock = None
  /\ pc = [w \in Workers |-> "idle"]
  /\ guard = [w \in Workers |-> NoSession]
  /\ client = [w \in Workers |-> NoClient]
  /\ call = [w \in Workers |-> None]
  /\ work = [w \in Workers |-> NoWork]
  /\ cert = [w \in Workers |-> NoSession]
  /\ asked = None
  /\ terminal \in Accounts \cup {None}
  /\ switches = 0 /\ faults = 0

-----------------------------------------------------------------------------
(* fetch_incremental *)

(* A call is submitted to the executor and waited for. *)
Submit(w, kind, cached) ==
  /\ call' = [call EXCEPT ![w] = [kind |-> kind, begun |-> FALSE, cached |-> cached]]
  /\ Goto(w, "wait")

BugLockNotTaken(w) ==
  /\ pc[w] = "idle" /\ call[w] = None
  /\ Confirmed(w)
  /\ lock' = w
  /\ work' = [work EXCEPT ![w].old = csv]
  /\ Submit(w, "page", IF csv = None THEN None ELSE csv.src)
  /\ UNCHANGED <<csv, marker, cert, asked, terminal, switches>>

(* A refresh starts when no earlier call still runs.  With a connection    *)
(* and the broker's name, a worker that gets the lock (flock without       *)
(* waiting) reads the file and asks for the first page; one that does not  *)
(* touches nothing.  Without them the marker is removed, and no lock is    *)
(* taken for that; an init_resolver that raises leaves everything as it is *)
(* and the connection closed.                                              *)
StartRefresh(w) ==
  /\ pc[w] = "idle" /\ call[w] = None
  /\ \/ /\ Confirmed(w) /\ client'[w].names /\ lock = None
        /\ lock' = w
        /\ work' = [work EXCEPT ![w].old = csv]
        /\ Submit(w, "page", IF csv = None THEN None ELSE csv.src)
        /\ UNCHANGED marker
     \/ /\ Confirmed(w) /\ client'[w].names /\ lock # None
        /\ UNCHANGED <<marker, lock, pc, work, call>>
     \/ /\ (Confirmed(w) /\ ~client'[w].names) \/ Refused(w)
        /\ marker' = None
        /\ UNCHANGED <<lock, pc, work, call>>
     \/ /\ client[w].link = "closed" /\ Fault
        /\ UNCHANGED <<marker, lock, pc, guard, client, work, call>>
  /\ UNCHANGED <<csv, cert, asked, terminal, switches>>

(* The call is over; the loop hears of a failure if it still waits. *)
CallFailed(w) ==
  /\ call' = [call EXCEPT ![w] = None]
  /\ IF pc[w] = "wait" THEN Goto(w, "fail") ELSE UNCHANGED pc

BugMarkerKeptForNewSource(w) ==
  /\ call[w] # None /\ ~call[w].begun
  /\ Confirmed(w)
  /\ call' = [call EXCEPT ![w].begun = TRUE]
  /\ UNCHANGED <<marker, pc, csv, lock, work, cert, asked, terminal, switches>>

(* The executor: the account is observed, and read_page revokes the marker *)
(* of a file with another source before it reads, waited for or not.       *)
CallBegins(w) ==
  /\ call[w] # None /\ ~call[w].begun
  /\ \/ /\ Confirmed(w)
        /\ call' = [call EXCEPT ![w].begun = TRUE]
        /\ marker' = IF call[w].kind = "page" /\ call[w].cached # NameOf[terminal]
                       THEN None ELSE marker
        /\ UNCHANGED pc
     \/ Refused(w) /\ CallFailed(w) /\ UNCHANGED marker
  /\ UNCHANGED <<csv, lock, work, cert, asked, terminal, switches>>

(* The callback is done and the account is observed again.  A result is    *)
(* used only by a loop that waits: that of a call that timed out is        *)
(* dropped.                                                                *)
CallEnds(w) ==
  /\ call[w] # None /\ call[w].begun
  /\ \/ Refused(w) /\ CallFailed(w) /\ UNCHANGED <<work, cert>>
     \/ /\ Confirmed(w) /\ guard' = guard
        /\ call' = [call EXCEPT ![w] = None]
        /\ \/ pc[w] # "wait" /\ UNCHANGED <<pc, work, cert>>
           \/ /\ pc[w] = "wait" /\ call[w].kind = "page"
              /\ work' = [work EXCEPT ![w].id = guard[w]]
              /\ Goto(w, "merge") /\ UNCHANGED cert
           \/ /\ pc[w] = "wait" /\ call[w].kind = "gap"
              /\ work' = [work EXCEPT ![w].checked = terminal]
              /\ cert' = [cert EXCEPT ![w] = guard[w]]
              /\ Goto(w, "write")
  /\ UNCHANGED <<files, asked, terminal, switches>>

(* The callback raises: the connection is closed, a lost one too.          *)
CallRaises(w) ==
  /\ call[w] # None /\ call[w].begun
  /\ (client[w].link = "lost" /\ UNCHANGED faults) \/ Fault
  /\ client' = [client EXCEPT ![w] = NoClient]
  /\ CallFailed(w)
  /\ UNCHANGED <<files, guard, work, cert, asked, terminal, switches>>

(* future.result gives up; the call goes on. *)
TimeOut(w) ==
  /\ pc[w] = "wait" /\ call[w] # None
  /\ Fault
  /\ Goto(w, "fail")
  /\ UNCHANGED <<files, guard, client, call, work, cert, asked, terminal, switches>>

BugGapsNotChecked(w) ==
  /\ pc[w] = "merge"
  /\ Goto(w, "write")
  /\ UNCHANGED <<files, guard, client, call, work, cert, asked, world>>

(* _merge_bars, and _verify_gaps unless there is no gap, or this session's *)
(* verification of it is remembered (it is for an hour at most).           *)
Merge(w) ==
  /\ pc[w] = "merge"
  /\ \/ /\ work' = [work EXCEPT ![w].checked = work[w].id.acct]
        /\ Goto(w, "write") /\ UNCHANGED call
     \/ /\ cert[w] = work[w].id
        /\ work' = [work EXCEPT ![w].checked = cert[w].acct]
        /\ Goto(w, "write") /\ UNCHANGED call
     \/ Submit(w, "gap", None) /\ UNCHANGED work
  /\ UNCHANGED <<files, guard, client, cert, asked, world>>

BugOldBarsKept(w) ==
  LET id == work[w].id IN
  [src |-> NameOf[id.acct],
   from |-> {id.acct} \cup IF work[w].old = None THEN {} ELSE work[w].old.from,
   checked |-> work[w].checked]

(* The cached bars are merged if their source has the name of the new ones. *)
Merged(w) ==
  LET id  == work[w].id
      old == work[w].old IN
  [src |-> NameOf[id.acct],
   from |-> {id.acct} \cup IF old # None /\ old.src = NameOf[id.acct]
                             THEN old.from ELSE {},
   checked |-> work[w].checked]

(* _atomic_write_csv.  Nothing but the loop's own calls moves its session, *)
(* so the generation compared here, and before the marker, is the same.    *)
WriteCsv(w) ==
  /\ pc[w] = "write"
  /\ IF guard[w] = work[w].id
       THEN csv' = Merged(w) /\ Goto(w, "mark")
       ELSE Goto(w, "fail") /\ UNCHANGED csv
  /\ UNCHANGED <<marker, lock, guard, client, call, work, cert, asked, world>>

Finish(w) ==
  /\ lock' = None
  /\ work' = [work EXCEPT ![w] = NoWork]
  /\ Goto(w, "idle")

BugPublishedAlthoughShallow(w) ==
  /\ pc[w] = "mark"
  /\ marker' = NameOf[work[w].id.acct]
  /\ Finish(w)
  /\ UNCHANGED <<csv, guard, client, call, cert, asked, world>>

(* _publish_cache for a sufficient series, _invalidate_cache otherwise *)
Mark(w) ==
  /\ pc[w] = "mark"
  /\ marker' = IF work[w].id.acct \in Shallow THEN None ELSE NameOf[work[w].id.acct]
  /\ Finish(w)
  /\ UNCHANGED <<csv, guard, client, call, cert, asked, world>>

(* except Exception: the marker is removed, under the lock. *)
Fail(w) ==
  /\ pc[w] = "fail"
  /\ marker' = None
  /\ Finish(w)
  /\ UNCHANGED <<csv, guard, client, call, cert, asked, world>>

(* The process dies and is started again. *)
Crash(w) ==
  /\ Fault
  /\ Goto(w, "idle")
  /\ lock' = IF lock = w THEN None ELSE lock
  /\ call' = [call EXCEPT ![w] = None]
  /\ work' = [work EXCEPT ![w] = NoWork]
  /\ guard' = [guard EXCEPT ![w] = NoSession]
  /\ client' = [client EXCEPT ![w] = NoClient]
  /\ cert' = [cert EXCEPT ![w] = NoSession]
  /\ UNCHANGED <<csv, marker, asked, terminal, switches>>

-----------------------------------------------------------------------------
(* HistoryRepository.read: the marker, then the file *)

ReadMarker ==
  /\ asked = None
  /\ marker # None
  /\ asked' = marker
  /\ UNCHANGED <<files, loop, world>>

(* What a reader that has read the marker is given if it reads the file    *)
(* now: _validate wants the source the marker named in every row.          *)
Served == IF asked # None /\ csv # None /\ csv.src = asked THEN csv ELSE None

ReadCsv ==
  /\ asked # None
  /\ asked' = None
  /\ UNCHANGED <<files, loop, world>>

(* The terminal is logged in to another account, or out. *)
SwitchAccount(a) ==
  /\ a # terminal /\ switches < MaxSwitches
  /\ terminal' = a /\ switches' = switches + 1
  /\ UNCHANGED <<files, loop, asked, faults>>

(* The RPyC transport of a worker is lost. *)
LoseConnection(w) ==
  /\ client[w].link = "open"
  /\ Fault
  /\ client' = [client EXCEPT ![w] =
       [link |-> "lost", ready |-> FALSE, names |-> FALSE]]
  /\ UNCHANGED <<files, pc, guard, call, work, cert, asked, terminal, switches>>

-----------------------------------------------------------------------------
Refresh(w) ==
  \/ StartRefresh(w) \/ TimeOut(w)
  \/ Merge(w) \/ WriteCsv(w) \/ Mark(w) \/ Fail(w)

Execute(w) == CallBegins(w) \/ CallEnds(w) \/ CallRaises(w)

Next ==
  \/ \E w \in Workers : Refresh(w) \/ Execute(w) \/ Crash(w) \/ LoseConnection(w)
  \/ ReadMarker \/ ReadCsv
  \/ \E a \in Accounts \cup {None} : SwitchAccount(a)

Spec == Init /\ [][Next]_vars

(* The loop and the executor of a worker run, and calls return: nothing is *)
(* promised of logins, and faults are bounded.                             *)
FairSpec == Spec /\ \A w \in Workers : WF_vars(Refresh(w)) /\ WF_vars(Execute(w))

-----------------------------------------------------------------------------
(* Properties *)

(* What a reader is given carries one broker name, only bars that were     *)
(* read by it, and no gap that another account's history explained,        *)
(* although the marker and the file are two reads and the account may      *)
(* change between any two steps.                                           *)
ServedFromOneSource ==
  Served # None =>
    /\ \A a \in Served.from : NameOf[a] = Served.src
    /\ Served.checked \in Served.from

(* A marker never stands beside a file of another source, nor alone:       *)
(* neither a crash between the two replacements nor a late call makes it.  *)
MarkerNamesCsv == marker # None => csv # None /\ csv.src = marker

(* A worker merges into the file as it is: from its read of the cached     *)
(* bars to its replacement of them, waits for MT5 included, no other       *)
(* worker replaced the file.                                               *)
NoLostUpdate ==
  \A w \in Workers :
    lock = w /\ pc[w] \in {"wait", "merge", "write"} => work[w].old = csv

(* No refresh of w asks for bars again: its connection is lost and kept,   *)
(* or its resolver was dropped with an account that could not be           *)
(* identified and is not built again over the same connection.             *)
Stranded(w) ==
  \/ client[w].link = "lost"
  \/ client[w].link = "open" /\ ~client[w].names

(* Once the terminal stays on an account, the series is published again    *)
(* and again by its name if its history suffices, and withdrawn for good   *)
(* if it does not.  It is withdrawn for good too, never left standing,     *)
(* when every worker is stranded, and nothing else keeps it away.          *)
PublicationFollows ==
  \A a \in Accounts :
    /\ a \notin Shallow =>
         (<>[](terminal = a) =>
            \/ []<>(marker = NameOf[a])
            \/ <>[](marker = None /\ \A w \in Workers : Stranded(w)))
    /\ a \in Shallow => (<>[](terminal = a) => <>[](marker = None))

(* test_history_service.py: an "account generation change never publishes  *)
(* mixed history"; the bars of a file are those of one account.            *)
NeverMixed == Served # None => \E a \in Accounts : Served.from = {a}
=============================================================================
