-------------------------- MODULE TerminalLifecycle --------------------------
(***************************************************************************)
(* How the container of the terminal comes up (mt5docker/start_server.sh   *)
(* and terminal_lifecycle.sh): the script launches MetaTrader, which may   *)
(* update and replace itself, waits for its startup and its login in the   *)
(* terminal's Journal, and only then opens the API.                        *)
(*                                                                         *)
(* The script sees two things, one after the other: the processes, in one  *)
(* scan of /proc, and what the Journal has gained since the last snapshot  *)
(* of its files.  The Journal does not say which process wrote a line; the *)
(* model remembers it in `by`, for the properties only.  The reads of the  *)
(* Journal in one turn of a loop are one step.                             *)
(***************************************************************************)
EXTENDS Integers, Sequences, FiniteSetsExt

CONSTANTS
  MaxPid,      \* bound: processes, by their pid 1..MaxPid
  MaxRecords   \* bound: lines of the Journal that matter

ASSUME LifecycleAssumption == {MaxPid, MaxRecords} \subseteq Nat

VARIABLES
  place,    \* where the script is
  memory,   \* its variables
  proc,     \* the processes
  journal,  \* what the Journal has gained since the snapshot
  replaced, \* an updater has replaced the executable, and started it
  doubled,  \* the script has launched a terminal beside that one
  records   \* lines written

lifecycleVars == <<place, memory, proc, journal, replaced, doubled, records>>

Pids == 1..MaxPid
What == {"startup", "authorized", "lost", "launch", "prompt"}

(* Not visible yet: "wine" is a terminal the script has launched, "native" *)
(* one that an updater has started, and "coming" an updater that was       *)
(* announced.  "quiet" is an updater the Journal was silent about.         *)
Normals  == {p \in Pids : proc[p] \in {"up", "started", "in"}}
Updaters == {p \in Pids : proc[p] \in {"update", "quiet"}}
Fresh(p) == proc[p] = "unused" /\ \A q \in 1..(p - 1) : proc[q] # "unused"
Off(p) == proc[p] \in {"unused", "gone"}
Seen     == [normal |-> Normals, update |-> Updaters]

LifecycleTypeOK ==
  /\ place \in {"launch", "ready_scan", "ready", "ready_confirm", "auth_scan", "auth",
                "auth_confirm", "update_scan", "update", "hold", "hold_again", "verified",
                "persist_scan", "persist", "snapshot", "serve", "closed"}
  /\ memory \in [stage : {"startup", "maintenance"}, cycles : 0..1, saw : BOOLEAN,
                 safe : BOOLEAN, pinned : SUBSET Pids,
                 scan : [normal : SUBSET Pids, update : SUBSET Pids]]
  /\ proc \in [Pids -> {"unused", "wine", "native", "up", "started", "in", "coming",
                        "update", "quiet", "gone"}]
  /\ journal \in Seq([what : What, by : Pids]) /\ Len(journal) <= records
  /\ {replaced, doubled} \subseteq BOOLEAN /\ records \in 0..MaxRecords

LifecycleInit ==
  /\ place = "launch"
  /\ memory = [stage |-> "startup", cycles |-> 0, saw |-> FALSE, safe |-> FALSE,
               pinned |-> {}, scan |-> [normal |-> {}, update |-> {}]]
  /\ proc = [p \in Pids |-> "unused"]
  /\ journal = <<>> /\ replaced = FALSE /\ doubled = FALSE /\ records = 0

-----------------------------------------------------------------------------
(* What the script makes of the Journal *)

LastOf(what) ==
  Max({0} \cup {i \in DOMAIN journal : journal[i].what \in what})

JournalStarted == LastOf({"startup"}) > 0
LaunchPending  == LastOf({"launch"}) > LastOf({"startup"})
UpdatePending  == Updaters # {} \/ LastOf({"launch", "prompt"}) > LastOf({"startup"})

JournalAuthorized ==
  /\ JournalStarted
  /\ LastOf({"authorized"}) > LastOf({"startup", "lost", "launch", "prompt"})

-----------------------------------------------------------------------------
(* The script.  A loop ends with its deadline, after one turn at least. *)

Script(from, to) == place = from /\ place' \in to
Unseen == UNCHANGED <<proc, journal, replaced, doubled, records>>
Conflict == Cardinality(memory.scan.normal) > 1 \/ Cardinality(memory.scan.update) > 1
OneNormal == Cardinality(Normals) = 1 /\ Updaters = {}

Scan(from, to) ==
  /\ Script(from, {to})
  /\ memory' = [memory EXCEPT !.scan = Seen]
  /\ Unseen

(* snapshot_terminal_logs, launch_terminal; the script only knows what its *)
(* last scan has shown.                                                    *)
Launch ==
  /\ Script("launch", {"ready_scan"})
  /\ \E p \in Pids : Fresh(p) /\ proc' = [proc EXCEPT ![p] = "wine"]
  /\ journal' = <<>>
  /\ doubled' = (\E p \in Pids : ~Off(p))
  /\ UNCHANGED <<memory, replaced, records>>

BugBaselineAssumedSafe(scan) ==
  \/ memory.cycles = 1 /\ place' = "closed" /\ UNCHANGED <<memory, journal>>
  \/ /\ memory.cycles = 0 /\ place' = "update_scan"
     /\ memory' = [memory EXCEPT !.cycles = 1, !.saw = scan.update # {},
                                 !.safe = TRUE, !.scan = scan]
     /\ journal' = <<>>

(* Status 10 of a wait: one cycle of update is allowed, from a snapshot of *)
(* its own.  Only if no normal terminal was there is it one between the    *)
(* old terminal and its replacement.                                       *)
UpdateFound(scan) ==
  \/ memory.cycles = 1 /\ place' = "closed" /\ UNCHANGED <<memory, journal>>
  \/ /\ memory.cycles = 0 /\ place' = "update_scan"
     /\ memory' = [memory EXCEPT !.cycles = 1, !.saw = scan.update # {},
                                 !.safe = scan.normal = {}, !.scan = scan]
     /\ journal' = <<>>

(* await_terminal_ready *)
Ready ==
  /\ place = "ready"
  /\ \/ Conflict /\ place' = "closed" /\ UNCHANGED <<memory, journal>>
     \/ /\ ~Conflict /\ (memory.scan.update # {} \/ LaunchPending)
        /\ UpdateFound(memory.scan)
     \/ /\ ~Conflict /\ memory.scan.update = {} /\ ~LaunchPending
        /\ IF memory.scan.normal # {} /\ JournalStarted
             THEN place' = "ready_confirm" ELSE place' \in {"ready_scan", "closed"}
        /\ UNCHANGED <<memory, journal>>
  /\ UNCHANGED <<proc, replaced, doubled, records>>

(* The terminal that started up is the one to be authorized. *)
ReadyConfirm ==
  /\ Script("ready_confirm",
            {IF OneNormal /\ Normals = memory.scan.normal THEN "auth_scan" ELSE "closed"})
  /\ memory' = [memory EXCEPT !.scan = Seen, !.pinned = Normals]
  /\ Unseen

Maintenance == memory.stage = "maintenance"

(* await_terminal_authorized, in startup and while an operator may log in. *)
(* An update is only followed in startup.                                  *)
Authorized ==
  /\ place = "auth"
  /\ \/ /\ ~Conflict /\ ~Maintenance /\ (memory.scan.update # {} \/ LaunchPending)
        /\ UpdateFound(memory.scan)
     \/ /\ \/ Conflict \/ memory.scan.normal # memory.pinned
           \/ Maintenance /\ (memory.scan.update # {} \/ UpdatePending)
        /\ Conflict \/ Maintenance \/ (memory.scan.update = {} /\ ~LaunchPending)
        /\ place' = "closed" /\ UNCHANGED <<memory, journal>>
     \/ /\ ~Conflict /\ memory.scan = [normal |-> memory.pinned, update |-> {}]
        /\ ~LaunchPending /\ (Maintenance => ~UpdatePending)
        /\ IF ~UpdatePending /\ JournalAuthorized THEN place' = "auth_confirm"
           ELSE place' \in {"auth_scan", IF Maintenance THEN "hold_again" ELSE "hold"}
        /\ UNCHANGED <<memory, journal>>
  /\ UNCHANGED <<proc, replaced, doubled, records>>

AuthorizedConfirm ==
  /\ place = "auth_confirm"
  /\ \/ /\ OneNormal \/ Updaters = {} \/ Maintenance
        /\ place' = IF OneNormal /\ Normals = memory.pinned THEN "verified" ELSE "closed"
        /\ memory' = [memory EXCEPT !.scan = Seen]
        /\ UNCHANGED journal
     \/ Updaters # {} /\ ~Maintenance /\ UpdateFound(Seen)
  /\ UNCHANGED <<proc, replaced, doubled, records>>

BugRelaunchOverNative ==
  LET n == memory.scan.normal
      u == memory.scan.update
      saw == memory.saw \/ u # {} IN
  /\ place = "update"
  /\ memory' = [memory EXCEPT !.saw = saw, !.safe = memory.safe \/ n = {}]
  /\ journal' = IF n = {} /\ ~memory.safe THEN <<>> ELSE journal
  /\ IF saw /\ u = {} THEN place' = "launch" ELSE place' \in {"update_scan", "closed"}
  /\ UNCHANGED <<proc, replaced, doubled, records>>

(* await_single_update: until the updater is gone, and then over to the    *)
(* replacement it has started or, if there is none, to a second launch.    *)
Update ==
  LET n == memory.scan.normal
      u == memory.scan.update
      saw == memory.saw \/ u # {}
      safe == memory.safe \/ n = {} IN
  /\ place = "update"
  /\ IF Conflict THEN place' = "closed" /\ UNCHANGED <<memory, journal>>
     ELSE /\ memory' = [memory EXCEPT !.saw = saw, !.safe = safe]
          /\ journal' = IF n = {} /\ ~memory.safe THEN <<>> ELSE journal
          /\ \/ saw /\ u = {} /\ n = {} /\ place' = "launch"
             \/ /\ saw /\ u = {} /\ n # {}
                /\ place' = IF safe THEN "ready_scan" ELSE "closed"
             \/ /\ ~saw \/ u # {}
                /\ IF ~saw /\ n # {} /\ safe /\ ~LaunchPending /\ JournalStarted
                     THEN place' = "ready_scan" ELSE place' \in {"update_scan", "closed"}
  /\ UNCHANGED <<proc, replaced, doubled, records>>

(* hold_for_terminal_authorization: an operator may log in by hand. *)
Hold ==
  /\ Script("hold", {IF OneNormal /\ ~UpdatePending THEN "auth_scan" ELSE "closed"})
  /\ memory' = [memory EXCEPT !.scan = Seen, !.pinned = Normals, !.stage = "maintenance"]
  /\ Unseen

BugFreshBaselinePerWindow ==
  /\ Script("hold_again", {"auth_scan", "closed"})
  /\ journal' = <<>>
  /\ UNCHANGED <<memory, proc, replaced, doubled, records>>

(* The next window, with the process and the snapshot of the first, unless *)
(* the desktop is gone.                                                    *)
HoldAgain ==
  /\ Script("hold_again", {"auth_scan", "closed"})
  /\ UNCHANGED memory /\ Unseen

(* await_native_account_persistence, if an account was imported; the       *)
(* windows repeat, the account may be stored or not.                       *)
AwaitStored ==
  /\ \/ Script("verified", {"snapshot"}) /\ UNCHANGED memory
     \/ /\ Script("verified", {"persist_scan"})
        /\ memory' = [memory EXCEPT !.pinned = Normals]
  /\ Unseen

Stored ==
  /\ place = "persist"
  /\ IF \/ Cardinality(memory.scan.normal) # 1 \/ memory.scan.update # {}
        \/ memory.scan.normal # memory.pinned \/ UpdatePending
       THEN place' = "closed"
       ELSE place' \in {"persist_scan", "closed"}
                         \cup IF JournalAuthorized THEN {"snapshot"} ELSE {}
  /\ UNCHANGED memory /\ Unseen

(* The snapshot that health starts from, the marker, and the API *)
Open ==
  /\ Script("snapshot", {"serve", "closed"})
  /\ journal' = <<>>
  /\ UNCHANGED <<memory, proc, replaced, doubled, records>>

(* The loop at the end of start_server.sh *)
Serve ==
  /\ Script("serve", IF OneNormal THEN {"serve", "closed"} ELSE {"closed"})
  /\ memory' = [memory EXCEPT !.scan = Seen]
  /\ Unseen

-----------------------------------------------------------------------------
(* The terminal, its updaters and who uses the desktop *)

Becomes(p, from, to) == proc[p] = from /\ proc' = [proc EXCEPT ![p] = to]
Apart == place # "closed" /\ UNCHANGED <<place, memory>>
Silent == UNCHANGED <<journal, replaced, doubled, records>>

Write(p, what) ==
  /\ records < MaxRecords /\ records' = records + 1
  /\ journal' = Append(journal, [what |-> what, by |-> p])
  /\ Apart /\ UNCHANGED <<replaced, doubled>>

Appear(p) ==
  /\ \/ Becomes(p, "wine", "up") \/ Becomes(p, "native", "up")
     \/ Becomes(p, "coming", "update")
  /\ Apart /\ Silent

StartUp(p)   == Becomes(p, "up", "started") /\ Write(p, "startup")
LogInTo(p)   == Becomes(p, "started", "in") /\ Write(p, "authorized")
LoseLogin(p) == Becomes(p, "in", "started") /\ Write(p, "lost")
Prompt(p)    == p \in Normals /\ proc[p] # "up" /\ Write(p, "prompt") /\ UNCHANGED proc

(* The Journal tells of an updater after the startup of its terminal, the  *)
(* first line that terminal writes, or is silent about it.  The terminal   *)
(* that an updater has brought is up to date.                              *)
StartUpdater(p, u) ==
  /\ p \in Normals /\ Fresh(u) /\ ~replaced
  /\ \/ /\ proc[p] # "up" /\ Write(p, "launch")
        /\ proc' = [proc EXCEPT ![u] = "coming"]
     \/ proc' = [proc EXCEPT ![u] = "quiet"] /\ Apart /\ Silent

(* A terminal ends, but not between the announcement of an updater and     *)
(* that updater's process.                                                 *)
Leave(p) ==
  /\ p \in Normals /\ \A u \in Pids : proc[u] # "coming"
  /\ proc' = [proc EXCEPT ![p] = "gone"]
  /\ Apart /\ Silent

(* An updater replaces the executable, which the old terminal has to have  *)
(* left, and may start it: once, since it is up to date then.  It may end  *)
(* before a scan can see the terminal it has started.                      *)
Replace(u, p) ==
  /\ u \in Updaters /\ Normals = {} /\ Fresh(p)
  /\ ~replaced /\ replaced' = TRUE
  /\ proc' = [proc EXCEPT ![p] = "native"]
  /\ Apart /\ UNCHANGED <<journal, doubled, records>>

(* An updater the Journal was silent about works longer than a turn of a   *)
(* loop takes: the loop's scan sees it.                                    *)
EndUpdate(u) ==
  /\ proc[u] = "update" \/ (proc[u] = "quiet" /\ u \in memory.scan.update)
  /\ proc' = [proc EXCEPT ![u] = "gone"]
  /\ Apart /\ Silent

-----------------------------------------------------------------------------
Lifecycle ==
  \/ Launch
  \/ Scan("ready_scan", "ready") \/ Ready \/ ReadyConfirm
  \/ Scan("auth_scan", "auth") \/ Authorized \/ AuthorizedConfirm
  \/ Scan("update_scan", "update") \/ Update
  \/ Hold \/ HoldAgain
  \/ AwaitStored \/ Scan("persist_scan", "persist") \/ Stored
  \/ Open \/ Serve

LifecycleNext ==
  \/ Lifecycle
  \/ \E p \in Pids :
       \/ Appear(p) \/ StartUp(p) \/ LogInTo(p) \/ LoseLogin(p) \/ Prompt(p)
       \/ Leave(p) \/ EndUpdate(p)
       \/ \E q \in Pids : StartUpdater(p, q) \/ Replace(p, q)

(* The script runs; nothing is promised of the terminal or its users. *)
LifecycleSpec ==
  LifecycleInit /\ [][LifecycleNext]_lifecycleVars /\ WF_lifecycleVars(Lifecycle)

-----------------------------------------------------------------------------
(* Properties *)

(* When the script launches a terminal, no updater is there, announced or  *)
(* visible, and no terminal that its scan has shown, whatever came and     *)
(* went since.  What may be there is the one an updater has started, if it *)
(* was not visible yet: with the updater gone and no terminal seen the     *)
(* script launches (terminal_lifecycle.sh:209-213), although               *)
(* mt5docker/README.md:130 says that it never launches a second terminal   *)
(* over the native replacement.                                            *)
LaunchIsAlone ==
  [][place = "launch" /\ place' = "ready_scan" =>
       \A p \in Pids :
         \/ Off(p)
         \/ replaced /\ (proc[p] = "native" \/ p \in Normals \ memory.scan.normal)
    ]_lifecycleVars

(* The API is opened for a terminal by that terminal's own startup and     *)
(* login, not by those of the one it has replaced, which stand in the same *)
(* Journal without a name; but for a launch beside a replacement that was  *)
(* not visible, after which the two may be taken for each other.           *)
ReadyIsEarned ==
  place \in {"verified", "snapshot"} /\ ~doubled =>
    \E p \in Pids : /\ memory.pinned = {p}
                    /\ \E i, j \in DOMAIN journal :
                         /\ i < j
                         /\ journal[i] = [what |-> "startup", by |-> p]
                         /\ journal[j] = [what |-> "authorized", by |-> p]

(* However many windows an operator takes, the script does not wait on     *)
(* over a terminal that is logged in, unless a second one was launched     *)
(* beside it: a line of that one may then hide the login.                  *)
LoginIsNoticed ==
  \/ <>doubled
  \/ []<>~(/\ Maintenance /\ place \in {"auth_scan", "auth", "hold_again"}
           /\ \E p \in memory.pinned : proc[p] = "in")
=============================================================================
