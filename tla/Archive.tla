------------------------------- MODULE Archive -------------------------------
(***************************************************************************)
(* The durable OHLC archive (HistoricalOHLCArchive of history/archive.py,  *)
(* one SQLite database) and the jobs that fill it (backfill of             *)
(* history/archive_backfill.py).  Jobs run side by side, on ranges that    *)
(* may overlap; a transaction of the archive is one step.                  *)
(*                                                                         *)
(* The bars of one symbol and timeframe, by the account they are read      *)
(* from: the session token in the archive's key.  A bar is a number that   *)
(* stands for its content; 0 is no bar.  A digest is the bars themselves.  *)
(***************************************************************************)
EXTENDS Integers

CONSTANTS
  Jobs,         \* backfill processes, of one job each
  Tokens,       \* demo accounts, by their fingerprint
  LastBar,      \* bar times are 1..LastBar
  NoToken,
  MaxRevisions  \* bound: changes at the broker, of bars or of the account

ASSUME ArchiveAssumption ==
  LastBar \in Nat \ {0} /\ MaxRevisions \in Nat /\ NoToken \notin Tokens

VARIABLES
  broker,     \* the bars of each account at the broker
  login,      \* the account the terminal is logged in to
  revisions,
  bars,       \* table bars
  coverage,   \* table coverage: digests by account and range
  job         \* where each job is and what it remembers

archiveVars == <<broker, login, revisions, bars, coverage, job>>

Times   == 1..LastBar
Bars    == [Times -> 0..2]
Ranges  == {r \in Times \X Times : r[1] <= r[2]}
NoBars  == [t \in Times |-> 0]
NoDigest == [t \in Times |-> -1]

In(t, r) == r[1] <= t /\ t <= r[2]
Within(content, r) == [t \in Times |-> IF In(t, r) THEN content[t] ELSE 0]

ArchiveTypeOK ==
  /\ broker \in [Tokens -> Bars] /\ login \in Tokens /\ revisions \in 0..MaxRevisions
  /\ bars \in [Tokens -> Bars]
  /\ coverage \in [Tokens -> [Ranges -> Bars \cup {NoDigest}]]
  /\ job \in [Jobs -> [pc : {"idle", "again", "upsert", "mark", "compare", "done"},
                       range : Ranges, token : Tokens \cup {NoToken}, snapshot : Bars]]
  /\ \A j \in Jobs : job[j].pc \notin {"idle", "done"} =>
       /\ job[j].token # NoToken
       /\ job[j].snapshot = Within(job[j].snapshot, job[j].range)
       /\ \A t \in Times : t \in {job[j].range[1], job[j].range[2]} => job[j].snapshot[t] # 0

NoJob == [pc |-> "idle", range |-> <<1, 1>>, token |-> NoToken, snapshot |-> NoBars]

ArchiveInit ==
  /\ broker \in [Tokens -> [Times -> {1}]] /\ login \in Tokens /\ revisions = 0
  /\ bars = [k \in Tokens |-> NoBars]
  /\ coverage = [k \in Tokens |-> [r \in Ranges |-> NoDigest]]
  /\ job = [j \in Jobs |-> NoJob]

Goto(j, pc) == job' = [job EXCEPT ![j].pc = pc]
End(j) == job' = [job EXCEPT ![j] = [NoJob EXCEPT !.pc = "done"]]

-----------------------------------------------------------------------------
(* backfill.  A read is guarded (MT5Client.call): it is of the account     *)
(* that is logged in.  Both ends of the range must be there.               *)
Readable(r) == broker[login][r[1]] # 0 /\ broker[login][r[2]] # 0
Snapshot(r) == Within(broker[login], r)

BugBoundariesUnchecked(j, r) ==
  /\ job[j].pc = "idle"
  /\ job' = [job EXCEPT ![j] =
       [pc |-> "again", range |-> r, token |-> login, snapshot |-> Snapshot(r)]]
  /\ UNCHANGED <<broker, login, revisions, bars, coverage>>

FirstRead(j, r) ==
  /\ job[j].pc = "idle"
  /\ Readable(r)
  /\ job' = [job EXCEPT ![j] =
       [pc |-> "again", range |-> r, token |-> login, snapshot |-> Snapshot(r)]]
  /\ UNCHANGED <<broker, login, revisions, bars, coverage>>

(* The second read is of the same session and of the same bars. *)
SecondRead(j) ==
  /\ job[j].pc = "again"
  /\ IF /\ login = job[j].token
        /\ Readable(job[j].range) /\ Snapshot(job[j].range) = job[j].snapshot
       THEN Goto(j, "upsert") ELSE End(j)
  /\ UNCHANGED <<broker, login, revisions, bars, coverage>>

Overlap(r, q) == r[1] <= q[2] /\ r[2] >= q[1]

BugInnerCoverageOnly(j) ==
  /\ job[j].pc = "upsert"
  /\ LET k == job[j].token
         q == job[j].range IN
     /\ bars' = [bars EXCEPT ![k] = [t \in Times |->
                   IF job[j].snapshot[t] # 0 THEN job[j].snapshot[t] ELSE bars[k][t]]]
     /\ coverage' = [coverage EXCEPT ![k] = [r \in Ranges |->
          IF q[1] <= r[1] /\ r[2] <= q[2] THEN NoDigest ELSE coverage[k][r]]]
  /\ Goto(j, "mark")
  /\ UNCHANGED <<broker, login, revisions>>

(* upsert: the bars replace those of their times, and the coverage of      *)
(* every range they touch goes.  Both ends of a job's range have bars.     *)
Upsert(j) ==
  /\ job[j].pc = "upsert"
  /\ LET k == job[j].token IN
     /\ bars' = [bars EXCEPT ![k] = [t \in Times |->
                   IF job[j].snapshot[t] # 0 THEN job[j].snapshot[t] ELSE bars[k][t]]]
     /\ coverage' = [coverage EXCEPT ![k] = [r \in Ranges |->
          IF Overlap(r, job[j].range) THEN NoDigest ELSE coverage[k][r]]]
  /\ Goto(j, "mark")
  /\ UNCHANGED <<broker, login, revisions>>

(* mark_completed: what is stored in the range must be what was read. *)
MarkCompleted(j) ==
  /\ job[j].pc = "mark"
  /\ LET k == job[j].token
         r == job[j].range IN
     IF Within(bars[k], r) = job[j].snapshot
       THEN /\ coverage' = [coverage EXCEPT ![k][r] = job[j].snapshot]
            /\ Goto(j, "compare")
       ELSE End(j) /\ UNCHANGED coverage
  /\ UNCHANGED <<broker, login, revisions, bars>>

(* read_range, and the comparison that decides what the job reports; a job *)
(* may also fail or be killed anywhere.                                    *)
EndJob(j) ==
  /\ job[j].pc \notin {"idle", "done"}
  /\ End(j)
  /\ UNCHANGED <<broker, login, revisions, bars, coverage>>

-----------------------------------------------------------------------------
(* The broker revises or withdraws a bar; another account logs in. *)
Revise(k, t, bar) ==
  /\ revisions < MaxRevisions /\ revisions' = revisions + 1
  /\ bar # broker[k][t]
  /\ broker' = [broker EXCEPT ![k][t] = bar]
  /\ UNCHANGED <<login, bars, coverage, job>>

Login(k) ==
  /\ revisions < MaxRevisions /\ revisions' = revisions + 1
  /\ k # login
  /\ login' = k
  /\ UNCHANGED <<broker, bars, coverage, job>>

ArchiveNext ==
  \/ \E j \in Jobs :
       \/ \E r \in Ranges : FirstRead(j, r)
       \/ SecondRead(j) \/ Upsert(j) \/ MarkCompleted(j) \/ EndJob(j)
  \/ \E k \in Tokens : Login(k) \/ \E t \in Times, bar \in 0..2 : Revise(k, t, bar)

ArchiveSpec == ArchiveInit /\ [][ArchiveNext]_archiveVars

-----------------------------------------------------------------------------
(* Property *)

(* A coverage row vouches for the bars as they are stored now: whichever   *)
(* jobs on overlapping ranges came in between, its digest and its count    *)
(* are those of the bars in its range.                                     *)
CoverageIsTrue ==
  \A k \in Tokens, r \in Ranges :
    coverage[k][r] # NoDigest => coverage[k][r] = Within(bars[k], r)
=============================================================================
