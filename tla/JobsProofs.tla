----------------------------- MODULE JobsProofs -----------------------------
(***************************************************************************)
(* The parts that run beside each other without shared state (MCJobs): the *)
(* archive, the supervisor, the trade ETL, the start of the terminal and   *)
(* the gap verification.  For each the type, and what its invariant says.  *)
(***************************************************************************)
EXTENDS MCJobs, TerminalLifecycleProofs

-----------------------------------------------------------------------------
(* Archive.  A bar outside a job's range is no bar of its snapshot, so an  *)
(* upsert leaves the bars of every range it does not overlap, and it takes *)
(* the coverage of every other one.  A row is written for the bars that    *)
(* are stored, in the transaction that compares them.                      *)

JobRecords == [pc : {"idle", "again", "upsert", "mark", "compare", "done"},
               range : Ranges, token : Tokens \cup {NoToken}, snapshot : Bars]

Sound(x) ==
  x.pc \notin {"idle", "done"} =>
    /\ x.token # NoToken
    /\ x.snapshot = Within(x.snapshot, x.range)
    /\ \A t \in Times : t \in {x.range[1], x.range[2]} => x.snapshot[t] # 0

TablesTyped ==
  /\ bars \in [Tokens -> Bars]
  /\ coverage \in [Tokens -> [Ranges -> Bars \cup {NoDigest}]]

BrokerTyped ==
  broker \in [Tokens -> Bars] /\ login \in Tokens /\ revisions \in 0..MaxRevisions

JobsTyped == job \in [Jobs -> JobRecords] /\ \A j \in Jobs : Sound(job[j])

LEMMA ArchiveParts == ArchiveTypeOK <=> BrokerTyped /\ TablesTyped /\ JobsTyped
BY DEF ArchiveTypeOK, BrokerTyped, TablesTyped, JobsTyped, JobRecords, Sound

LEMMA ArchiveNextParts ==
  BrokerTyped' /\ TablesTyped' /\ JobsTyped' => ArchiveTypeOK'
BY DEF ArchiveTypeOK, BrokerTyped, TablesTyped, JobsTyped, JobRecords, Sound

LEMMA WithinRange ==
  ASSUME NEW content \in Bars, NEW r \in Ranges
  PROVE  /\ Within(content, r) \in Bars
         /\ Within(Within(content, r), r) = Within(content, r)
         /\ r[1] \in Times /\ r[2] \in Times
         /\ Within(content, r)[r[1]] = content[r[1]]
         /\ Within(content, r)[r[2]] = content[r[2]]
<1>1. r[1] \in Times /\ r[2] \in Times /\ r[1] <= r[2] /\ Times \subseteq Int
  BY DEF Ranges, Times
<1>2. Within(content, r) \in [Times -> 0..2]
  BY DEF Within, Bars
<1>3. \A t \in Times : Within(content, r)[t] = IF In(t, r) THEN content[t] ELSE 0
  BY DEF Within
<1>4. Within(Within(content, r), r) = Within(content, r)
  <2>1. \A t \in Times : Within(Within(content, r), r)[t] = Within(content, r)[t]
    BY <1>3 DEF Within
  <2>2. Within(Within(content, r), r) = [t \in Times |-> Within(Within(content, r), r)[t]]
    BY DEF Within
  <2>3. Within(content, r) = [t \in Times |-> Within(content, r)[t]]
    BY <1>2
  <2> QED BY <2>1, <2>2, <2>3
<1>5. In(r[1], r) /\ In(r[2], r)
  <2>1. \A a, b \in Int : a <= b => a <= a /\ b <= b
    OBVIOUS
  <2>2. r[1] \in Int /\ r[2] \in Int
    BY <1>1
  <2> QED BY <1>1, <2>1, <2>2 DEF In
<1> QED BY <1>1, <1>2, <1>3, <1>4, <1>5 DEF Bars

LEMMA JobMoves ==
  ASSUME JobsTyped, NEW j \in Jobs, NEW x \in JobRecords, Sound(x),
         job' = [job EXCEPT ![j] = x]
  PROVE  JobsTyped'
<1>1. job' \in [Jobs -> JobRecords] /\ job'[j] = x
      /\ \A i \in Jobs \ {j} : job'[i] = job[i]
  BY DEF JobsTyped
<1> QED BY <1>1 DEF JobsTyped

LEMMA Ended ==
  ASSUME ArchiveTypeOK, NEW j \in Jobs, End(j)
  PROVE  JobsTyped'
<1>1. /\ [NoJob EXCEPT !.pc = "done"] \in JobRecords
      /\ Sound([NoJob EXCEPT !.pc = "done"])
  <2>1. <<1, 1>> \in Ranges /\ NoBars \in Bars
    BY ArchiveAssumption DEF Ranges, Times, NoBars, Bars
  <2> QED BY <2>1 DEF NoJob, JobRecords, Sound
<1> QED BY <1>1, ArchiveParts, JobMoves DEF End

LEMMA WentOn ==
  ASSUME ArchiveTypeOK, NEW j \in Jobs, job[j].pc \notin {"idle", "done"},
         NEW pc \in {"again", "upsert", "mark", "compare"}, job' = [job EXCEPT ![j].pc = pc]
  PROVE  JobsTyped'
<1>1. job[j] \in JobRecords /\ Sound(job[j]) /\ JobsTyped
  BY ArchiveParts DEF JobsTyped
<1>2. [job[j] EXCEPT !.pc = pc] \in JobRecords /\ Sound([job[j] EXCEPT !.pc = pc])
  BY <1>1 DEF JobRecords, Sound
<1>3. job' = [job EXCEPT ![j] = [job[j] EXCEPT !.pc = pc]]
  BY <1>1 DEF JobsTyped
<1> QED BY <1>1, <1>2, <1>3, JobMoves

ArchiveInv == ArchiveTypeOK /\ CoverageIsTrue

LEMMA FirstReadKeeps ==
  ASSUME ArchiveInv, NEW j \in Jobs, NEW r \in Ranges, FirstRead(j, r)
  PROVE  ArchiveInv'
<1> DEFINE x == [pc |-> "again", range |-> r, token |-> login, snapshot |-> Snapshot(r)]
<1>0. BrokerTyped /\ TablesTyped /\ JobsTyped /\ CoverageIsTrue
  BY ArchiveParts DEF ArchiveInv
<1>1. broker[login] \in Bars /\ login \in Tokens /\ login # NoToken
  BY <1>0, ArchiveAssumption DEF BrokerTyped
<1>2. x \in JobRecords
  BY <1>1, WithinRange DEF JobRecords, Snapshot
<1>3. Sound(x)
  BY <1>1, WithinRange DEF FirstRead, Sound, Snapshot, Readable
<1>4. JobsTyped'
  BY <1>0, <1>2, <1>3, JobMoves DEF FirstRead
<1> QED BY <1>0, <1>4, ArchiveNextParts
        DEF FirstRead, ArchiveInv, BrokerTyped, TablesTyped, CoverageIsTrue

LEMMA TablesKept ==
  ASSUME ArchiveInv, JobsTyped', UNCHANGED <<broker, login, revisions, bars, coverage>>
  PROVE  ArchiveInv'
BY ArchiveParts, ArchiveNextParts
   DEF ArchiveInv, BrokerTyped, TablesTyped, CoverageIsTrue

LEMMA UpsertKeeps ==
  ASSUME ArchiveInv, NEW j \in Jobs, Upsert(j)
  PROVE  ArchiveInv'
<1> DEFINE k == job[j].token
           q == job[j].range
           s == job[j].snapshot
<1>0. BrokerTyped /\ TablesTyped /\ JobsTyped /\ CoverageIsTrue
  BY ArchiveParts DEF ArchiveInv
<1>1. /\ k \in Tokens /\ q \in Ranges /\ s \in Bars /\ s = Within(s, q)
      /\ job[j].pc = "upsert"
  <2>1. job[j].pc = "upsert" BY DEF Upsert
  <2>2. job[j] \in JobRecords /\ Sound(job[j]) BY <1>0 DEF JobsTyped
  <2> QED BY <2>1, <2>2 DEF JobRecords, Sound
<1> DEFINE newBars == [t \in Times |-> IF s[t] # 0 THEN s[t] ELSE bars[k][t]]
           newRows == [r \in Ranges |-> IF Overlap(r, q) THEN NoDigest ELSE coverage[k][r]]
<1>2. /\ bars' = [bars EXCEPT ![k] = newBars]
      /\ coverage' = [coverage EXCEPT ![k] = newRows]
      /\ Goto(j, "mark") /\ UNCHANGED <<broker, login, revisions>>
  BY Zenon DEF Upsert
<1>3. JobsTyped'
  BY <1>0, <1>1, <1>2, WentOn DEF Goto, ArchiveInv
<1>4. newBars \in Bars /\ newRows \in [Ranges -> Bars \cup {NoDigest}]
  BY <1>0, <1>1 DEF Bars, TablesTyped
<1>5. TablesTyped'
  BY <1>0, <1>1, <1>2, <1>4 DEF TablesTyped
<1>6. ASSUME NEW r \in Ranges, ~Overlap(r, q)
      PROVE  Within(newBars, r) = Within(bars[k], r)
  <2>1. \A t \in Times : In(t, r) => ~In(t, q)
    BY <1>1, <1>6 DEF Overlap, In, Ranges, Times
  <2>2. \A t \in Times : In(t, r) => s[t] = 0
    BY <1>1, <2>1 DEF Within
  <2>3. \A t \in Times : In(t, r) => newBars[t] = bars[k][t]
    BY <2>2
  <2> QED BY <2>3 DEF Within
<1>7. CoverageIsTrue'
  <2> SUFFICES ASSUME NEW l \in Tokens, NEW r \in Ranges, coverage'[l][r] # NoDigest
               PROVE  coverage'[l][r] = Within(bars'[l], r)
    BY DEF CoverageIsTrue
  <2>1. CASE l # k
    BY <1>0, <1>2, <2>1 DEF TablesTyped, CoverageIsTrue
  <2>2. CASE l = k
    <3>1. coverage'[l] = newRows /\ bars'[l] = newBars
      BY <1>0, <1>1, <1>2, <2>2 DEF TablesTyped
    <3>2. ~Overlap(r, q) /\ coverage'[l][r] = coverage[k][r]
      BY <3>1
    <3> QED BY <1>0, <1>1, <1>6, <3>1, <3>2 DEF CoverageIsTrue
  <2> QED BY <2>1, <2>2
<1>8. BrokerTyped'
  BY <1>0, <1>2 DEF BrokerTyped
<1> QED BY <1>3, <1>5, <1>7, <1>8, ArchiveNextParts DEF ArchiveInv

LEMMA MarkKeeps ==
  ASSUME ArchiveInv, NEW j \in Jobs, MarkCompleted(j)
  PROVE  ArchiveInv'
<1> DEFINE k == job[j].token
           r == job[j].range
           s == job[j].snapshot
<1>0. BrokerTyped /\ TablesTyped /\ JobsTyped /\ CoverageIsTrue
  BY ArchiveParts DEF ArchiveInv
<1>1. /\ k \in Tokens /\ r \in Ranges /\ s \in Bars /\ job[j].pc = "mark"
  <2>1. job[j].pc = "mark" BY DEF MarkCompleted
  <2>2. job[j] \in JobRecords /\ Sound(job[j]) BY <1>0 DEF JobsTyped
  <2> QED BY <2>1, <2>2 DEF JobRecords, Sound
<1>2. UNCHANGED <<broker, login, revisions, bars>>
  BY DEF MarkCompleted
<1>3. CASE End(j) /\ UNCHANGED coverage
  BY <1>2, <1>3, Ended, TablesKept DEF ArchiveInv
<1>4. CASE /\ Within(bars[k], r) = s
           /\ coverage' = [coverage EXCEPT ![k][r] = s]
           /\ Goto(j, "compare")
  <2>1. JobsTyped'
    BY <1>1, <1>4, WentOn DEF Goto, ArchiveInv
  <2>2. coverage' = [coverage EXCEPT ![k] = [coverage[k] EXCEPT ![r] = s]]
        /\ coverage[k] \in [Ranges -> Bars \cup {NoDigest}]
    BY <1>0, <1>1, <1>4 DEF TablesTyped
  <2>3. [coverage[k] EXCEPT ![r] = s] \in [Ranges -> Bars \cup {NoDigest}]
    BY <1>1, <2>2
  <2>4. TablesTyped'
    BY <1>0, <1>1, <1>2, <2>2, <2>3 DEF TablesTyped
  <2>5. CoverageIsTrue'
    <3> SUFFICES ASSUME NEW l \in Tokens, NEW p \in Ranges, coverage'[l][p] # NoDigest
                 PROVE  coverage'[l][p] = Within(bars[l], p)
      BY <1>2 DEF CoverageIsTrue
    <3>1. CASE l = k /\ p = r
      BY <1>0, <1>1, <1>4, <2>2, <3>1 DEF TablesTyped
    <3>2. CASE l # k \/ p # r
      <4>1. coverage'[l][p] = coverage[l][p]
        BY <1>0, <1>1, <2>2, <3>2 DEF TablesTyped
      <4> QED BY <1>0, <4>1 DEF CoverageIsTrue
    <3> QED BY <3>1, <3>2
  <2>6. BrokerTyped'
    BY <1>0, <1>2 DEF BrokerTyped
  <2> QED BY <2>1, <2>4, <2>5, <2>6, ArchiveNextParts DEF ArchiveInv
<1> QED BY <1>3, <1>4, Zenon DEF MarkCompleted

LEMMA BrokerMoves ==
  ASSUME ArchiveInv,
         \/ \E k \in Tokens, t \in Times, bar \in 0..2 : Revise(k, t, bar)
         \/ \E k \in Tokens : Login(k)
         \/ UNCHANGED archiveVars
  PROVE  ArchiveInv'
<1>0. BrokerTyped /\ TablesTyped /\ JobsTyped /\ CoverageIsTrue
  BY ArchiveParts DEF ArchiveInv
<1>1. UNCHANGED <<bars, coverage, job>>
  BY DEF Revise, Login, archiveVars
<1>2. BrokerTyped'
  <2>1. ASSUME NEW k \in Tokens, NEW t \in Times, NEW bar \in 0..2, Revise(k, t, bar)
        PROVE  BrokerTyped'
    <3>1. [broker[k] EXCEPT ![t] = bar] \in Bars
      BY <1>0 DEF BrokerTyped, Bars
    <3>2. broker' = [broker EXCEPT ![k] = [broker[k] EXCEPT ![t] = bar]]
      BY <1>0, <2>1 DEF Revise, BrokerTyped
    <3> QED BY <1>0, <2>1, <3>1, <3>2, ArchiveAssumption DEF BrokerTyped, Revise
  <2>2. ASSUME NEW k \in Tokens, Login(k) PROVE BrokerTyped'
    BY <1>0, <2>2, ArchiveAssumption DEF BrokerTyped, Login
  <2>3. CASE UNCHANGED archiveVars
    BY <1>0, <2>3 DEF BrokerTyped, archiveVars
  <2> QED BY <2>1, <2>2, <2>3
<1>3. TablesTyped' /\ JobsTyped' /\ CoverageIsTrue'
  BY <1>0, <1>1 DEF TablesTyped, JobsTyped, CoverageIsTrue
<1> QED BY <1>2, <1>3, ArchiveNextParts DEF ArchiveInv

LEMMA ArchiveStart == ArchiveInit => ArchiveInv
<1> SUFFICES ASSUME ArchiveInit PROVE ArchiveInv
  OBVIOUS
<1>1. NoBars \in Bars /\ <<1, 1>> \in Ranges
  BY ArchiveAssumption DEF NoBars, Bars, Ranges, Times
<1>2. NoJob \in JobRecords /\ Sound(NoJob)
  BY <1>1 DEF NoJob, JobRecords, Sound
<1>3. BrokerTyped
  BY ArchiveAssumption DEF ArchiveInit, BrokerTyped, Bars
<1>4. TablesTyped /\ JobsTyped /\ CoverageIsTrue
  BY <1>1, <1>2 DEF ArchiveInit, TablesTyped, JobsTyped, CoverageIsTrue
<1> QED BY <1>3, <1>4, ArchiveParts DEF ArchiveInv

LEMMA ArchiveInduction == ArchiveInv /\ [ArchiveNext]_archiveVars => ArchiveInv'
<1> SUFFICES ASSUME ArchiveInv, [ArchiveNext]_archiveVars PROVE ArchiveInv'
  OBVIOUS
<1>1. ASSUME NEW j \in Jobs, SecondRead(j) \/ EndJob(j) PROVE ArchiveInv'
  <2>1. UNCHANGED <<broker, login, revisions, bars, coverage>>
    BY <1>1 DEF SecondRead, EndJob
  <2>2. End(j) \/ (job[j].pc = "again" /\ Goto(j, "upsert"))
    BY <1>1, Zenon DEF SecondRead, EndJob
  <2>3. JobsTyped'
    BY <2>2, Ended, WentOn DEF Goto, ArchiveInv
  <2> QED BY <2>1, <2>3, TablesKept
<1> QED BY <1>1, FirstReadKeeps, UpsertKeeps, MarkKeeps, BrokerMoves DEF ArchiveNext

(* A coverage row, written by mark_completed, has the digest of the bars   *)
(* as they are stored, whichever upserts of overlapping jobs came between: *)
(* upsert deletes every row it could make false.                           *)
THEOREM CoverageStaysTrue == ArchiveSpec => [](ArchiveTypeOK /\ CoverageIsTrue)
<1>1. ArchiveSpec => []ArchiveInv
  BY ArchiveStart, ArchiveInduction, PTL DEF ArchiveSpec
<1> QED BY <1>1, PTL DEF ArchiveInv

-----------------------------------------------------------------------------
(* Supervisor.  From its SIGTERM on no child is started, so those that     *)
(* still run are among those told, and SIGKILL goes to all of these; a     *)
(* child that was sent it and has not ended is not among those that run.   *)

SupervisorInv ==
  /\ SupervisorTypeOK
  /\ step \in {"wait", "kill"} => Running \subseteq told
  /\ step \in {"reap", "returned"} => Running = {}
  /\ result = "signal" => stopSignal

LEMMA SupervisorStart == SupervisorInit => SupervisorInv
BY DEF SupervisorInit, SupervisorInv, SupervisorTypeOK, Started, Running

LEMMA SupervisorInduction ==
  SupervisorInv /\ [SupervisorNext]_supervisorVars => SupervisorInv'
<1> SUFFICES ASSUME SupervisorInv, [SupervisorNext]_supervisorVars
             PROVE  SupervisorInv'
  OBVIOUS
<1> USE DEF SupervisorInv, SupervisorTypeOK, Started, Running
<1>1. CASE StartChild
  <2>1. /\ step = "start" /\ UNCHANGED <<stopSignal, told>>
        /\ process' \in [Children -> {"none", "running", "ending", "killed", "ended"}]
        /\ \A c \in Children : process[c] # "none" => process'[c] # "none"
    BY <1>1 DEF StartChild
  <2>2. \/ UNCHANGED <<step, result>>
        \/ step' = "terminate" /\ result' = "not started"
    BY <1>1, Zenon DEF StartChild
  <2> QED BY <2>1, <2>2
<1>2. CASE AllStarted \/ Watch
  BY <1>2 DEF AllStarted, Watch
<1>3. CASE Terminate
  BY <1>3 DEF Terminate
<1>4. CASE AwaitEnd
  BY <1>4 DEF AwaitEnd
<1>5. CASE Kill \/ Reap
  BY <1>5 DEF Kill, Reap
<1>6. ASSUME NEW c \in Children, ChildEnds(c) PROVE SupervisorInv'
  BY <1>6 DEF ChildEnds
<1>7. CASE RequestStop \/ UNCHANGED supervisorVars
  BY <1>7 DEF RequestStop, supervisorVars
<1> QED BY <1>1, <1>2, <1>3, <1>4, <1>5, <1>6, <1>7 DEF SupervisorNext, Supervise

(* shutdown does not return before every child has ended or was sent       *)
(* SIGKILL, however many were started and however they take their SIGTERM; *)
(* and run returns "signal" only for a signal.                             *)
THEOREM NoneIsLeftUnkilled ==
  SupervisorSpec => [](/\ SupervisorTypeOK
                       /\ step = "returned" =>
                            \A c \in Children : process[c] \in {"none", "killed", "ended"}
                       /\ result = "signal" => stopSignal)
<1>1. SupervisorSpec => []SupervisorInv
  BY SupervisorStart, SupervisorInduction, PTL DEF SupervisorSpec
<1>2. SupervisorInv => /\ SupervisorTypeOK
                       /\ step = "returned" =>
                            \A c \in Children : process[c] \in {"none", "killed", "ended"}
                       /\ result = "signal" => stopSignal
  BY DEF SupervisorInv, SupervisorTypeOK, Running
<1> QED BY <1>1, <1>2, PTL

-----------------------------------------------------------------------------
(* Trade ETL.  A run that is still calm has taken every step so far with   *)
(* all that the active account has, on the tables it has begun with.       *)

RowOf(row) == [login |-> IF row = Absent THEN active ELSE row.login, of |-> active]

RowsOf(table, ids) ==
  [i \in DOMAIN table |-> IF i \in ids THEN RowOf(table[i]) ELSE table[i]]

Taken ==
  /\ written.snapshots =
       IF at = "account" THEN stored.snapshots ELSE stored.snapshots \cup {active}
  /\ written.deals = IF at \in {"account", "deals"} THEN stored.deals
                     ELSE RowsOf(stored.deals, DealsOf[active])
  /\ written.orders = IF at \in {"account", "deals", "orders"} THEN stored.orders
                      ELSE RowsOf(stored.orders, OrdersOf[active])
  /\ written.ohlc = stored.ohlc \/ (at = "commit" /\ stored.ohlc = 0)
  /\ at = "commit" => written.ohlc # 0

EtlInv == EtlTypeOK /\ csvBar # 0 /\ (calm /\ at # "ended" => Taken)

LEMMA EtlBounds ==
  /\ MaxRuns \in Nat /\ MaxUpsets \in Nat
  /\ \A n \in 0..MaxRuns : n < MaxRuns => n + 1 \in 0..MaxRuns
  /\ 0 \in 0..MaxRuns /\ 0 \in 0..MaxUpsets
<1>1. MaxRuns \in Nat /\ MaxUpsets \in Nat BY EtlAssumption
<1> QED BY <1>1

LEMMA EtlStart == EtlInit => EtlInv
<1> SUFFICES ASSUME EtlInit PROVE EtlInv
  OBVIOUS
<1>1. Absent \in Rows BY DEF Rows
<1>2. stored \in Tables
  BY <1>1 DEF EtlInit, Tables
<1>3. 0 \in 0..MaxRuns /\ 0 \in 0..MaxUpsets BY EtlBounds
<1>4. /\ active \in Logins /\ csvBar = 1 /\ at = "ended" /\ info = NoLogin
      /\ written = stored /\ aborted = FALSE /\ calm = FALSE
      /\ runs = 0 /\ upsets = 0
  BY DEF EtlInit
<1>5. EtlTypeOK
  <2>1. active \in Logins /\ csvBar \in 0..2 /\ info \in Logins \cup {NoLogin}
    BY <1>4
  <2>2. at \in {"ended", "account", "deals", "orders", "ohlc", "commit"}
    BY <1>4
  <2>3. stored \in Tables /\ written \in Tables
    BY <1>2, <1>4
  <2>4. runs \in 0..MaxRuns /\ upsets \in 0..MaxUpsets
    BY <1>3, <1>4
  <2>5. aborted \in BOOLEAN /\ calm \in BOOLEAN /\ ~calm
    BY <1>4
  <2> QED BY <2>1, <2>2, <2>3, <2>4, <2>5 DEF EtlTypeOK
<1> QED BY <1>4, <1>5 DEF EtlInv

LEMMA UpsertedRows ==
  ASSUME EtlTypeOK, NEW D, NEW table \in [D -> Rows], NEW ids \in SUBSET D
  PROVE  /\ Upserted(table, ids) \in [D -> Rows]
         /\ info = active => Upserted(table, ids) = RowsOf(table, ids)
<1>1. active \in Logins /\ info \in Logins \cup {NoLogin}
  BY DEF EtlTypeOK
<1>2. \A r \in Rows : r.login \in Logins \cup {NoLogin}
  BY DEF Rows, Absent
<1>3. \A i \in D : Upserted(table, ids)[i] =
         IF i \notin ids THEN table[i]
         ELSE [login |-> IF table[i] = Absent THEN info ELSE table[i].login,
               of |-> active]
  BY DEF Upserted
<1>4. ASSUME NEW i \in D PROVE Upserted(table, ids)[i] \in Rows
  <2>1. table[i] \in Rows OBVIOUS
  <2> DEFINE l == IF table[i] = Absent THEN info ELSE table[i].login
  <2>2. l \in Logins \cup {NoLogin}
    BY <1>1, <1>2, <2>1
  <2>3. [login |-> l, of |-> active] \in Rows
    BY <1>1, <2>2 DEF Rows
  <2> QED BY <1>3, <2>1, <2>3
<1>5. DOMAIN table = D
  OBVIOUS
<1>6. Upserted(table, ids) = [i \in D |-> Upserted(table, ids)[i]]
  BY <1>3, <1>5 DEF Upserted
<1>7. ASSUME info = active PROVE Upserted(table, ids) = RowsOf(table, ids)
  <2>1. \A i \in D : Upserted(table, ids)[i] =
          IF i \in ids THEN RowOf(table[i]) ELSE table[i]
    BY <1>3, <1>7 DEF RowOf
  <2>2. RowsOf(table, ids) = [i \in D |-> IF i \in ids THEN RowOf(table[i]) ELSE table[i]]
    BY <1>5 DEF RowsOf
  <2> QED BY <1>6, <2>1, <2>2
<1>8. Upserted(table, ids) \in [D -> Rows]
  BY <1>4, <1>6
<1> QED BY <1>7, <1>8

LEMMA IdsOfActive ==
  ASSUME EtlTypeOK
  PROVE  DealsOf[active] \subseteq Ids(DealsOf) /\ OrdersOf[active] \subseteq Ids(OrdersOf)
BY DEF EtlTypeOK, Ids

LEMMA UpsetTyped ==
  ASSUME EtlTypeOK, Upset
  PROVE  upsets' \in 0..MaxUpsets /\ calm' = FALSE
BY EtlAssumption DEF EtlTypeOK, Upset

(* A statement, or none: the tables are typed, and taken if all is calm.   *)
LEMMA StatementKeeps ==
  ASSUME EtlTypeOK, NEW tables \in Tables,
         \/ Statement(tables) \/ NoData
         \/ ~aborted /\ Upset /\ written' = tables /\ UNCHANGED <<stored, aborted>>
  PROVE  /\ stored' = stored /\ written' \in Tables
         /\ aborted' \in BOOLEAN /\ calm' \in BOOLEAN /\ upsets' \in 0..MaxUpsets
         /\ calm' => ~aborted' /\ written' = tables /\ calm
<1>1. CASE ~aborted /\ written' = tables /\ UNCHANGED <<stored, aborted, calm, upsets>>
  BY <1>1 DEF EtlTypeOK
<1>2. CASE Upset /\ aborted' = TRUE /\ UNCHANGED <<written, stored>>
  BY <1>2, UpsetTyped DEF EtlTypeOK
<1>3. CASE aborted /\ UNCHANGED <<stored, written, aborted, calm, upsets>>
  BY <1>3 DEF EtlTypeOK
<1>4. CASE NoData
  BY <1>4, UpsetTyped DEF EtlTypeOK, NoData
<1>5. CASE ~aborted /\ Upset /\ written' = tables /\ UNCHANGED <<stored, aborted>>
  BY <1>5, UpsetTyped DEF EtlTypeOK
<1> QED BY <1>1, <1>2, <1>3, <1>4, <1>5, Zenon DEF Statement

LEMMA AccountTaken == ASSUME EtlInv, AccountStep PROVE EtlInv'
<1> DEFINE tables == [written EXCEPT !.snapshots = @ \cup {active}]
<1>1. /\ EtlTypeOK /\ active \in Logins /\ at = "account" /\ at' = "deals"
      /\ UNCHANGED <<active, csvBar, runs>>
      /\ info' \in {active, NoLogin}
      /\ Statement(tables) \/ NoData
      /\ NoData \/ info' = active
  BY Zenon DEF EtlInv, EtlTypeOK, AccountStep, Step
<1>2. /\ tables \in Tables /\ tables.snapshots = written.snapshots \cup {active}
      /\ tables.deals = written.deals /\ tables.orders = written.orders
      /\ tables.ohlc = written.ohlc
  BY <1>1 DEF EtlTypeOK, Tables
<1>3. /\ stored' = stored /\ written' \in Tables
      /\ aborted' \in BOOLEAN /\ calm' \in BOOLEAN /\ upsets' \in 0..MaxUpsets
      /\ calm' => ~aborted' /\ written' = tables /\ calm
  BY <1>1, <1>2, StatementKeeps
<1>4. calm' => info' = active
  BY <1>1, UpsetTyped DEF NoData
<1>5. EtlTypeOK'
  BY <1>1, <1>3, <1>4 DEF EtlTypeOK
<1>6. ASSUME calm' PROVE Taken'
  <2>1. calm /\ Taken /\ written' = tables
    BY <1>1, <1>3, <1>6 DEF EtlInv
  <2> QED BY <1>1, <1>2, <1>3, <2>1 DEF Taken
<1> QED BY <1>1, <1>5, <1>6 DEF EtlInv

LEMMA DealsTaken == ASSUME EtlInv, DealsStep PROVE EtlInv'
<1> DEFINE rows == Upserted(written.deals, DealsOf[active])
           tables == [written EXCEPT !.deals = rows]
<1>1. /\ EtlTypeOK /\ at = "deals" /\ at' = "orders"
      /\ UNCHANGED <<active, csvBar, info, runs>>
      /\ Statement(tables) \/ NoData
  BY DEF EtlInv, DealsStep, Step
<1>2. /\ written \in Tables /\ rows \in [Ids(DealsOf) -> Rows]
      /\ info = active => rows = RowsOf(written.deals, DealsOf[active])
  BY <1>1, UpsertedRows, IdsOfActive DEF EtlTypeOK, Tables
<1>3. /\ tables \in Tables /\ tables.deals = rows /\ tables.orders = written.orders
      /\ tables.snapshots = written.snapshots /\ tables.ohlc = written.ohlc
  BY <1>2 DEF Tables
<1>4. /\ stored' = stored /\ written' \in Tables
      /\ aborted' \in BOOLEAN /\ calm' \in BOOLEAN /\ upsets' \in 0..MaxUpsets
      /\ calm' => ~aborted' /\ written' = tables /\ calm
  BY <1>1, <1>3, StatementKeeps
<1>5. EtlTypeOK'
  BY <1>1, <1>4 DEF EtlTypeOK
<1>6. ASSUME calm' PROVE Taken'
  <2>1. calm /\ Taken /\ written' = tables /\ info = active
    BY <1>1, <1>4, <1>6 DEF EtlInv, EtlTypeOK
  <2>2. stored' = stored /\ active' = active /\ at' # at
    BY <1>1, <1>4
  <2> HIDE DEF rows, tables
  <2>3. written'.snapshots = written.snapshots /\ written'.ohlc = written.ohlc
    BY <1>3, <2>1
  <2> QED BY <1>1, <1>2, <1>3, <2>1, <2>2, <2>3 DEF Taken, RowsOf, RowOf
<1> QED BY <1>1, <1>5, <1>6 DEF EtlInv

LEMMA OrdersTaken == ASSUME EtlInv, OrdersStep PROVE EtlInv'
<1> DEFINE rows == Upserted(written.orders, OrdersOf[active])
           tables == [written EXCEPT !.orders = rows]
<1>1. /\ EtlTypeOK /\ at = "orders" /\ at' = "ohlc"
      /\ UNCHANGED <<active, csvBar, info, runs>>
      /\ Statement(tables) \/ NoData
  BY DEF EtlInv, OrdersStep, Step
<1>2. /\ written \in Tables /\ rows \in [Ids(OrdersOf) -> Rows]
      /\ info = active => rows = RowsOf(written.orders, OrdersOf[active])
  BY <1>1, UpsertedRows, IdsOfActive DEF EtlTypeOK, Tables
<1>3. /\ tables \in Tables /\ tables.orders = rows /\ tables.ohlc = written.ohlc
      /\ tables.snapshots = written.snapshots /\ tables.deals = written.deals
  BY <1>2 DEF Tables
<1>4. /\ stored' = stored /\ written' \in Tables
      /\ aborted' \in BOOLEAN /\ calm' \in BOOLEAN /\ upsets' \in 0..MaxUpsets
      /\ calm' => ~aborted' /\ written' = tables /\ calm
  BY <1>1, <1>3, StatementKeeps
<1>5. EtlTypeOK'
  BY <1>1, <1>4 DEF EtlTypeOK
<1>6. ASSUME calm' PROVE Taken'
  <2>1. calm /\ Taken /\ written' = tables /\ info = active
    BY <1>1, <1>4, <1>6 DEF EtlInv, EtlTypeOK
  <2>2. stored' = stored /\ active' = active /\ at' # at
    BY <1>1, <1>4
  <2> HIDE DEF rows, tables
  <2>3. written'.snapshots = written.snapshots /\ written'.ohlc = written.ohlc
    BY <1>3, <2>1
  <2> QED BY <1>1, <1>2, <1>3, <2>1, <2>2, <2>3 DEF Taken, RowsOf, RowOf
<1> QED BY <1>1, <1>5, <1>6 DEF EtlInv

LEMMA OhlcTaken == ASSUME EtlInv, OhlcStep PROVE EtlInv'
<1> DEFINE bar == IF written.ohlc = 0 THEN csvBar ELSE written.ohlc
           tables == [written EXCEPT !.ohlc = bar]
<1>1. /\ EtlTypeOK /\ at = "ohlc" /\ at' = "commit"
      /\ UNCHANGED <<active, csvBar, info, runs>>
      /\ \/ Statement(tables) \/ NoData
         \/ ~aborted /\ Upset /\ written' = tables /\ UNCHANGED <<stored, aborted>>
  BY Zenon DEF EtlInv, OhlcStep, Step
<1>2. written \in Tables /\ bar \in 0..2 /\ bar # 0
  BY <1>1 DEF EtlTypeOK, Tables, EtlInv
<1>3. /\ tables \in Tables /\ tables.ohlc = bar /\ tables.orders = written.orders
      /\ tables.snapshots = written.snapshots /\ tables.deals = written.deals
  BY <1>2 DEF Tables
<1>4. /\ stored' = stored /\ written' \in Tables
      /\ aborted' \in BOOLEAN /\ calm' \in BOOLEAN /\ upsets' \in 0..MaxUpsets
      /\ calm' => ~aborted' /\ written' = tables /\ calm
  BY <1>1, <1>3, StatementKeeps
<1>5. EtlTypeOK'
  BY <1>1, <1>4 DEF EtlTypeOK
<1>6. ASSUME calm' PROVE Taken'
  <2>1. calm /\ Taken /\ written' = tables
    BY <1>1, <1>4, <1>6 DEF EtlInv
  <2>2. stored' = stored /\ active' = active
    BY <1>1, <1>4
  <2> QED BY <1>1, <1>2, <1>3, <2>1, <2>2 DEF Taken, RowsOf, RowOf
<1> QED BY <1>1, <1>5, <1>6 DEF EtlInv

LEMMA EtlInduction == EtlInv /\ [EtlNext]_etlVars => EtlInv'
<1> SUFFICES ASSUME EtlInv, [EtlNext]_etlVars PROVE EtlInv'
  OBVIOUS
<1> USE DEF EtlInv, EtlTypeOK
<1>1. CASE Run
  <2>1. EtlTypeOK'
    BY <1>1, EtlBounds DEF Run
  <2>2. at' = "account" /\ written' = stored /\ stored' = stored /\ csvBar' # 0
    BY <1>1 DEF Run
  <2> QED BY <2>1, <2>2 DEF Taken
<1>2. CASE Commit
  BY <1>2 DEF Commit, Step
<1>3. CASE Killed
  BY <1>3, UpsetTyped DEF Killed
<1>4. ASSUME NEW a \in Logins, SwitchLogin(a) PROVE EtlInv'
  BY <1>4, UpsetTyped DEF SwitchLogin
<1>5. CASE ReviseCsv
  <2>1. UNCHANGED <<active, at, info, stored, written, aborted, calm, runs, upsets>>
        /\ csvBar' = 2
    BY <1>5 DEF ReviseCsv
  <2>2. Taken => Taken'
    BY <2>1 DEF Taken, RowsOf, RowOf
  <2> QED BY <2>1, <2>2
<1>6. CASE UNCHANGED etlVars
  BY <1>6 DEF etlVars, Taken, RowsOf, RowOf
<1> QED BY <1>1, <1>2, <1>3, <1>4, <1>5, <1>6,
           AccountTaken, DealsTaken, OrdersTaken, OhlcTaken DEF EtlNext

(* main of trade_etl.py stores all of a run in which nothing failed and    *)
(* the account stayed: a snapshot, every deal and order of the account     *)
(* with its data, new rows under its login, and a bar, the first imported. *)
THEOREM WholeRuns == EtlSpec => []EtlTypeOK /\ TablesHoldWholeRuns
<1>1. EtlSpec => []EtlInv
  BY EtlStart, EtlInduction, PTL DEF EtlSpec
<1>2. EtlInv /\ [EtlNext]_etlVars =>
        [at = "commit" /\ at' = "ended" /\ calm' => WholeRun(stored, stored')]_etlVars
  <2> SUFFICES ASSUME EtlInv, EtlNext, at = "commit", at' = "ended", calm'
               PROVE  WholeRun(stored, stored')
    OBVIOUS
  <2>1. ~Killed /\ \A a \in Logins : ~SwitchLogin(a)
    BY DEF Killed, SwitchLogin, Upset
  <2>2. Commit
    BY <2>1 DEF EtlNext, Run, ReviseCsv, AccountStep, DealsStep, OrdersStep, OhlcStep, Step
  <2>3. calm /\ ~aborted /\ Taken /\ stored' = written
    BY <2>2 DEF Commit, EtlInv, EtlTypeOK
  <2>4. /\ stored'.snapshots = stored.snapshots \cup {active}
        /\ stored'.deals = RowsOf(stored.deals, DealsOf[active])
        /\ stored'.orders = RowsOf(stored.orders, OrdersOf[active])
        /\ stored'.ohlc = stored.ohlc \/ stored.ohlc = 0
        /\ stored'.ohlc # 0
    BY <2>3 DEF Taken
  <2> QED BY <2>4 DEF WholeRun, RowsOf, RowOf
<1>3. EtlInv => EtlTypeOK BY DEF EtlInv
<1> QED BY <1>1, <1>2, <1>3, PTL DEF EtlSpec, TablesHoldWholeRuns

-----------------------------------------------------------------------------
(* Gap verification.  Bars are series; what matters of them is which times *)
(* they have.                                                              *)

LEMMA SeriesAre ==
  ASSUME NEW b
  PROVE  b \in Series <=> /\ DOMAIN b \subseteq Moments
                          /\ b = [t \in DOMAIN b |-> b[t]]
                          /\ \A t \in DOMAIN b : b[t] \in 0..1
<1>1. ASSUME b \in Series
      PROVE  /\ DOMAIN b \subseteq Moments
             /\ b = [t \in DOMAIN b |-> b[t]]
             /\ \A t \in DOMAIN b : b[t] \in 0..1
  <2>1. PICK ts \in SUBSET Moments : b \in [ts -> 0..1]
    BY <1>1 DEF Series
  <2> QED BY <2>1
<1>2. ASSUME DOMAIN b \subseteq Moments, b = [t \in DOMAIN b |-> b[t]],
             \A t \in DOMAIN b : b[t] \in 0..1
      PROVE  b \in Series
  <2>1. b \in [DOMAIN b -> 0..1]
    BY <1>2
  <2> QED BY <1>2, <2>1 DEF Series
<1> QED BY <1>1, <1>2

LEMMA Merged ==
  ASSUME NEW new \in Series, NEW old \in Series
  PROVE  Over(new, old) \in Series /\ DOMAIN Over(new, old) = DOMAIN new \cup DOMAIN old
<1>1. DOMAIN Over(new, old) = DOMAIN new \cup DOMAIN old
  BY DEF Over
<1>2. \A x \in DOMAIN Over(new, old) :
        Over(new, old)[x] = IF x \in DOMAIN new THEN new[x] ELSE old[x]
  BY DEF Over
<1>3. Over(new, old) = [x \in DOMAIN Over(new, old) |-> Over(new, old)[x]]
  BY DEF Over
<1>4. /\ DOMAIN new \subseteq Moments /\ DOMAIN old \subseteq Moments
      /\ \A t \in DOMAIN new : new[t] \in 0..1
      /\ \A t \in DOMAIN old : old[t] \in 0..1
  BY SeriesAre
<1>5. DOMAIN Over(new, old) \subseteq Moments
  BY <1>1, <1>4
<1>6. \A t \in DOMAIN Over(new, old) : Over(new, old)[t] \in 0..1
  BY <1>1, <1>2, <1>4
<1>7. Over(new, old) \in Series
  BY <1>3, <1>5, <1>6, SeriesAre
<1> QED BY <1>1, <1>7

LEMMA Cut ==
  ASSUME NEW bs \in Series, NEW ts
  PROVE  Part(bs, ts) \in Series /\ DOMAIN Part(bs, ts) = DOMAIN bs \cap ts
<1>1. DOMAIN Part(bs, ts) = DOMAIN bs \cap ts
  BY DEF Part
<1>2. /\ Part(bs, ts) = [t \in DOMAIN Part(bs, ts) |-> Part(bs, ts)[t]]
      /\ \A t \in DOMAIN Part(bs, ts) : Part(bs, ts)[t] = bs[t]
  BY DEF Part
<1>3. DOMAIN bs \subseteq Moments /\ \A t \in DOMAIN bs : bs[t] \in 0..1
  BY SeriesAre
<1>4. /\ DOMAIN Part(bs, ts) \subseteq Moments
      /\ \A t \in DOMAIN Part(bs, ts) : Part(bs, ts)[t] \in 0..1
  BY <1>1, <1>2, <1>3
<1>5. Part(bs, ts) \in Series
  BY <1>2, <1>4, SeriesAre
<1> QED BY <1>1, <1>5

LEMMA Empty == NoSeries \in Series /\ DOMAIN NoSeries = {}
<1>1. DOMAIN NoSeries = {} /\ NoSeries = [t \in DOMAIN NoSeries |-> NoSeries[t]]
  BY DEF NoSeries
<1> QED BY <1>1, SeriesAre

LEMMA HolesOf ==
  ASSUME NEW bs \in Series, NEW h
  PROVE  h \in Holes(bs) <=>
           /\ h \in (DOMAIN bs) \X (DOMAIN bs) /\ h[1] + 1 < h[2]
           /\ DOMAIN bs \cap Inside(h) = {}
BY DEF Holes

LEMMA Marked ==
  ASSUME NEW bs \in Series, NEW h \in Holes(bs)
  PROVE  /\ Signature(bs, h) \in Marks
         /\ h = <<Signature(bs, h).left, Signature(bs, h).right>>
         /\ h[1] \in Moments /\ h[2] \in Moments /\ h[1] + 1 < h[2]
         /\ h[1] = Signature(bs, h).left /\ h[2] = Signature(bs, h).right
<1>1. h \in (DOMAIN bs) \X (DOMAIN bs) /\ h[1] + 1 < h[2]
  BY DEF Holes
<1>2. DOMAIN bs \subseteq Moments /\ \A t \in DOMAIN bs : bs[t] \in 0..1
  BY SeriesAre
<1>3. /\ h[1] \in Moments /\ h[2] \in Moments /\ h = <<h[1], h[2]>>
      /\ bs[h[1]] \in 0..1 /\ bs[h[2]] \in 0..1
  BY <1>1, <1>2
<1>4. <<bs[h[1]], bs[h[2]]>> \in (0..1) \X (0..1)
  BY <1>3
<1>5. Signature(bs, h) \in Marks
  BY <1>3, <1>4 DEF Marks, Signature
<1>6. Signature(bs, h).left = h[1] /\ Signature(bs, h).right = h[2]
  BY DEF Signature
<1> QED BY <1>1, <1>3, <1>5, <1>6

LEMMA SignaturesAre ==
  ASSUME NEW bs \in Series
  PROVE  /\ Signatures(bs) \subseteq Marks
         /\ \A s \in Signatures(bs) : <<s.left, s.right>> \in Holes(bs)
<1>1. ASSUME NEW s \in Signatures(bs)
      PROVE  s \in Marks /\ <<s.left, s.right>> \in Holes(bs)
  <2>1. PICK h \in Holes(bs) : s = Signature(bs, h)
    BY <1>1 DEF Signatures
  <2> QED BY <2>1, Marked
<1> QED BY <1>1

LEMMA FilledHole ==
  ASSUME NEW bs, NEW s
  PROVE  Fills(bs, s) <=> \E t \in DOMAIN bs : t \in Inside(<<s.left, s.right>>)
BY DEF Fills

LEMMA InsideHole ==
  ASSUME NEW h, h[1] \in Int, h[2] \in Int, NEW t \in Int
  PROVE  t \in Inside(h) <=> h[1] < t /\ t < h[2]
BY DEF Inside

(* Two holes of one series are the same or do not overlap. *)
LEMMA HolesApart ==
  ASSUME NEW bs \in Series, NEW g \in Holes(bs), NEW h \in Holes(bs)
  PROVE  g[1] < h[2] /\ h[1] < g[2] => g[1] = h[1] /\ g[2] = h[2] /\ g = h
<1>1. /\ g \in (DOMAIN bs) \X (DOMAIN bs) /\ h \in (DOMAIN bs) \X (DOMAIN bs)
      /\ g[1] + 1 < g[2] /\ h[1] + 1 < h[2]
      /\ DOMAIN bs \cap Inside(g) = {} /\ DOMAIN bs \cap Inside(h) = {}
  BY DEF Holes
<1>2. DOMAIN bs \subseteq Int
  BY SeriesAre DEF Moments
<1>3. /\ g[1] \in DOMAIN bs /\ g[2] \in DOMAIN bs /\ h[1] \in DOMAIN bs /\ h[2] \in DOMAIN bs
      /\ g[1] \in Int /\ g[2] \in Int /\ h[1] \in Int /\ h[2] \in Int
  BY <1>1, <1>2
<1>4. \A t \in DOMAIN bs : ~ (g[1] < t /\ t < g[2]) /\ ~ (h[1] < t /\ t < h[2])
  BY <1>1, <1>2, <1>3 DEF Inside
<1>5. g[1] < h[2] /\ h[1] < g[2] => g[1] = h[1] /\ g[2] = h[2]
  BY <1>1, <1>3, <1>4
<1>6. g = <<g[1], g[2]>> /\ h = <<h[1], h[2]>>
  BY <1>1
<1> QED BY <1>5, <1>6

Rounds == [pc : {"idle", "verify", "write"}, frame : Series, at : 0..LastTime,
           calls : 0..CallBudget, found : Series, active : SUBSET Marks]

LEMMA NoRoundTyped ==
  /\ NoRound \in Rounds /\ NoRound.pc = "idle" /\ NoRound.frame = NoSeries
  /\ NoRound.at = 0 /\ NoRound.calls = 0 /\ NoRound.found = NoSeries
  /\ NoRound.active = {}
<1>1. 0 \in 0..LastTime /\ 0 \in 0..CallBudget
  BY GapAssumption
<1>2. NoSeries \in Series /\ {} \in SUBSET Marks
  BY Empty
<1> QED BY <1>1, <1>2 DEF NoRound, Rounds

LEMMA HoleIs ==
  ASSUME GapsTypeOK, Left # {}
  PROVE  /\ Hole \in Holes(round.frame) /\ Hole[1] >= round.at
         /\ \A other \in Left : Hole[1] <= other[1]
         /\ Asked \in Marks /\ Hole = <<Asked.left, Asked.right>>
         /\ Asked.left = Hole[1] /\ Asked.right = Hole[2]
         /\ Hole[1] \in Moments /\ Hole[2] \in Moments /\ Hole[1] + 1 < Hole[2]
<1> DEFINE T == {h[1] : h \in Left}
<1>1. round.frame \in Series /\ Moments \subseteq Nat
  BY DEF GapsTypeOK, Moments
<1>2. \A h \in Left : h \in Holes(round.frame) /\ h[1] >= round.at
  BY DEF Left
<1>3. \A h \in Left : h[1] \in Moments
  BY <1>1, <1>2, Marked
<1>4. T \in SUBSET Nat /\ T # {}
  BY <1>1, <1>3
<1>5. PICK x \in T : \A y \in T : x <= y
  BY <1>4, Least
<1>6. \E h \in Left : \A other \in Left : h[1] <= other[1]
  BY <1>5
<1>7. Hole \in Left /\ \A other \in Left : Hole[1] <= other[1]
  BY <1>6, Zenon DEF Hole
<1> HIDE DEF Hole
<1>8. Hole \in Holes(round.frame) /\ Hole[1] >= round.at
  BY <1>2, <1>7
<1> QED BY <1>1, <1>7, <1>8, Marked DEF Asked

Known(h) == DOMAIN truth \cap Inside(h) = {} \/ h \in unsaved
Span(s)  == <<s.left, s.right>>

(* What the broker has between the two sides of the hole is in this round. *)
Answered(found, h) == DOMAIN truth \cap h[1]..h[2] \subseteq DOMAIN found

StagedInv ==
  /\ {1, LastTime} \subseteq shown
  /\ \A s \in DOMAIN staged : DOMAIN staged[s] = DOMAIN truth \cap s.left..s.right

(* The holes before round.at are explained, and what was found lies in     *)
(* holes whose whole response was.                                         *)
VerifyInv ==
  /\ {1, LastTime} \subseteq DOMAIN round.frame
  /\ \A h \in Holes(round.frame) : h[1] < round.at => Known(h) \/ Answered(round.found, h)
  /\ \A t \in DOMAIN round.found \ DOMAIN round.frame :
       \E h \in Holes(round.frame) : t \in Inside(h) /\ Answered(round.found, h)
  /\ \A s \in round.active : Known(Span(s)) \/ Fills(round.found, s)

RoundInv ==
  /\ round.pc # "idle" => DOMAIN file \subseteq DOMAIN round.frame
  /\ round.pc = "verify" => VerifyInv
  /\ round.pc = "write" => \A h \in Holes(round.frame) : Known(h)

(* A certified hole that the broker has bars for has been filled: in the   *)
(* file, or in the one to be written.                                      *)
CertsInv ==
  \A s \in certs :
    \/ Known(Span(s))
    \/ Fills(file, s)
    \/ round.pc = "write" /\ Fills(round.frame, s)

GapsInv == GapsTypeOK /\ StagedInv /\ RoundInv /\ CertsInv /\ HolesAreTrue

LEMMA TypeGives ==
  ASSUME GapsTypeOK
  PROVE  /\ truth \in Series /\ shown \subseteq DOMAIN truth /\ file \in Series
         /\ DOMAIN staged \subseteq Marks /\ (\A s \in DOMAIN staged : staged[s] \in Series)
         /\ certs \subseteq Marks /\ unsaved \subseteq Moments \X Moments
         /\ round \in Rounds /\ round.frame \in Series /\ round.found \in Series
         /\ round.active \in SUBSET Marks /\ round.calls \in 0..CallBudget
         /\ round.at \in 0..LastTime /\ mishaps \in 0..MaxMishaps
         /\ Moments \subseteq 0..LastTime /\ Moments \subseteq Nat
BY GapAssumption DEF GapsTypeOK, Rounds, Moments

(* What each way of explaining a hole does to the round *)
LEMMA Explained ==
  ASSUME GapsTypeOK, round.pc = "verify", Left # {}
  PROVE  /\ UseStaged =>
              /\ round' \in Rounds /\ round'.pc = "verify" /\ round'.frame = round.frame
              /\ round'.at = Hole[2]
              /\ round'.active = round.active \cup {Asked}
              /\ DOMAIN round'.found = DOMAIN staged[Asked] \cup DOMAIN round.found
         /\ UseCertificate =>
              /\ round' \in Rounds /\ round'.pc = "verify" /\ round'.frame = round.frame
              /\ round'.at = Hole[2]
              /\ round'.active = round.active \cup {Asked}
              /\ round'.found = round.found
         /\ AskBroker =>
              /\ round' \in Rounds /\ round'.pc = "verify" /\ round'.frame = round.frame
              /\ round'.at = Hole[2]
              /\ round'.active = round.active \cup {Asked} \cup Signatures(Response)
              /\ DOMAIN round'.found = DOMAIN Response \cup DOMAIN round.found
              /\ Response \in Series /\ DOMAIN Response = DOMAIN truth \cap Hole[1]..Hole[2]
<1>1. Asked \in Marks /\ Hole[2] \in 0..LastTime
  BY HoleIs, TypeGives
<1>2. ASSUME UseStaged
      PROVE  /\ round' \in Rounds /\ round'.pc = "verify" /\ round'.frame = round.frame
             /\ round'.at = Hole[2]
             /\ round'.active = round.active \cup {Asked}
             /\ DOMAIN round'.found = DOMAIN staged[Asked] \cup DOMAIN round.found
  <2> DEFINE f == Over(staged[Asked], round.found)
             a == round.active \cup {Asked}
  <2>1. /\ f \in Series /\ DOMAIN f = DOMAIN staged[Asked] \cup DOMAIN round.found
    BY <1>2, TypeGives, Merged DEF UseStaged
  <2>2. a \in SUBSET Marks
    BY <1>1, TypeGives
  <2>3. round' = [round EXCEPT !.at = Hole[2], !.active = a, !.found = f]
    BY <1>2 DEF UseStaged
  <2> HIDE DEF f, a
  <2>9. round \in Rounds BY TypeGives
  <2>4. /\ round' \in Rounds /\ round'.pc = round.pc /\ round'.frame = round.frame
        /\ round'.at = Hole[2] /\ round'.active = a /\ round'.found = f
    BY <1>1, <2>1, <2>2, <2>3, <2>9 DEF Rounds
  <2> QED BY <2>1, <2>4 DEF a
<1>3. ASSUME UseCertificate
      PROVE  /\ round' \in Rounds /\ round'.pc = "verify" /\ round'.frame = round.frame
             /\ round'.at = Hole[2]
             /\ round'.active = round.active \cup {Asked}
             /\ round'.found = round.found
  <2> DEFINE a == round.active \cup {Asked}
  <2>1. a \in SUBSET Marks
    BY <1>1, TypeGives
  <2>2. round' = [round EXCEPT !.at = Hole[2], !.active = a]
    BY <1>3 DEF UseCertificate
  <2> HIDE DEF a
  <2>9. round \in Rounds BY TypeGives
  <2>3. /\ round' \in Rounds /\ round'.pc = round.pc /\ round'.frame = round.frame
        /\ round'.at = Hole[2] /\ round'.active = a /\ round'.found = round.found
    BY <1>1, <2>1, <2>2, <2>9 DEF Rounds
  <2> QED BY <2>3 DEF a
<1>4. ASSUME AskBroker
      PROVE  /\ round' \in Rounds /\ round'.pc = "verify" /\ round'.frame = round.frame
             /\ round'.at = Hole[2]
             /\ round'.active = round.active \cup {Asked} \cup Signatures(Response)
             /\ DOMAIN round'.found = DOMAIN Response \cup DOMAIN round.found
             /\ Response \in Series /\ DOMAIN Response = DOMAIN truth \cap Hole[1]..Hole[2]
  <2> DEFINE f == Over(Response, round.found)
             a == round.active \cup {Asked} \cup Signatures(Response)
             c == round.calls + 1
  <2>1. Response \in Series /\ DOMAIN Response = DOMAIN truth \cap Hole[1]..Hole[2]
    BY TypeGives, Cut DEF Response
  <2>2. f \in Series /\ DOMAIN f = DOMAIN Response \cup DOMAIN round.found
    BY <2>1, TypeGives, Merged
  <2>3. a \in SUBSET Marks
    BY <1>1, <2>1, TypeGives, SignaturesAre
  <2>4. c \in 0..CallBudget
    BY <1>4, TypeGives, GapAssumption DEF AskBroker
  <2>5. round' = [round EXCEPT !.at = Hole[2], !.calls = c, !.active = a, !.found = f]
    BY <1>4 DEF AskBroker
  <2> HIDE DEF f, a, c
  <2>9. round \in Rounds BY TypeGives
  <2>6. /\ round' \in Rounds /\ round'.pc = round.pc /\ round'.frame = round.frame
        /\ round'.at = Hole[2] /\ round'.active = a /\ round'.found = f
    BY <1>1, <2>2, <2>3, <2>4, <2>5, <2>9 DEF Rounds
  <2> QED BY <2>1, <2>2, <2>6 DEF a
<1> QED BY <1>2, <1>3, <1>4

LEMMA VerifyFails ==
  ASSUME GapsInv, Abandon, UNCHANGED <<truth, shown, file, certs>>,
         round.pc = "verify", unsaved' = unsaved, mishaps' \in 0..MaxMishaps,
         DOMAIN staged' \subseteq DOMAIN staged,
         \A s \in DOMAIN staged' : staged'[s] = staged[s]
  PROVE  GapsInv'
<1>1. ready' = FALSE /\ round' = NoRound
  BY DEF Abandon
<1>2. GapsTypeOK'
  <2>1. round' \in Rounds
    BY <1>1, NoRoundTyped
  <2>2. round' \in [pc : {"idle", "verify", "write"}, frame : Series, at : 0..LastTime,
                    calls : 0..CallBudget, found : Series, active : SUBSET Marks]
    BY <2>1 DEF Rounds
  <2>3. DOMAIN staged' \subseteq Marks /\ \A s \in DOMAIN staged' : staged'[s] \in Series
    BY TypeGives DEF GapsInv
  <2>4. round'.pc = "write" => certs' = round'.active
    BY <1>1, NoRoundTyped
  <2>5. /\ truth' \in Series /\ shown' \subseteq DOMAIN truth' /\ file' \in Series
        /\ ready' \in BOOLEAN /\ certs' \subseteq Marks /\ unsaved' \subseteq Moments \X Moments
    BY <1>1, TypeGives DEF GapsInv
  <2> QED BY <2>2, <2>3, <2>4, <2>5 DEF GapsTypeOK
<1>3. StagedInv'
  BY DEF GapsInv, StagedInv
<1>4. RoundInv'
  BY <1>1, NoRoundTyped DEF RoundInv
<1>5. CertsInv'
  BY DEF GapsInv, CertsInv, Known, Fills
<1>6. HolesAreTrue'
  BY <1>1 DEF HolesAreTrue
<1> QED BY <1>2, <1>3, <1>4, <1>5, <1>6 DEF GapsInv

(* Passing a hole keeps what the round knows. *)
LEMMA HolePassed ==
  ASSUME GapsInv, round.pc = "verify", Left # {},
         UNCHANGED <<truth, shown, file, ready, unsaved, mishaps>>,
         round' \in Rounds, round'.pc = "verify", round'.frame = round.frame,
         round'.at = Hole[2],
         DOMAIN round.found \subseteq DOMAIN round'.found,
         \A t \in DOMAIN round'.found \ DOMAIN round.found :
           t \in Hole[1]..Hole[2] /\ Answered(round'.found, Hole),
         Known(Hole) \/ Answered(round'.found, Hole),
         \A s \in round'.active \ round.active : Known(Span(s)) \/ Fills(round'.found, s)
  PROVE  RoundInv' /\ HolesAreTrue'
<1>1. GapsTypeOK /\ VerifyInv /\ DOMAIN file \subseteq DOMAIN round.frame
  BY DEF GapsInv, RoundInv
<1>2. \A h : Answered(round.found, h) => Answered(round'.found, h)
  BY DEF Answered
<1>3. /\ Hole \in Holes(round.frame) /\ Hole[1] >= round.at
      /\ \A other \in Left : Hole[1] <= other[1]
      /\ Hole[1] \in Moments /\ Hole[2] \in Moments /\ Hole[1] + 1 < Hole[2]
  BY <1>1, HoleIs
<1>4. round.frame \in Series /\ Moments \subseteq Nat /\ round.at \in Nat
  BY <1>1, TypeGives
<1>0. Hole[1] \in Nat /\ Hole[2] \in Nat /\ Hole[1] < Hole[2]
  <2>1. Hole[1] \in Moments /\ Hole[2] \in Moments /\ Hole[1] + 1 < Hole[2] /\ Moments \subseteq Nat
    BY <1>3, <1>4
  <2>2. Hole[1] \in Nat /\ Hole[2] \in Nat
    BY <2>1, Zenon
  <2> QED BY <2>1, <2>2
<1>5. ASSUME NEW h \in Holes(round'.frame), h[1] < round'.at
      PROVE  Known(h) \/ Answered(round'.found, h)
  <2>1. h \in Holes(round.frame) /\ h[1] < Hole[2]
    BY <1>5
  <2>2. h[1] \in Nat /\ h[2] \in Nat /\ h[1] < h[2]
    <3>1. h[1] \in Moments /\ h[2] \in Moments /\ h[1] + 1 < h[2]
      BY <2>1, <1>4, Marked
    <3>2. h[1] \in Nat /\ h[2] \in Nat
      BY <3>1, <1>4, Zenon
    <3> QED BY <3>1, <3>2
  <2>3. CASE h[1] < round.at
    BY <2>1, <2>3, <1>1, <1>2 DEF VerifyInv
  <2>4. CASE h[1] >= round.at
    <3>1. Hole[1] <= h[1]
      BY <2>1, <2>4, <1>3 DEF Left
    <3>2. Hole[1] < h[2] /\ h[1] < Hole[2]
      BY <2>1, <2>2, <3>1, <1>0
    <3>3. Hole = h
      <4>1. round.frame \in Series /\ Hole \in Holes(round.frame) /\ h \in Holes(round.frame)
        BY <2>1, <1>3, <1>4
      <4>2. Hole[1] < h[2] /\ h[1] < Hole[2] => Hole = h
        BY <4>1, HolesApart
      <4> QED BY <3>2, <4>2
    <3> QED BY <3>3
  <2> QED BY <2>2, <2>3, <2>4, <1>4
<1>6. ASSUME NEW t \in DOMAIN round'.found \ DOMAIN round'.frame
      PROVE  \E h \in Holes(round'.frame) : t \in Inside(h) /\ Answered(round'.found, h)
  <2>1. CASE t \in DOMAIN round.found
    BY <2>1, <1>1, <1>2, <1>6 DEF VerifyInv
  <2>2. CASE t \notin DOMAIN round.found
    <3>1. t \in Hole[1]..Hole[2] /\ Answered(round'.found, Hole)
      BY <2>2, <1>6
    <3>2. Hole[1] \in DOMAIN round.frame /\ Hole[2] \in DOMAIN round.frame
      BY <1>3 DEF Holes
    <3>3. t # Hole[1] /\ t # Hole[2]
      BY <3>2, <1>6
    <3>4. Hole[1] \in Int /\ Hole[2] \in Int /\ t \in Int
      BY <3>1, <1>0
    <3>5. t \in Inside(Hole)
      BY <3>1, <3>3, <3>4 DEF Inside
    <3> QED BY <3>1, <3>5, <1>3
  <2> QED BY <2>1, <2>2
<1>7. ASSUME NEW s \in round'.active
      PROVE  Known(Span(s)) \/ Fills(round'.found, s)
  <2>1. CASE s \in round.active
    <3>1. Known(Span(s)) \/ Fills(round.found, s)
      BY <2>1, <1>1 DEF VerifyInv
    <3>2. Fills(round.found, s) => Fills(round'.found, s)
      BY DEF Fills
    <3> QED BY <3>1, <3>2, <1>2 DEF Span
  <2>2. CASE s \notin round.active
    BY <2>2, <1>7, <1>2 DEF Span
  <2> QED BY <2>1, <2>2
<1>8. VerifyInv'
  <2>1. {1, LastTime} \subseteq DOMAIN round'.frame
    BY <1>1 DEF VerifyInv
  <2> QED BY <2>1, <1>5, <1>6, <1>7 DEF VerifyInv, Span, Known, Answered
<1>9. RoundInv'
  BY <1>1, <1>8 DEF RoundInv
<1>10. HolesAreTrue'
  BY DEF GapsInv, HolesAreTrue, Holes
<1> QED BY <1>9, <1>10

LEMMA TypeBuilt ==
  ASSUME truth' \in Series, shown' \subseteq DOMAIN truth', file' \in Series, ready' \in BOOLEAN,
         DOMAIN staged' \subseteq Marks, \A s \in DOMAIN staged' : staged'[s] \in Series,
         certs' \subseteq Marks, unsaved' \subseteq Moments \X Moments, round' \in Rounds,
         mishaps' \in 0..MaxMishaps, round'.pc = "write" => certs' = round'.active
  PROVE  GapsTypeOK'
BY DEF GapsTypeOK, Rounds

LEMMA StagedUsed ==
  ASSUME GapsInv, round.pc = "verify", Left # {}, UseStaged,
         UNCHANGED <<truth, shown, file, unsaved, mishaps>>
  PROVE  GapsInv'
<1>1. GapsTypeOK /\ StagedInv /\ UNCHANGED <<ready, staged, certs>> /\ Asked \in DOMAIN staged
  BY DEF GapsInv, UseStaged
<1>2. /\ round' \in Rounds /\ round'.pc = "verify" /\ round'.frame = round.frame
      /\ round'.at = Hole[2]
      /\ round'.active = round.active \cup {Asked}
      /\ DOMAIN round'.found = DOMAIN staged[Asked] \cup DOMAIN round.found
  BY <1>1, Explained
<1>3. Asked.left = Hole[1] /\ Asked.right = Hole[2]
  BY <1>1, HoleIs
<1>4. DOMAIN staged[Asked] = DOMAIN truth \cap Hole[1]..Hole[2]
  BY <1>1, <1>3 DEF StagedInv
<1>5. Answered(round'.found, Hole)
  BY <1>2, <1>4 DEF Answered
<1>6. Known(Span(Asked)) \/ Fills(round'.found, Asked)
  <2>1. \A t \in Inside(Hole) : t \in Hole[1]..Hole[2]
    <3>1. Hole[1] \in Nat /\ Hole[2] \in Nat
      BY <1>1, HoleIs, TypeGives
    <3> QED BY <3>1 DEF Inside
  <2>2. Span(Asked) = <<Hole[1], Hole[2]>> /\ Inside(Span(Asked)) = Inside(Hole)
    BY <1>3 DEF Span, Inside
  <2>3. DOMAIN truth \cap Inside(Hole) \subseteq DOMAIN round'.found
    BY <2>1, <1>2, <1>4
  <2> QED BY <2>2, <2>3 DEF Known, Fills, Span
<1>7. RoundInv' /\ HolesAreTrue'
  BY <1>1, <1>2, <1>4, <1>5, <1>6, HolePassed
<1>8. GapsTypeOK'
  BY <1>1, <1>2, TypeGives, TypeBuilt DEF GapsTypeOK
<1>9. StagedInv' /\ CertsInv'
  BY <1>1, <1>2 DEF GapsInv, StagedInv, CertsInv, Known, Fills
<1> QED BY <1>7, <1>8, <1>9 DEF GapsInv

LEMMA CertificateUsed ==
  ASSUME GapsInv, round.pc = "verify", Left # {}, UseCertificate,
         UNCHANGED <<truth, shown, file, unsaved, mishaps>>
  PROVE  GapsInv'
<1>1. GapsTypeOK /\ UNCHANGED <<ready, staged, certs>> /\ Asked \in certs
  BY DEF GapsInv, UseCertificate
<1>2. /\ round' \in Rounds /\ round'.pc = "verify" /\ round'.frame = round.frame
      /\ round'.at = Hole[2]
      /\ round'.active = round.active \cup {Asked}
      /\ round'.found = round.found
  BY <1>1, Explained
<1>3. Hole = <<Asked.left, Asked.right>> /\ Hole \in Holes(round.frame)
  BY <1>1, HoleIs
<1>4. Known(Hole)
  <2>1. Known(Span(Asked)) \/ Fills(file, Asked)
    BY <1>1 DEF GapsInv, CertsInv
  <2>2. DOMAIN file \subseteq DOMAIN round.frame
    BY DEF GapsInv, RoundInv
  <2>3. ~ Fills(file, Asked)
    BY <1>3, <2>2 DEF Fills, Holes
  <2> QED BY <2>1, <2>3, <1>3 DEF Span
<1>5. Known(Span(Asked))
  BY <1>3, <1>4 DEF Span
<1>6. RoundInv' /\ HolesAreTrue'
  BY <1>1, <1>2, <1>4, <1>5, HolePassed
<1>7. GapsTypeOK'
  BY <1>1, <1>2, TypeGives, TypeBuilt DEF GapsTypeOK
<1>8. StagedInv' /\ CertsInv'
  BY <1>1, <1>2 DEF GapsInv, StagedInv, CertsInv, Known, Fills
<1> QED BY <1>6, <1>7, <1>8 DEF GapsInv

(* A response has all the broker has between its sides, so its holes are   *)
(* the broker's.                                                           *)
LEMMA ResponseHoles ==
  ASSUME GapsTypeOK, Left # {}, NEW s \in Signatures(Response),
         Response \in Series, DOMAIN Response = DOMAIN truth \cap Hole[1]..Hole[2]
  PROVE  DOMAIN truth \cap Inside(Span(s)) = {}
<1>1. Span(s) \in Holes(Response)
  BY SignaturesAre DEF Span
<1>2. /\ s.left \in DOMAIN Response /\ s.right \in DOMAIN Response
      /\ DOMAIN Response \cap Inside(Span(s)) = {}
  BY <1>1 DEF Holes, Span
<1>3. /\ s.left \in Hole[1]..Hole[2] /\ s.right \in Hole[1]..Hole[2]
      /\ Hole[1] \in Nat /\ Hole[2] \in Nat
  <2>1. Hole[1] \in Nat /\ Hole[2] \in Nat
    BY HoleIs, TypeGives
  <2> QED BY <1>2, <2>1
<1>4. \A t \in Inside(Span(s)) : t \in Hole[1]..Hole[2]
  BY <1>3 DEF Inside, Span
<1> QED BY <1>2, <1>4

LEMMA BrokerAsked ==
  ASSUME GapsInv, round.pc = "verify", Left # {}, AskBroker,
         UNCHANGED <<truth, shown, file, unsaved, mishaps>>
  PROVE  GapsInv'
<1>1. GapsTypeOK /\ ready' = ready /\ certs' = certs \cup Signatures(Response)
  BY DEF GapsInv, AskBroker
<1>2. /\ round' \in Rounds /\ round'.pc = "verify" /\ round'.frame = round.frame
      /\ round'.at = Hole[2]
      /\ round'.active = round.active \cup {Asked} \cup Signatures(Response)
      /\ DOMAIN round'.found = DOMAIN Response \cup DOMAIN round.found
      /\ Response \in Series /\ DOMAIN Response = DOMAIN truth \cap Hole[1]..Hole[2]
  BY <1>1, Explained
<1>3. /\ Asked.left = Hole[1] /\ Asked.right = Hole[2] /\ Asked \in Marks
      /\ Hole[1] \in Nat /\ Hole[2] \in Nat
  BY <1>1, HoleIs, TypeGives
<1>4. Answered(round'.found, Hole)
  BY <1>2 DEF Answered
<1>5. Known(Span(Asked)) \/ Fills(round'.found, Asked)
  <2>1. \A t \in Inside(Hole) : t \in Hole[1]..Hole[2]
    BY <1>3 DEF Inside
  <2>2. Inside(Span(Asked)) = Inside(Hole)
    BY <1>3 DEF Span, Inside
  <2>3. DOMAIN truth \cap Inside(Hole) \subseteq DOMAIN round'.found
    BY <2>1, <1>2
  <2> QED BY <2>2, <2>3 DEF Known, Fills, Span
<1>6. \A s \in Signatures(Response) : Known(Span(s))
  BY <1>1, <1>2, ResponseHoles DEF Known
<1>7. RoundInv' /\ HolesAreTrue'
  BY <1>1, <1>2, <1>4, <1>5, <1>6, HolePassed
<1>8. certs' \subseteq Marks
  BY <1>1, <1>2, TypeGives, SignaturesAre
<1>9. /\ DOMAIN staged' \subseteq Marks
      /\ \A s \in DOMAIN staged' :
           staged'[s] \in Series /\ DOMAIN staged'[s] = DOMAIN truth \cap s.left..s.right
  <2>0. /\ DOMAIN staged \subseteq Marks
        /\ \A s \in DOMAIN staged :
             staged[s] \in Series /\ DOMAIN staged[s] = DOMAIN truth \cap s.left..s.right
    BY <1>1, TypeGives DEF GapsInv, StagedInv
  <2>1. CASE staged' = staged
    BY <2>0, <2>1
  <2>2. CASE staged' = Over([s \in {Asked} |-> Response], staged)
    <3>1. DOMAIN staged' = {Asked} \cup DOMAIN staged
      BY <2>2 DEF Over
    <3>2. \A s \in DOMAIN staged' : staged'[s] = IF s = Asked THEN Response ELSE staged[s]
      BY <2>2 DEF Over
    <3> QED BY <3>1, <3>2, <2>0, <1>2, <1>3
  <2> QED BY <2>1, <2>2 DEF AskBroker
<1>10. GapsTypeOK'
  BY <1>1, <1>2, <1>8, <1>9, TypeGives, TypeBuilt DEF GapsTypeOK
<1>11. StagedInv'
  BY <1>9 DEF GapsInv, StagedInv
<1>12. CertsInv'
  <2>1. \A s \in certs : Known(Span(s)) \/ Fills(file, s)
    BY DEF GapsInv, CertsInv
  <2> QED BY <2>1, <1>1, <1>6 DEF CertsInv, Known, Fills, Span
<1> QED BY <1>7, <1>10, <1>11, <1>12 DEF GapsInv

LEMMA HoleTurn == ASSUME GapsInv, VerifyHole PROVE GapsInv'
<1>1. /\ round.pc = "verify" /\ Left # {}
      /\ UseStaged \/ UseCertificate \/ AskBroker \/ OutOfBudget
      /\ UNCHANGED <<truth, shown, file, unsaved, mishaps>>
  BY DEF VerifyHole
<1>2. CASE OutOfBudget
  <2>1. Abandon /\ UNCHANGED <<staged, certs>>
    BY <1>2 DEF OutOfBudget
  <2>2. mishaps' \in 0..MaxMishaps
    BY <1>1, TypeGives DEF GapsInv
  <2> QED BY <2>1, <2>2, <1>1, VerifyFails
<1> QED BY <1>1, <1>2, StagedUsed, CertificateUsed, BrokerAsked

LEMMA RoundBegins == ASSUME GapsInv, BeginRound PROVE GapsInv'
<1> DEFINE frame == Over(Part(truth, shown), file)
<1>1. /\ round.pc = "idle"
      /\ round' = [NoRound EXCEPT !.pc = "verify", !.frame = frame]
      /\ staged' = [s \in DOMAIN staged \cap Signatures(frame) |-> staged[s]]
      /\ UNCHANGED <<truth, shown, file, ready, certs, unsaved, mishaps>>
  BY DEF BeginRound
<1>2. GapsTypeOK /\ StagedInv
  BY DEF GapsInv
<1>3. frame \in Series /\ DOMAIN frame = shown \cup DOMAIN file
  <2>1. Part(truth, shown) \in Series /\ DOMAIN Part(truth, shown) = DOMAIN truth \cap shown
    BY <1>2, TypeGives, Cut
  <2>2. shown \subseteq DOMAIN truth /\ file \in Series
    BY <1>2, TypeGives
  <2> QED BY <2>1, <2>2, Merged
<1> HIDE DEF frame
<1>4. /\ round' \in Rounds /\ round'.pc = "verify" /\ round'.frame = frame /\ round'.at = 0
      /\ round'.found = NoSeries /\ round'.active = {}
  BY <1>1, <1>3, NoRoundTyped DEF Rounds
<1>5. /\ DOMAIN staged' \subseteq DOMAIN staged
      /\ \A s \in DOMAIN staged' : staged'[s] = staged[s]
  BY <1>1
<1>6. GapsTypeOK'
  BY <1>1, <1>2, <1>4, <1>5, TypeGives, TypeBuilt DEF GapsTypeOK
<1>7. StagedInv'
  BY <1>1, <1>2, <1>5 DEF StagedInv
<1>8. VerifyInv'
  <2>1. {1, LastTime} \subseteq DOMAIN round'.frame
    BY <1>2, <1>3, <1>4 DEF StagedInv
  <2>2. \A h \in Holes(round'.frame) : ~ (h[1] < round'.at)
    BY <1>3, <1>4, Marked, TypeGives, <1>2
  <2>3. DOMAIN round'.found = {}
    BY <1>4, Empty
  <2> QED BY <2>1, <2>2, <2>3, <1>4 DEF VerifyInv
<1>9. RoundInv'
  BY <1>1, <1>3, <1>4, <1>8 DEF RoundInv
<1>10. CertsInv'
  BY <1>1, <1>4 DEF GapsInv, CertsInv, Known, Fills
<1>11. HolesAreTrue'
  BY <1>1 DEF GapsInv, HolesAreTrue, Holes
<1> QED BY <1>6, <1>7, <1>9, <1>10, <1>11 DEF GapsInv

LEMMA Greatest ==
  ASSUME NEW S \in SUBSET Nat, S # {}, NEW n \in Nat, \A s \in S : s <= n
  PROVE  \E m \in S : \A s \in S : s <= m
<1>1. Max(S) \in S /\ \A s \in S : s <= Max(S)
  BY MaxIsGreatest
<1> QED BY <1>1

(* A hole of the merged series lies in one of the frame it was merged over. *)
LEMMA Around ==
  ASSUME NEW old \in Series, NEW new \in Series, {1, LastTime} \subseteq DOMAIN old,
         DOMAIN old \subseteq DOMAIN new, NEW g \in Holes(new)
  PROVE  \E h \in Holes(old) : h[1] <= g[1] /\ g[2] <= h[2]
<1> DEFINE L == {t \in DOMAIN old : t <= g[1]}
           R == {t \in DOMAIN old : g[2] <= t}
<1>1. /\ DOMAIN old \subseteq Nat /\ DOMAIN new \subseteq Nat
      /\ \A t \in DOMAIN new : 1 <= t /\ t <= LastTime
  BY SeriesAre, GapAssumption DEF Moments
<1>2. /\ g[1] \in DOMAIN new /\ g[2] \in DOMAIN new /\ g[1] + 1 < g[2]
      /\ DOMAIN new \cap Inside(g) = {}
  BY DEF Holes
<1>3. 1 \in L /\ LastTime \in R
  BY <1>1, <1>2
<1>4. L \in SUBSET Nat /\ R \in SUBSET Nat /\ g[1] \in Nat /\ g[2] \in Nat
  BY <1>1, <1>2
<1>5. PICK l \in L : \A t \in L : t <= l
  BY <1>3, <1>4, Greatest
<1>6. PICK r \in R : \A t \in R : r <= t
  BY <1>3, <1>4, Least
<1>7. /\ l \in DOMAIN old /\ r \in DOMAIN old /\ l \in Nat /\ r \in Nat
      /\ l <= g[1] /\ g[2] <= r
  BY <1>4, <1>5, <1>6
<1>8. ASSUME NEW t \in DOMAIN old PROVE ~ (l < t /\ t < r)
  <2>1. t \in Nat /\ t \in DOMAIN new
    BY <1>1
  <2>2. ~ (g[1] < t /\ t < g[2])
    BY <2>1, <1>2, <1>4 DEF Inside
  <2>3. t <= g[1] => t <= l
    BY <1>5, <1>8
  <2>4. g[2] <= t => r <= t
    BY <1>6, <1>8
  <2> QED BY <2>1, <2>2, <2>3, <2>4, <1>4, <1>7
<1>9. DOMAIN old \cap Inside(<<l, r>>) = {}
  BY <1>7, <1>8 DEF Inside
<1>10. l + 1 < r
  BY <1>2, <1>4, <1>7
<1>11. <<l, r>> \in Holes(old)
  BY <1>7, <1>9, <1>10 DEF Holes
<1> QED BY <1>7, <1>11

LEMMA RoundVerified == ASSUME GapsInv, EndVerification PROVE GapsInv'
<1> DEFINE frame == Over(round.found, round.frame)
<1>1. /\ round.pc = "verify" /\ Left = {}
      /\ certs' = round.active
      /\ round' = [round EXCEPT !.pc = "write", !.frame = frame]
      /\ UNCHANGED <<truth, shown, file, ready, staged, unsaved, mishaps>>
  BY DEF EndVerification
<1>2. GapsTypeOK /\ VerifyInv /\ DOMAIN file \subseteq DOMAIN round.frame
  BY <1>1 DEF GapsInv, RoundInv
<1>3. /\ round \in Rounds /\ round.frame \in Series /\ round.found \in Series
      /\ round.at \in Nat
  BY <1>2, TypeGives
<1>4. frame \in Series /\ DOMAIN frame = DOMAIN round.found \cup DOMAIN round.frame
  BY <1>3, Merged
<1> HIDE DEF frame
<1>5. /\ round' \in Rounds /\ round'.pc = "write" /\ round'.frame = frame
      /\ round'.active = round.active
  BY <1>1, <1>3, <1>4 DEF Rounds
<1>6. \A h \in Holes(round.frame) : Known(h) \/ Answered(round.found, h)
  <2>1. SUFFICES ASSUME NEW h \in Holes(round.frame)
                 PROVE  Known(h) \/ Answered(round.found, h)
    OBVIOUS
  <2>2. h[1] \in Nat /\ ~ (h[1] >= round.at)
    BY <1>1, <1>2, <1>3, Marked, TypeGives DEF Left
  <2>3. h[1] < round.at
    BY <2>2, <1>3
  <2> QED BY <2>3, <1>2 DEF VerifyInv
<1>7. ASSUME NEW g \in Holes(frame) PROVE Known(g)
  <2>1. PICK h \in Holes(round.frame) : h[1] <= g[1] /\ g[2] <= h[2]
    BY <1>2, <1>3, <1>4, Around DEF VerifyInv
  <2>2. /\ h[1] \in Nat /\ h[2] \in Nat /\ g[1] \in Nat /\ g[2] \in Nat
        /\ h[1] < h[2] /\ g[1] < g[2]
        /\ h = <<h[1], h[2]>> /\ g = <<g[1], g[2]>>
        /\ g[1] \in DOMAIN frame /\ g[2] \in DOMAIN frame
        /\ h[1] \in DOMAIN round.frame /\ h[2] \in DOMAIN round.frame
    <3>1. h[1] \in Moments /\ h[2] \in Moments /\ h[1] + 1 < h[2]
      BY <1>3, Marked
    <3>2. g[1] \in Moments /\ g[2] \in Moments /\ g[1] + 1 < g[2]
      BY <1>4, <1>7, Marked
    <3>3. Moments \subseteq Nat
      BY <1>2, TypeGives
    <3>4. /\ h = <<h[1], h[2]>> /\ h[1] \in DOMAIN round.frame /\ h[2] \in DOMAIN round.frame
      BY DEF Holes
    <3>5. /\ g = <<g[1], g[2]>> /\ g[1] \in DOMAIN frame /\ g[2] \in DOMAIN frame
      BY <1>7 DEF Holes
    <3> QED BY <3>1, <3>2, <3>3, <3>4, <3>5
  <2>3. Answered(round.found, h) => Known(g)
    <3>1. SUFFICES ASSUME Answered(round.found, h), NEW t \in DOMAIN truth \cap Inside(g)
                   PROVE  FALSE
      BY DEF Known
    <3>2. t \in h[1]..h[2]
      BY <2>1, <2>2, <3>1 DEF Inside
    <3>3. t \in DOMAIN frame
      BY <3>1, <3>2, <1>4 DEF Answered
    <3> QED BY <3>1, <3>3, <1>7 DEF Holes
  <2>4. DOMAIN truth \cap Inside(h) = {} => Known(g)
    BY <2>1, <2>2 DEF Known, Inside
  (* A side of g within h was found, so the response for h has come. *)
  <2>5. ASSUME NEW t \in {g[1], g[2]}, t \in Inside(h)
        PROVE  Answered(round.found, h)
    <3>1. t \in DOMAIN round.found \ DOMAIN round.frame
      BY <2>2, <2>5, <1>4 DEF Holes
    <3>2. PICK k \in Holes(round.frame) : t \in Inside(k) /\ Answered(round.found, k)
      BY <3>1, <1>2 DEF VerifyInv
    <3>3. k[1] \in Nat /\ k[2] \in Nat
      BY <1>2, <1>3, Marked, TypeGives
    <3>4. k[1] < h[2] /\ h[1] < k[2]
      BY <2>2, <2>5, <3>2, <3>3 DEF Inside
    <3>5. k = h
      BY <3>4, <1>3, HolesApart
    <3> QED BY <3>2, <3>5
  <2>6. CASE h = g
    BY <2>3, <2>6, <1>6
  <2>7. CASE h # g
    <3>1. h[1] < g[1] \/ g[2] < h[2]
      BY <2>1, <2>2, <2>7
    <3>2. g[1] \in Inside(h) \/ g[2] \in Inside(h)
      BY <2>1, <2>2, <3>1 DEF Inside
    <3> QED BY <2>3, <2>5, <3>2
  <2> QED BY <2>6, <2>7
<1>8. GapsTypeOK'
  BY <1>1, <1>2, <1>5, TypeGives, TypeBuilt DEF GapsTypeOK
<1>9. StagedInv'
  BY <1>1 DEF GapsInv, StagedInv
<1>10. RoundInv'
  BY <1>1, <1>2, <1>4, <1>5, <1>7 DEF RoundInv, Known
<1>11. CertsInv'
  <2>1. \A s \in round.active : Known(Span(s)) \/ Fills(round.found, s)
    BY <1>2 DEF VerifyInv
  <2>2. \A s : Fills(round.found, s) => Fills(frame, s)
    BY <1>4 DEF Fills
  <2> QED BY <2>1, <2>2, <1>1, <1>5 DEF CertsInv, Known, Fills, Span
<1>12. HolesAreTrue'
  BY <1>1 DEF GapsInv, HolesAreTrue, Holes
<1> QED BY <1>8, <1>9, <1>10, <1>11, <1>12 DEF GapsInv

LEMMA FilePublished == ASSUME GapsInv, Publish PROVE GapsInv'
<1>1. /\ round.pc = "write" /\ file' = round.frame /\ ready' = TRUE /\ round' = NoRound
      /\ UNCHANGED <<truth, shown, staged, certs, unsaved, mishaps>>
  BY DEF Publish
<1>2. GapsTypeOK /\ round' \in Rounds /\ round'.pc = "idle"
  BY <1>1, NoRoundTyped DEF GapsInv
<1>3. DOMAIN file \subseteq DOMAIN file'
  BY <1>1 DEF GapsInv, RoundInv
<1>4. GapsTypeOK'
  BY <1>1, <1>2, TypeGives, TypeBuilt
<1>5. StagedInv'
  BY <1>1 DEF GapsInv, StagedInv
<1>6. RoundInv'
  BY <1>2 DEF RoundInv
<1>7. CertsInv'
  BY <1>1, <1>3 DEF GapsInv, CertsInv, Known, Fills
<1>8. HolesAreTrue'
  BY <1>1 DEF GapsInv, RoundInv, HolesAreTrue, Known, Holes
<1> QED BY <1>4, <1>5, <1>6, <1>7, <1>8 DEF GapsInv

LEMMA Counted == ASSUME GapsTypeOK, Mishap PROVE mishaps' \in 0..MaxMishaps
BY TypeGives, GapAssumption DEF Mishap

LEMMA FileNotWritten == ASSUME GapsInv, WriteFails PROVE GapsInv'
<1> DEFINE filled == {s \in certs : Fills(round.frame, s)}
<1>1. /\ round.pc = "write" /\ ready' = FALSE /\ round' = NoRound
      /\ UNCHANGED <<truth, shown, staged, certs>>
      /\ \/ file' = file /\ unsaved' = unsaved \cup {<<s.left, s.right>> : s \in filled}
         \/ file' = round.frame /\ unsaved' = unsaved
  BY DEF WriteFails, Abandon
<1>2. GapsTypeOK /\ round' \in Rounds /\ round'.pc = "idle"
  BY <1>1, NoRoundTyped DEF GapsInv
<1>3. unsaved \subseteq unsaved' /\ DOMAIN file \subseteq DOMAIN file'
  BY <1>1 DEF GapsInv, RoundInv
<1>4. unsaved' \subseteq Moments \X Moments
  <2>1. \A s \in filled : <<s.left, s.right>> \in Moments \X Moments
    BY <1>2, TypeGives DEF Marks
  <2> QED BY <1>1, <1>2, <2>1, TypeGives
<1>5. mishaps' \in 0..MaxMishaps
  BY <1>2, Counted DEF WriteFails
<1>6. GapsTypeOK'
  <2>1. file' \in Series
    BY <1>1, <1>2, TypeGives
  <2> QED BY <2>1, <1>1, <1>2, <1>4, <1>5, TypeGives, TypeBuilt
<1>7. StagedInv'
  BY <1>1 DEF GapsInv, StagedInv
<1>8. RoundInv'
  BY <1>2 DEF RoundInv
<1>9. CertsInv'
  <2>1. SUFFICES ASSUME NEW s \in certs
                 PROVE  (DOMAIN truth \cap Inside(Span(s)) = {} \/ Span(s) \in unsaved')
                           \/ Fills(file', s)
    BY <1>1 DEF CertsInv, Known, Fills, Span
  <2>2. Known(Span(s)) \/ Fills(file, s) \/ Fills(round.frame, s)
    BY DEF GapsInv, CertsInv
  <2>3. Fills(round.frame, s) => Span(s) \in unsaved' \/ file' = round.frame
    BY <1>1 DEF Span
  <2> QED BY <2>2, <2>3, <1>3 DEF Known, Fills
<1>10. HolesAreTrue'
  BY <1>1 DEF HolesAreTrue
<1> QED BY <1>6, <1>7, <1>8, <1>9, <1>10 DEF GapsInv

LEMMA RangeNotRead == ASSUME GapsInv, ReadFails PROVE GapsInv'
<1>1. /\ Abandon /\ round.pc = "verify"
      /\ UNCHANGED <<truth, shown, file, staged, certs, unsaved>>
  BY DEF ReadFails
<1>2. mishaps' \in 0..MaxMishaps
  BY Counted DEF GapsInv, ReadFails
<1> QED BY <1>1, <1>2, VerifyFails

LEMMA Expired == ASSUME GapsInv, Expire PROVE GapsInv'
<1>1. /\ round.pc = "idle"
      /\ UNCHANGED <<truth, shown, file, ready, round, unsaved>>
      /\ staged' = staged \/ DOMAIN staged' = {}
      /\ certs' \subseteq certs
  <2>1. DOMAIN <<>> = {}
    OBVIOUS
  <2> QED BY <2>1 DEF Expire
<1>2. GapsTypeOK /\ mishaps' \in 0..MaxMishaps
  BY Counted DEF GapsInv, Expire
<1>3. GapsTypeOK'
  <2>1. DOMAIN staged' \subseteq Marks /\ \A s \in DOMAIN staged' : staged'[s] \in Series
    <3>1. DOMAIN staged \subseteq Marks /\ \A s \in DOMAIN staged : staged[s] \in Series
      BY <1>2, TypeGives
    <3> QED BY <3>1, <1>1
  <2>2. certs' \subseteq Marks /\ round' \in Rounds /\ round'.pc # "write"
    BY <1>1, <1>2, TypeGives
  <2>3. /\ truth' \in Series /\ shown' \subseteq DOMAIN truth' /\ file' \in Series
        /\ ready' \in BOOLEAN /\ unsaved' \subseteq Moments \X Moments
    BY <1>1, <1>2, TypeGives DEF GapsTypeOK
  <2> QED BY <2>1, <2>2, <2>3, <1>2, TypeBuilt
<1>4. StagedInv'
  BY <1>1 DEF GapsInv, StagedInv
<1>5. RoundInv'
  BY <1>1 DEF RoundInv
<1>6. CertsInv'
  BY <1>1 DEF GapsInv, CertsInv, Known, Fills
<1>7. HolesAreTrue'
  BY <1>1 DEF GapsInv, HolesAreTrue, Holes
<1> QED BY <1>3, <1>4, <1>5, <1>6, <1>7 DEF GapsInv

LEMMA Revised == ASSUME GapsInv, ReviseBar PROVE GapsInv'
<1>1. UNCHANGED <<shown, file, ready, staged, certs, round, unsaved>>
  BY DEF ReviseBar
<1>2. GapsTypeOK /\ mishaps' \in 0..MaxMishaps
  BY Counted DEF GapsInv, ReviseBar
<1>3. PICK t \in DOMAIN truth : truth' = [truth EXCEPT ![t] = 1]
  BY DEF ReviseBar
<1>4. DOMAIN truth' = DOMAIN truth /\ truth' \in Series
  <2>1. /\ DOMAIN truth \subseteq Moments /\ truth = [u \in DOMAIN truth |-> truth[u]]
        /\ \A u \in DOMAIN truth : truth[u] \in 0..1
    BY <1>2, TypeGives, SeriesAre
  <2>2. DOMAIN truth' = DOMAIN truth /\ truth' = [u \in DOMAIN truth' |-> truth'[u]]
    BY <1>3
  <2>3. \A u \in DOMAIN truth : truth'[u] = IF u = t THEN 1 ELSE truth[u]
    BY <1>3, <2>1
  <2>4. \A u \in DOMAIN truth' : truth'[u] \in 0..1
    BY <2>1, <2>2, <2>3
  <2> QED BY <2>1, <2>2, <2>4, SeriesAre
<1>5. GapsTypeOK'
  BY <1>1, <1>2, <1>4, TypeGives, TypeBuilt DEF GapsTypeOK
<1>6. StagedInv'
  BY <1>1, <1>4 DEF GapsInv, StagedInv
<1>7. RoundInv'
  BY <1>1, <1>4 DEF GapsInv, RoundInv, VerifyInv, Known, Answered, Fills, Holes
<1>8. CertsInv'
  BY <1>1, <1>4 DEF GapsInv, CertsInv, Known, Fills
<1>9. HolesAreTrue'
  BY <1>1, <1>4 DEF GapsInv, HolesAreTrue, Holes
<1> QED BY <1>5, <1>6, <1>7, <1>8, <1>9 DEF GapsInv

LEMMA Died == ASSUME GapsInv, Die PROVE GapsInv'
<1>1. /\ file' = file \/ (round.pc = "write" /\ file' = round.frame)
      /\ round' = NoRound /\ staged' = <<>> /\ certs' = {}
      /\ UNCHANGED <<truth, shown, ready, unsaved>>
  BY DEF Die
<1>2. GapsTypeOK /\ mishaps' \in 0..MaxMishaps
  BY Counted DEF GapsInv, Die
<1>3. round' \in Rounds /\ round'.pc = "idle" /\ DOMAIN staged' = {}
  BY <1>1, NoRoundTyped
<1>4. GapsTypeOK'
  <2>1. file' \in Series
    BY <1>1, <1>2, TypeGives
  <2>2. /\ truth' \in Series /\ shown' \subseteq DOMAIN truth' /\ ready' \in BOOLEAN
        /\ unsaved' \subseteq Moments \X Moments /\ certs' \subseteq Marks
    BY <1>1, <1>2, TypeGives DEF GapsTypeOK
  <2> QED BY <2>1, <2>2, <1>2, <1>3, TypeBuilt
<1>5. StagedInv'
  BY <1>1, <1>3 DEF GapsInv, StagedInv
<1>6. RoundInv'
  BY <1>3 DEF RoundInv
<1>7. CertsInv'
  BY <1>1 DEF CertsInv
<1>8. HolesAreTrue'
  BY <1>1 DEF GapsInv, RoundInv, HolesAreTrue, Known, Holes
<1> QED BY <1>4, <1>5, <1>6, <1>7, <1>8 DEF GapsInv

LEMMA GapsStart == GapsInit => GapsInv
<1> SUFFICES ASSUME GapsInit PROVE GapsInv
  OBVIOUS
<1>1. PICK open \in SUBSET (2..(LastTime - 1)), seen \in SUBSET (2..(LastTime - 1)) :
        /\ seen \subseteq open
        /\ truth = [t \in open \cup {1, LastTime} |-> 0]
        /\ shown = seen \cup {1, LastTime}
  BY DEF GapsInit
<1>2. /\ file = NoSeries /\ ready = FALSE /\ staged = <<>> /\ certs = {}
      /\ round = NoRound /\ unsaved = {} /\ mishaps = 0
  BY DEF GapsInit
<1>3. truth \in Series /\ DOMAIN truth = open \cup {1, LastTime}
  <2>1. DOMAIN truth = open \cup {1, LastTime} /\ truth = [t \in DOMAIN truth |-> truth[t]]
    BY <1>1
  <2>2. \A t \in DOMAIN truth : truth[t] = 0
    BY <1>1
  <2>3. DOMAIN truth \subseteq Moments
    BY <2>1, GapAssumption DEF Moments
  <2>4. \A t \in DOMAIN truth : truth[t] \in 0..1
    BY <2>2
  <2> QED BY <2>1, <2>3, <2>4, SeriesAre
<1>4. DOMAIN staged = {} /\ round \in Rounds /\ round.pc = "idle" /\ 0 \in 0..MaxMishaps
  BY <1>2, NoRoundTyped, GapAssumption
<1>5. GapsTypeOK
  BY <1>1, <1>2, <1>3, <1>4, Empty DEF GapsTypeOK, Rounds
<1>6. StagedInv /\ RoundInv /\ CertsInv /\ HolesAreTrue
  BY <1>1, <1>2, <1>4 DEF StagedInv, RoundInv, CertsInv, HolesAreTrue
<1> QED BY <1>5, <1>6 DEF GapsInv

LEMMA GapsInduction == GapsInv /\ [GapsNext]_gapVars => GapsInv'
<1> SUFFICES ASSUME GapsInv, [GapsNext]_gapVars PROVE GapsInv'
  OBVIOUS
<1>1. CASE UNCHANGED gapVars
  BY <1>1 DEF gapVars, GapsInv, GapsTypeOK, StagedInv, RoundInv, VerifyInv, CertsInv,
              HolesAreTrue, Known, Answered, Fills, Holes
<1> QED BY <1>1, RoundBegins, HoleTurn, RoundVerified, FilePublished, FileNotWritten,
           RangeNotRead, Expired, Revised, Died DEF GapsNext, RefreshGaps

-----------------------------------------------------------------------------
(* All parts *)

PartsInv == ArchiveInv /\ SupervisorInv /\ EtlInv /\ LifecycleInv /\ GapsInv

LEMMA PartsStart == Init => PartsInv
BY ArchiveStart, SupervisorStart, EtlStart, LifecycleStart, GapsStart DEF Init, PartsInv

LEMMA PartsInduction == PartsInv /\ [Next]_vars => PartsInv'
<1> SUFFICES ASSUME PartsInv, [Next]_vars PROVE PartsInv'
  OBVIOUS
<1>1. /\ [ArchiveNext]_archiveVars /\ [SupervisorNext]_supervisorVars
      /\ [EtlNext]_etlVars /\ [LifecycleNext]_lifecycleVars /\ [GapsNext]_gapVars
  <2>1. CASE UNCHANGED vars
    BY <2>1, Zenon DEF vars
  <2>2. CASE Next
    BY <2>2, Zenon DEF Next
  <2> QED BY <2>1, <2>2
<1>2. ArchiveInv'
  BY <1>1, ArchiveInduction, Zenon DEF PartsInv
<1>3. SupervisorInv'
  BY <1>1, SupervisorInduction, Zenon DEF PartsInv
<1>4. EtlInv'
  BY <1>1, EtlInduction, Zenon DEF PartsInv
<1>5. LifecycleInv'
  BY <1>1, LifecycleInduction, Zenon DEF PartsInv
<1>6. GapsInv'
  BY <1>1, GapsInduction, Zenon DEF PartsInv
<1> QED BY <1>2, <1>3, <1>4, <1>5, <1>6 DEF PartsInv

LEMMA PartsHold == Spec => []PartsInv
BY PartsStart, PartsInduction, PTL DEF Spec

(* Every part keeps its type, whatever the others have come to. *)
THEOREM PartsTyped == Spec => []TypeOK
<1>1. PartsInv => TypeOK
  BY DEF PartsInv, ArchiveInv, SupervisorInv, EtlInv, LifecycleInv, GapsInv, TypeOK
<1> QED BY <1>1, PartsHold, PTL

(* A hole of a ready file is one the broker has too, or one that was       *)
(* certified as filled when the file could not be written: for any number  *)
(* of holes, refreshes, expiries, revisions and crashes.                   *)
THEOREM HolesStayTrue == Spec => []HolesAreTrue
<1>1. PartsInv => HolesAreTrue
  BY DEF PartsInv, GapsInv
<1> QED BY <1>1, PartsHold, PTL
=============================================================================
