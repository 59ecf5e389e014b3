----------------------- MODULE TerminalLifecycleProofs -----------------------
(***************************************************************************)
(* The start of the terminal: what its script may conclude from two        *)
(* sources it reads one after the other, for any number of processes and   *)
(* of lines in the Journal.                                                *)
(*                                                                         *)
(* The Journal names no process.  A login in it is that of the terminal    *)
(* the script has pinned because startups that another process wrote are   *)
(* followed by the announcement of an updater, or because an updater that  *)
(* was not announced is still there to be seen: the script cannot have     *)
(* scanned it yet, or has and will turn away.                              *)
(***************************************************************************)
EXTENDS TerminalLifecycle, FiniteSetTheorems, WellFoundedInduction, TLAPS

-----------------------------------------------------------------------------
(* The last line of a kind *)

LEMMA Least ==
  ASSUME NEW T \in SUBSET Nat, T # {}
  PROVE  \E x \in T : \A y \in T : x <= y
<1> DEFINE R == {ss \in Nat \X Nat : ss[1] < ss[2]}
<1>1. IsWellFoundedOn(R, Nat)
  BY NatLessThanWellFounded, Zenon DEF OpToRel
<1>2. \E x \in T : \A y \in T : ~ (<<y, x>> \in R)
  BY <1>1, WFMin, Zenon
<1>3. \A x, y \in Nat : ~ (<<y, x>> \in R) => x <= y
  OBVIOUS
<1> QED BY <1>2, <1>3

LEMMA MaxIsGreatest ==
  ASSUME NEW S \in SUBSET Nat, S # {}, NEW n \in Nat, \A s \in S : s <= n
  PROVE  Max(S) \in S /\ \A s \in S : s <= Max(S)
<1> DEFINE T == {n - s : s \in S}
<1>1. T \in SUBSET Nat /\ T # {}
  <2>1. \A s \in S : s \in Nat /\ n - s \in Nat
    OBVIOUS
  <2>2. T # {}
    BY Zenon
  <2> QED BY <2>1, <2>2
<1>2. PICK x \in T : \A y \in T : x <= y
  BY <1>1, Least
<1>3. PICK m \in S : x = n - m
  OBVIOUS
<1>4. \A s \in S : n - m <= n - s
  BY <1>2, <1>3
<1>5. \A s \in S : m >= s
  BY <1>4
<1>6. Max(S) \in S /\ \A s \in S : Max(S) >= s
  BY <1>5 DEF Max
<1> QED BY <1>6

LEMMA ItsElement ==
  ASSUME NEW S, NEW s \in Seq(S), NEW i \in DOMAIN s
  PROVE  s[i] \in S
OBVIOUS

LEMMA LastIsLast ==
  ASSUME LifecycleTypeOK, NEW W \in SUBSET What
  PROVE  /\ LastOf(W) \in Nat
         /\ LastOf(W) # 0 => LastOf(W) \in DOMAIN journal /\ journal[LastOf(W)].what \in W
         /\ \A i \in DOMAIN journal : journal[i].what \in W => i <= LastOf(W)
         /\ DOMAIN journal \subseteq Nat \ {0}
<1> DEFINE S == {0} \cup {i \in DOMAIN journal : journal[i].what \in W}
<1>1. DOMAIN journal = 1..Len(journal) /\ Len(journal) \in Nat
  BY DEF LifecycleTypeOK
<1>2. S \in SUBSET Nat /\ S # {} /\ \A s \in S : s <= Len(journal)
  BY <1>1
<1>3. Max(S) \in S /\ \A s \in S : s <= Max(S)
  BY <1>1, <1>2, MaxIsGreatest, Zenon
<1>4. LastOf(W) = Max(S)
  BY DEF LastOf
<1>5. \A i \in DOMAIN journal : journal[i].what \in W => i \in S
  OBVIOUS
<1>6. \A i \in S : i # 0 => i \in DOMAIN journal /\ journal[i].what \in W
  OBVIOUS
<1> HIDE DEF S
<1>7. LastOf(W) \in S /\ LastOf(W) \in Nat
  BY <1>2, <1>3, <1>4
<1>8. \A i \in DOMAIN journal : journal[i].what \in W => i <= LastOf(W)
  BY <1>3, <1>4, <1>5, Zenon
<1>9. DOMAIN journal \subseteq Nat \ {0}
  BY <1>1
<1> QED BY <1>6, <1>7, <1>8, <1>9, Zenon

-----------------------------------------------------------------------------
(* Types *)

Memories == [stage : {"startup", "maintenance"}, cycles : 0..1, saw : BOOLEAN,
             safe : BOOLEAN, pinned : SUBSET Pids,
             scan : [normal : SUBSET Pids, update : SUBSET Pids]]
States == {"unused", "wine", "native", "up", "started", "in", "coming", "update", "quiet",
           "gone"}
Places == {"launch", "ready_scan", "ready", "ready_confirm", "auth_scan", "auth",
           "auth_confirm", "update_scan", "update", "hold", "hold_again", "verified",
           "persist_scan", "persist", "snapshot", "serve", "closed"}

JournalTyped ==
  /\ journal \in Seq([what : What, by : Pids]) /\ Len(journal) <= records
  /\ {replaced, doubled} \subseteq BOOLEAN /\ records \in 0..MaxRecords

LEMMA TypeParts ==
  LifecycleTypeOK <=>
    place \in Places /\ memory \in Memories /\ proc \in [Pids -> States] /\ JournalTyped
BY DEF LifecycleTypeOK, Places, Memories, States, JournalTyped

LEMMA TypeNextParts ==
  place' \in Places /\ memory' \in Memories /\ proc' \in [Pids -> States] /\ JournalTyped'
    => LifecycleTypeOK'
BY DEF LifecycleTypeOK, Places, Memories, States, JournalTyped

LEMMA EmptyOrNot == ASSUME NEW S PROVE (S # {}) \in BOOLEAN /\ (S = {}) \in BOOLEAN
OBVIOUS

LEMMA SeenTyped ==
  ASSUME proc \in [Pids -> States]
  PROVE  Seen \in [normal : SUBSET Pids, update : SUBSET Pids] /\ Normals \in SUBSET Pids
BY DEF Seen, Normals, Updaters

LEMMA JournalEmptied ==
  ASSUME JournalTyped, journal' = <<>> \/ journal' = journal, UNCHANGED <<replaced, records>>,
         doubled' \in BOOLEAN
  PROVE  JournalTyped'
<1>1. <<>> \in Seq([what : What, by : Pids])
  OBVIOUS
<1>2. Len(<<>>) = 0 /\ \A r \in 0..MaxRecords : 0 <= r
  BY LifecycleAssumption
<1>3. Len(journal') <= records'
  BY <1>2 DEF JournalTyped
<1>4. journal' \in Seq([what : What, by : Pids])
  BY <1>1 DEF JournalTyped
<1> QED BY <1>3, <1>4 DEF JournalTyped

LEMMA MemoryChanged ==
  ASSUME NEW m \in Memories, NEW a \in BOOLEAN, NEW b \in BOOLEAN,
         NEW c \in [normal : SUBSET Pids, update : SUBSET Pids]
  PROVE  /\ [m EXCEPT !.cycles = 1] \in Memories
         /\ [m EXCEPT !.saw = a, !.safe = b] \in Memories
         /\ [m EXCEPT !.scan = c] \in Memories
<1>1. [m EXCEPT !.cycles = 1] \in Memories
  BY DEF Memories
<1>2. [m EXCEPT !.saw = a, !.safe = b] \in Memories
  BY DEF Memories
<1>3. [m EXCEPT !.scan = c] \in Memories
  BY DEF Memories
<1> QED BY <1>1, <1>2, <1>3

(* What a step of the script leaves alone. *)
LEMMA ScriptSteps ==
  ASSUME LifecycleTypeOK, Lifecycle
  PROVE  /\ UNCHANGED <<replaced, records>>
         /\ journal' = <<>> \/ journal' = journal
         /\ \/ UNCHANGED proc
            \/ /\ Launch /\ journal' = <<>> /\ memory' = memory
               /\ \E p \in Pids : Fresh(p) /\ proc' = [proc EXCEPT ![p] = "wine"]
         /\ place' \in Places /\ memory' \in Memories /\ doubled' \in BOOLEAN
         /\ ~Launch => UNCHANGED doubled
<1>0. place \in Places /\ memory \in Memories /\ proc \in [Pids -> States]
  BY TypeParts
<1>s. Seen \in [normal : SUBSET Pids, update : SUBSET Pids] /\ Normals \in SUBSET Pids
      /\ memory.scan \in [normal : SUBSET Pids, update : SUBSET Pids]
  BY <1>0, SeenTyped DEF Memories
<1>f. ASSUME NEW scan \in [normal : SUBSET Pids, update : SUBSET Pids], UpdateFound(scan)
      PROVE  /\ journal' = <<>> \/ journal' = journal
             /\ place' \in Places /\ memory' \in Memories
  <2> DEFINE m == [memory EXCEPT !.cycles = 1, !.saw = scan.update # {},
                                 !.safe = scan.normal = {}, !.scan = scan]
  <2>1. (scan.update # {}) \in BOOLEAN /\ (scan.normal = {}) \in BOOLEAN
    BY EmptyOrNot, Zenon
  <2>2. m \in Memories
    <3> DEFINE m1 == [memory EXCEPT !.cycles = 1]
               m2 == [m1 EXCEPT !.saw = scan.update # {}, !.safe = scan.normal = {}]
    <3>1. m1 \in Memories
      BY <1>0, <2>1, MemoryChanged
    <3>2. m2 \in Memories
      BY <2>1, <3>1, MemoryChanged
    <3>3. [m2 EXCEPT !.scan = scan] \in Memories
      BY <2>1, <3>2, MemoryChanged
    <3> QED BY <3>3
  <2>3. memory' = memory \/ memory' = m
    BY <1>f, Zenon DEF UpdateFound
  <2>4. place' \in Places /\ (journal' = <<>> \/ journal' = journal)
    BY <1>f DEF UpdateFound, Places
  <2> QED BY <1>0, <2>2, <2>3, <2>4
<1>1. CASE Launch
  <2>1. doubled' \in BOOLEAN
    <3>1. (\E p \in Pids : ~Off(p)) \in BOOLEAN
      BY Zenon
    <3> QED BY <1>1, <3>1, Zenon DEF Launch
  <2> QED BY <1>0, <1>1, <2>1 DEF Launch, Script, Places
<1>d. doubled \in BOOLEAN
  BY TypeParts DEF JournalTyped
<1>2. ASSUME NEW from, NEW to \in {"ready", "auth", "update", "persist"}, Scan(from, to)
      PROVE  UNCHANGED <<replaced, doubled, records, journal, proc>> /\ place' \in Places
             /\ memory' \in Memories
  BY <1>0, <1>s, <1>2 DEF Scan, Script, Unseen, Places, Memories
<1>3. CASE Ready
  <2>1. CASE UpdateFound(memory.scan)
    BY <1>3, <1>d, <1>f, <1>s, <2>1 DEF Ready
  <2>2. CASE ~UpdateFound(memory.scan)
    BY <1>3, <1>0, <1>d, <2>2 DEF Ready, Places
  <2> QED BY <2>1, <2>2
<1>4. CASE ReadyConfirm
  BY <1>0, <1>d, <1>s, <1>4 DEF ReadyConfirm, Script, Unseen, Places, Memories
<1>5. CASE Authorized
  <2>1. CASE UpdateFound(memory.scan)
    BY <1>5, <1>d, <1>f, <1>s, <2>1 DEF Authorized
  <2>2. CASE ~UpdateFound(memory.scan)
    BY <1>5, <1>0, <1>d, <2>2 DEF Authorized, Places
  <2> QED BY <2>1, <2>2
<1>6. CASE AuthorizedConfirm
  <2>1. CASE UpdateFound(Seen)
    BY <1>6, <1>d, <1>f, <1>s, <2>1 DEF AuthorizedConfirm
  <2>2. CASE ~UpdateFound(Seen)
    BY <1>6, <1>0, <1>d, <1>s, <2>2 DEF AuthorizedConfirm, Places, Memories
  <2> QED BY <2>1, <2>2
<1>7. CASE Update
  <2> DEFINE saw == memory.saw \/ memory.scan.update # {}
             safe == memory.safe \/ memory.scan.normal = {}
  <2>1. saw \in BOOLEAN /\ safe \in BOOLEAN
    BY <1>0 DEF Memories
  <2>2. memory' = memory \/ memory' = [memory EXCEPT !.saw = saw, !.safe = safe]
    BY <1>7 DEF Update
  <2>3. memory' \in Memories
    BY <1>0, <2>1, <2>2 DEF Memories
  <2>4. place' \in Places
    BY <1>7 DEF Update, Places
  <2>5. UNCHANGED <<replaced, doubled, records, proc>>
        /\ (journal' = <<>> \/ journal' = journal)
    BY <1>7 DEF Update
  <2> QED BY <1>d, <2>3, <2>4, <2>5
<1>8. CASE Hold
  BY <1>0, <1>d, <1>s, <1>8 DEF Hold, Script, Unseen, Places, Memories
<1>9. CASE HoldAgain
  BY <1>0, <1>d, <1>9 DEF HoldAgain, Script, Unseen, Places
<1>10. CASE AwaitStored
  BY <1>0, <1>d, <1>s, <1>10 DEF AwaitStored, Script, Unseen, Places, Memories
<1>11. CASE Stored
  BY <1>0, <1>d, <1>11 DEF Stored, Unseen, Places
<1>12. CASE Open
  BY <1>0, <1>d, <1>12 DEF Open, Script, Places
<1>13. CASE Serve
  BY <1>0, <1>d, <1>s, <1>13 DEF Serve, Script, Unseen, Places, Memories
<1> QED BY <1>1, <1>2, <1>3, <1>4, <1>5, <1>6, <1>7, <1>8, <1>9, <1>10, <1>11, <1>12,
           <1>13, <1>d DEF Lifecycle

(* Of the terminal, its updaters and their users: the process p that moves, *)
(* and what it writes.                                                      *)
Moves(p) ==
  \/ Appear(p) \/ StartUp(p) \/ LogInTo(p) \/ LoseLogin(p) \/ Prompt(p)
  \/ Leave(p) \/ EndUpdate(p)
  \/ \E q \in Pids : StartUpdater(p, q) \/ Replace(p, q)

LEMMA MoveSteps ==
  ASSUME LifecycleTypeOK, NEW p \in Pids, Moves(p)
  PROVE  /\ place # "closed" /\ UNCHANGED <<place, memory, doubled>>
         /\ \/ UNCHANGED proc
            \/ \E q \in Pids : \E x \in States : proc' = [proc EXCEPT ![q] = x]
         /\ \/ UNCHANGED <<journal, records>>
            \/ \E what \in What : Write(p, what)
         /\ \/ UNCHANGED replaced
            \/ ~replaced /\ replaced' /\ UNCHANGED journal
<1>1. CASE Appear(p)
  BY <1>1 DEF Appear, Becomes, Apart, Silent, States
<1>2. CASE StartUp(p)
  BY <1>2 DEF StartUp, Becomes, Write, Apart, States, What
<1>3. CASE LogInTo(p)
  BY <1>3 DEF LogInTo, Becomes, Write, Apart, States, What
<1>4. CASE LoseLogin(p)
  BY <1>4 DEF LoseLogin, Becomes, Write, Apart, States, What
<1>5. CASE Prompt(p)
  BY <1>5 DEF Prompt, Write, Apart, What
<1>6. CASE Leave(p)
  BY <1>6 DEF Leave, Apart, Silent, States
<1>7. CASE EndUpdate(p)
  BY <1>7 DEF EndUpdate, Apart, Silent, States
<1>8. ASSUME NEW q \in Pids, StartUpdater(p, q)
      PROVE  /\ Apart /\ UNCHANGED <<replaced, doubled>>
             /\ \E x \in States : proc' = [proc EXCEPT ![q] = x]
             /\ UNCHANGED <<journal, records>> \/ Write(p, "launch")
  BY <1>8 DEF StartUpdater, Write, Silent, States
<1>9. ASSUME NEW q \in Pids, Replace(p, q)
      PROVE  /\ Apart /\ ~replaced /\ replaced' /\ UNCHANGED <<journal, doubled, records>>
             /\ \E x \in States : proc' = [proc EXCEPT ![q] = x]
  BY <1>9 DEF Replace, States
<1>10. "launch" \in What
  BY DEF What
<1> QED BY <1>1, <1>2, <1>3, <1>4, <1>5, <1>6, <1>7, <1>8, <1>9, <1>10 DEF Moves, Apart

LEMMA JournalGrows ==
  ASSUME JournalTyped, NEW r \in [what : What, by : Pids], journal' = Append(journal, r)
  PROVE  \E n \in Nat \ DOMAIN journal :
           /\ DOMAIN journal' = DOMAIN journal \cup {n}
           /\ \A i \in DOMAIN journal : i \in Nat /\ i < n /\ journal'[i] = journal[i]
           /\ journal'[n] = r
<1> DEFINE n == Len(journal) + 1
<1>1. DOMAIN journal = 1..Len(journal) /\ Len(journal) \in Nat
  BY DEF JournalTyped
<1>2. DOMAIN journal' = 1..n /\ journal'[n] = r
      /\ \A i \in 1..Len(journal) : journal'[i] = journal[i]
  BY DEF JournalTyped
<1>3. n \in Nat \ DOMAIN journal /\ 1..n = (1..Len(journal)) \cup {n}
      /\ \A i \in 1..Len(journal) : i \in Nat /\ i < n
  BY <1>1
<1> QED BY <1>1, <1>2, <1>3

LEMMA JournalWritten ==
  ASSUME JournalTyped, NEW p \in Pids, NEW what \in What, Write(p, what)
  PROVE  JournalTyped'
<1>1. journal \in Seq([what : What, by : Pids])
      /\ [what |-> what, by |-> p] \in [what : What, by : Pids]
  BY DEF JournalTyped
<1>2. journal' \in Seq([what : What, by : Pids]) /\ Len(journal') = Len(journal) + 1
  BY <1>1 DEF Write
<1>3. Len(journal) \in Nat
  BY <1>1
<1> QED BY <1>2, <1>3, LifecycleAssumption DEF JournalTyped, Write

LEMMA TypeKept ==
  ASSUME LifecycleTypeOK, [LifecycleNext]_lifecycleVars
  PROVE  LifecycleTypeOK'
<1>0. place \in Places /\ memory \in Memories /\ proc \in [Pids -> States] /\ JournalTyped
  BY TypeParts
<1>1. CASE Lifecycle
  <2>1. \A p \in Pids : [proc EXCEPT ![p] = "wine"] \in [Pids -> States]
    BY <1>0 DEF States
  <2>2. JournalTyped'
    BY <1>0, <1>1, ScriptSteps, JournalEmptied
  <2> QED BY <1>0, <1>1, <2>1, <2>2, ScriptSteps, TypeNextParts
<1>2. ASSUME NEW p \in Pids, Moves(p)
      PROVE  LifecycleTypeOK'
  <2>1. proc' \in [Pids -> States]
    BY <1>0, <1>2, MoveSteps
  <2>2. JournalTyped'
    <3>1. CASE \E what \in What : Write(p, what)
      BY <1>0, <3>1, JournalWritten
    <3>2. CASE UNCHANGED <<journal, records>>
      <4>1. {replaced, doubled}' \subseteq BOOLEAN
        BY <1>0, <1>2, MoveSteps DEF JournalTyped
      <4> QED BY <1>0, <3>2, <4>1 DEF JournalTyped
    <3> QED BY <1>2, <3>1, <3>2, MoveSteps
  <2> QED BY <1>0, <1>2, <2>1, <2>2, MoveSteps, TypeNextParts
<1>3. CASE UNCHANGED lifecycleVars
  <2>1. JournalTyped'
    BY <1>0, <1>3 DEF JournalTyped, lifecycleVars
  <2> QED BY <1>0, <1>3, <2>1, TypeNextParts DEF lifecycleVars
<1> QED BY <1>1, <1>2, <1>3 DEF LifecycleNext, Moves

-----------------------------------------------------------------------------
(* Processes *)

NoScan  == [normal |-> {}, update |-> {}]
AllGone == \A p \in Pids : proc[p] \in {"unused", "gone"}

(* A terminal that an updater has started is one before a scan can see it. *)
Terminals   == {p \in Pids : proc[p] \in {"native", "up", "started", "in"}}
OneTerminal == \A p, q \in Terminals : p = q
NativeKnown == (\E p \in Pids : proc[p] = "native") => replaced

(* A terminal that is launched has the desktop to itself and an empty      *)
(* Journal, and the script can only wait for it.                           *)
LaunchedAlone ==
  \A p \in Pids : proc[p] = "wine" =>
    /\ \A q \in Pids \ {p} : proc[q] \in {"unused", "gone"}
    /\ journal = <<>> /\ place \in {"ready_scan", "ready", "closed"}
    /\ place = "ready" => memory.scan = NoScan

AnnouncedByOne == (\E u \in Pids : proc[u] = "coming") => Normals # {}

(* What a scan did not show is not there, in the loop that follows an      *)
(* update, but for a replacement that was not visible.                     *)
LeftOver == \A p \in Pids : Off(p) \/ (replaced /\ p \in Terminals)

NothingLeft ==
  /\ place = "launch" => memory.scan = NoScan /\ LeftOver
  /\ place = "update" /\ memory.scan = NoScan => LeftOver

PinnedKnown == \A p \in memory.pinned : proc[p] \notin {"unused", "native"}

Processes == /\ OneTerminal /\ NativeKnown /\ LaunchedAlone /\ AnnouncedByOne
             /\ NothingLeft /\ PinnedKnown

LEMMA EmptyJournal ==
  ASSUME LifecycleTypeOK, journal = <<>>
  PROVE  ~LaunchPending
<1>1. DOMAIN journal = {}
  OBVIOUS
<1>2. {"launch"} \in SUBSET What /\ {"startup"} \in SUBSET What
  BY DEF What
<1>3. LastOf({"launch"}) = 0 /\ LastOf({"startup"}) = 0
  BY <1>1, <1>2, LastIsLast
<1> QED BY <1>3 DEF LaunchPending

LEMMA Turns ==
  ASSUME LifecycleTypeOK, Lifecycle, ~Launch
  PROVE  /\ memory'.pinned = memory.pinned \/ memory'.pinned = Normals
         /\ place' = "launch" => /\ place = "update" /\ memory.scan = NoScan
                                /\ memory'.scan = memory.scan
         /\ place' = "update" => place = "update_scan" /\ memory'.scan = Seen
         /\ place # "closed" /\ place # "launch"
         /\ place = "ready_scan" => place' = "ready" /\ memory'.scan = Seen
         /\ place = "ready" /\ memory.scan = NoScan /\ ~LaunchPending =>
              place' \in {"ready_scan", "closed"}
<1>0. place \in Places /\ memory \in Memories
  BY TypeParts
<1>s. Seen \in [normal : SUBSET Pids, update : SUBSET Pids]
  BY TypeParts, SeenTyped
<1>f. ASSUME NEW scan, UpdateFound(scan)
      PROVE  memory'.pinned = memory.pinned /\ place' \in {"closed", "update_scan"}
  BY <1>0, <1>f DEF UpdateFound, Memories
<1>2. ASSUME NEW from, NEW to, Scan(from, to)
      PROVE  place = from /\ place' = to /\ memory'.scan = Seen
             /\ memory'.pinned = memory.pinned
  BY <1>0, <1>2 DEF Scan, Script, Memories
<1>3. CASE Ready
  <2>1. CASE UpdateFound(memory.scan)
    <3>1. memory.scan = NoScan => ~Conflict /\ memory.scan.update = {}
      BY FS_EmptySet DEF Conflict, NoScan
    <3> QED BY <1>3, <1>f, <2>1, <3>1 DEF Ready
  <2>2. CASE ~UpdateFound(memory.scan)
    BY <1>3, <2>2, FS_EmptySet DEF Ready, Conflict, NoScan
  <2> QED BY <2>1, <2>2
<1>4. CASE ReadyConfirm
  BY <1>0, <1>4 DEF ReadyConfirm, Script, Memories
<1>5. CASE Authorized
  BY <1>5, <1>f DEF Authorized
<1>6. CASE AuthorizedConfirm
  BY <1>0, <1>6, <1>f DEF AuthorizedConfirm, Memories
<1>7. CASE Update
  BY <1>0, <1>7 DEF Update, Memories, NoScan
<1>8. CASE Hold
  BY <1>0, <1>8 DEF Hold, Script, Memories
<1>9. CASE HoldAgain
  BY <1>9 DEF HoldAgain, Script
<1>10. CASE AwaitStored
  BY <1>0, <1>10 DEF AwaitStored, Script, Memories
<1>11. CASE Stored
  BY <1>11 DEF Stored
<1>12. CASE Open
  BY <1>12 DEF Open, Script
<1>13. CASE Serve
  BY <1>0, <1>13 DEF Serve, Script, Memories
<1> QED BY <1>2, <1>3, <1>4, <1>5, <1>6, <1>7, <1>8, <1>9, <1>10, <1>11, <1>12,
           <1>13 DEF Lifecycle

LEMMA ProcessesTurn ==
  ASSUME LifecycleTypeOK, Processes, Lifecycle, ~doubled'
  PROVE  Processes'
<1>1. CASE Launch
  <2>1. PICK p \in Pids : Fresh(p) /\ proc' = [proc EXCEPT ![p] = "wine"]
    BY <1>1 DEF Launch
  <2>2. AllGone /\ place' = "ready_scan" /\ journal' = <<>> /\ memory' = memory
        /\ UNCHANGED replaced
    BY <1>1 DEF Launch, Script, AllGone, Off
  <2>3. /\ proc \in [Pids -> States] /\ proc'[p] = "wine" /\ proc[p] = "unused"
        /\ \A q \in Pids \ {p} : proc'[q] \in {"unused", "gone"} /\ proc'[q] = proc[q]
    BY <2>1, <2>2, TypeParts DEF AllGone, Fresh
  <2>4. Terminals' = {} /\ memory.pinned \subseteq Pids
        /\ \A q \in Pids : proc'[q] \notin {"coming", "native"}
    BY <2>3, TypeParts DEF Terminals, Memories
  <2> QED BY <2>2, <2>3, <2>4
          DEF Processes, OneTerminal, NativeKnown, LaunchedAlone, AnnouncedByOne,
              NothingLeft, PinnedKnown
<1>2. CASE ~Launch
  <2>1. UNCHANGED <<proc, replaced>> /\ (journal' = <<>> \/ journal' = journal)
    BY <1>2, ScriptSteps
  <2>2. Normals' = Normals /\ Updaters' = Updaters /\ Terminals' = Terminals
    BY <2>1 DEF Normals, Updaters, Terminals
  <2>3. OneTerminal' /\ AnnouncedByOne' /\ NativeKnown'
    BY <2>1, <2>2 DEF Processes, OneTerminal, AnnouncedByOne, NativeKnown
  <2>4. ASSUME NEW p \in Pids, proc'[p] = "wine"
        PROVE  /\ \A q \in Pids \ {p} : proc'[q] \in {"unused", "gone"}
               /\ journal' = <<>> /\ place' \in {"ready_scan", "ready", "closed"}
               /\ place' = "ready" => memory'.scan = NoScan
    <3>1. /\ \A q \in Pids \ {p} : proc[q] \in {"unused", "gone"}
          /\ journal = <<>> /\ place \in {"ready_scan", "ready", "closed"}
          /\ place = "ready" => memory.scan = NoScan
      BY <2>1, <2>4 DEF Processes, LaunchedAlone
    <3>2. Seen = NoScan
      <4>1. proc[p] = "wine"
        BY <2>1, <2>4
      <4> QED BY <3>1, <4>1 DEF Seen, NoScan, Normals, Updaters
    <3>3. ~LaunchPending
      BY <3>1, EmptyJournal
    <3> QED BY <1>2, <2>1, <3>1, <3>2, <3>3, Turns
  <2>5. Seen = NoScan /\ place \notin {"ready_scan", "ready", "closed"} => LeftOver
    <3>1. ASSUME Seen = NoScan, place \notin {"ready_scan", "ready", "closed"},
                 NEW p \in Pids
          PROVE  Off(p) \/ (replaced /\ p \in Terminals)
      <4>1. Normals = {} /\ Updaters = {}
        BY <3>1 DEF Seen, NoScan
      <4>2. proc[p] \notin {"up", "started", "in", "update", "quiet"}
        BY <4>1 DEF Normals, Updaters
      <4>3. proc[p] # "coming" /\ proc[p] # "wine"
        BY <3>1, <4>1 DEF Processes, AnnouncedByOne, LaunchedAlone
      <4>4. proc[p] \in {"unused", "gone", "native"}
        BY <4>2, <4>3, TypeParts DEF States
      <4>5. proc[p] = "native" => replaced /\ p \in Terminals
        BY DEF Processes, NativeKnown, Terminals
      <4> QED BY <4>4, <4>5 DEF Off
    <3> QED BY <3>1 DEF LeftOver
  <2>6. NothingLeft'
    <3>1. LeftOver => LeftOver'
      BY <2>1, <2>2 DEF LeftOver, Off
    <3> QED BY <1>2, <2>5, <3>1, Turns DEF Processes, NothingLeft
  <2>7. PinnedKnown'
    <3>1. \A p \in Normals : proc[p] \notin {"unused", "native"}
      BY DEF Normals
    <3> QED BY <1>2, <2>1, <3>1, Turns DEF Processes, PinnedKnown
  <2> QED BY <2>3, <2>4, <2>6, <2>7 DEF Processes, LaunchedAlone
<1> QED BY <1>1, <1>2

(* What becomes of the processes when one moves. *)
LEMMA Motions ==
  ASSUME LifecycleTypeOK, Processes, NEW p \in Pids, Moves(p)
  PROVE  \/ UNCHANGED proc /\ p \in Normals
         \/ \E q \in Pids, x \in States :
              /\ proc' = [proc EXCEPT ![q] = x] /\ x # "unused" /\ x # "wine"
              /\ \/ proc[q] \in {"wine", "native"} /\ x = "up" /\ UNCHANGED journal
                 \/ p = q /\ p \in Normals /\ x \in {"started", "in"}
                 \/ /\ x = "gone" /\ UNCHANGED journal
                    /\ \/ q \in Normals /\ \A u \in Pids : proc[u] # "coming"
                       \/ q \in Updaters
                 \/ proc[q] = "coming" /\ x = "update"
                 \/ Fresh(q) /\ x \in {"coming", "quiet"} /\ p \in Normals /\ ~replaced
                 \/ /\ Fresh(q) /\ x = "native" /\ Terminals = {} /\ p \in Updaters
                    /\ ~replaced /\ replaced' /\ UNCHANGED journal
<1> USE DEF States
<1>1. CASE Appear(p)
  BY <1>1 DEF Appear, Becomes, Silent
<1>2. CASE StartUp(p) \/ LogInTo(p) \/ LoseLogin(p)
  BY <1>2 DEF StartUp, LogInTo, LoseLogin, Becomes, Normals
<1>5. CASE Prompt(p)
  BY <1>5 DEF Prompt
<1>6. CASE Leave(p)
  BY <1>6 DEF Leave, Silent
<1>7. CASE EndUpdate(p)
  BY <1>7 DEF EndUpdate, Silent, Updaters
<1>8. ASSUME NEW q \in Pids, StartUpdater(p, q)
      PROVE  /\ Fresh(q) /\ p \in Normals /\ ~replaced
             /\ \E x \in {"coming", "quiet"} : proc' = [proc EXCEPT ![q] = x]
  BY <1>8 DEF StartUpdater
<1>9. ASSUME NEW q \in Pids, Replace(p, q)
      PROVE  /\ Fresh(q) /\ p \in Updaters /\ Terminals = {} /\ UNCHANGED journal
             /\ proc' = [proc EXCEPT ![q] = "native"] /\ ~replaced /\ replaced'
  <2>1. /\ Fresh(q) /\ p \in Updaters /\ Normals = {} /\ UNCHANGED journal
        /\ proc' = [proc EXCEPT ![q] = "native"] /\ ~replaced /\ replaced'
    BY <1>9 DEF Replace
  <2>2. Terminals = {}
    BY <2>1 DEF Terminals, Normals, Processes, NativeKnown
  <2> QED BY <2>1, <2>2
<1> QED BY <1>1, <1>2, <1>5, <1>6, <1>7, <1>8, <1>9 DEF Moves

LEMMA ProcessesMove ==
  ASSUME LifecycleTypeOK, Processes, NEW p \in Pids, Moves(p)
  PROVE  Processes'
<1>0. proc \in [Pids -> States] /\ UNCHANGED <<place, memory>> /\ (replaced => replaced')
  BY TypeParts, MoveSteps
<1>1. NothingLeft'
  <2>1. ASSUME LeftOver PROVE LeftOver'
    <3>1. Updaters = {} /\ \A q \in Pids : proc[q] \notin {"wine", "coming"}
      BY <2>1 DEF LeftOver, Off, Updaters, Terminals
    <3>2. p \in Normals => replaced
      BY <2>1 DEF LeftOver, Off, Normals
    <3>3. \/ UNCHANGED proc
          \/ \E q \in Pids, x \in States :
               /\ proc' = [proc EXCEPT ![q] = x]
               /\ \/ proc[q] = "native" /\ x = "up"
                  \/ q \in Normals /\ x \in {"started", "in", "gone"}
      BY <3>1, <3>2, Motions
    <3> QED BY <1>0, <2>1, <3>3 DEF LeftOver, Off, Terminals, Normals
  <2> QED BY <1>0, <2>1 DEF Processes, NothingLeft
<1>2. CASE UNCHANGED proc /\ p \in Normals
  <2>1. \A q \in Pids : proc[q] # "wine"
    <3>1. proc[p] \in {"up", "started", "in"}
      BY <1>2 DEF Normals
    <3> QED BY <3>1 DEF Processes, LaunchedAlone
  <2>2. Normals' = Normals /\ Terminals' = Terminals
    BY <1>2 DEF Normals, Terminals
  <2>3. NativeKnown'
    BY <1>0, <1>2 DEF Processes, NativeKnown
  <2> QED BY <1>0, <1>1, <1>2, <2>1, <2>2, <2>3
          DEF Processes, OneTerminal, LaunchedAlone, AnnouncedByOne, PinnedKnown
<1>3. ASSUME NEW q \in Pids, NEW x \in States,
             proc' = [proc EXCEPT ![q] = x], x # "unused", x # "wine",
             \/ proc[q] \in {"wine", "native"} /\ x = "up"
             \/ p = q /\ p \in Normals /\ x \in {"started", "in"}
             \/ /\ x = "gone"
                /\ \/ q \in Normals /\ \A u \in Pids : proc[u] # "coming"
                   \/ q \in Updaters
             \/ proc[q] = "coming" /\ x = "update"
             \/ Fresh(q) /\ x \in {"coming", "quiet"} /\ p \in Normals
             \/ /\ Fresh(q) /\ x = "native" /\ Terminals = {} /\ p \in Updaters /\ replaced'
      PROVE  Processes'
  <2>1. proc'[q] = x /\ \A r \in Pids \ {q} : proc'[r] = proc[r]
    BY <1>0, <1>3
  <2>2. PinnedKnown'
    <3>1. memory.pinned \subseteq Pids
      BY TypeParts DEF Memories
    <3>2. x = "native" => q \notin memory.pinned
      BY <1>3, <3>1 DEF Processes, PinnedKnown, Fresh
    <3> QED BY <1>0, <1>3, <2>1, <3>1, <3>2 DEF Processes, PinnedKnown
  <2>n. NativeKnown'
    BY <1>0, <1>3, <2>1 DEF Processes, NativeKnown
  <2>3. ASSUME NEW r \in Pids, proc'[r] = "wine"
        PROVE  FALSE
    <3>1. r # q /\ proc[r] = "wine" /\ proc[q] \in {"unused", "gone"}
      BY <1>3, <2>1, <2>3 DEF Processes, LaunchedAlone
    <3>2. Normals = {} /\ Updaters = {}
      BY <3>1 DEF Processes, LaunchedAlone, Normals, Updaters
    <3> QED BY <1>3, <3>1, <3>2
  <2>4. LaunchedAlone'
    BY <2>3 DEF LaunchedAlone
  <2>5. /\ Normals' = IF x \in {"up", "started", "in"} THEN Normals \cup {q} ELSE Normals \ {q}
        /\ Terminals' = IF x \in {"native", "up", "started", "in"} THEN Terminals \cup {q}
                        ELSE Terminals \ {q}
        /\ Normals \subseteq Terminals
    BY <2>1 DEF Normals, Terminals
  <2>6. OneTerminal'
    <3>1. proc[q] = "wine" => Terminals = {}
      BY DEF Processes, LaunchedAlone, Terminals
    <3>2. proc[q] = "native" => q \in Terminals
      BY DEF Terminals
    <3> QED BY <1>3, <2>5, <3>1, <3>2 DEF Processes, OneTerminal
  <2>7. AnnouncedByOne'
    <3>1. ASSUME NEW u \in Pids, proc'[u] = "coming"
          PROVE  Normals' # {}
      <4>1. CASE u = q
        <5>1. q \notin Normals /\ p \in Normals
          BY <1>3, <2>1, <3>1, <4>1 DEF Normals, Fresh
        <5> QED BY <2>5, <5>1
      <4>2. CASE u # q
        <5>1. proc[u] = "coming" /\ Normals # {}
          BY <2>1, <3>1, <4>2 DEF Processes, AnnouncedByOne
        <5>2. q \in Normals => x # "gone"
          BY <1>3, <5>1 DEF Normals, Updaters
        <5> QED BY <1>3, <2>5, <5>1, <5>2 DEF Normals, Fresh
      <4> QED BY <4>1, <4>2
    <3> QED BY <3>1 DEF AnnouncedByOne
  <2> QED BY <1>1, <2>2, <2>n, <2>4, <2>6, <2>7 DEF Processes
<1> QED BY <1>2, <1>3, Motions

LEMMA ProcessesStart == LifecycleInit => LifecycleTypeOK /\ Processes
<1> SUFFICES ASSUME LifecycleInit PROVE LifecycleTypeOK /\ Processes
  OBVIOUS
<1>1. JournalTyped
  <2>1. <<>> \in Seq([what : What, by : Pids]) /\ Len(<<>>) = 0
    OBVIOUS
  <2>2. 0 \in 0..MaxRecords /\ 0 <= 0
    BY LifecycleAssumption
  <2> QED BY <2>1, <2>2 DEF JournalTyped, LifecycleInit
<1>2. LifecycleTypeOK
  BY <1>1, TypeParts DEF LifecycleInit, Places, Memories, States
<1>3. AllGone /\ Terminals = {} /\ memory.scan = NoScan
  BY DEF LifecycleInit, AllGone, Terminals, NoScan
<1>4. Processes
  BY <1>3 DEF LifecycleInit, AllGone, Processes, OneTerminal, NativeKnown, LaunchedAlone,
              AnnouncedByOne, NothingLeft, LeftOver, Off, PinnedKnown
<1> QED BY <1>2, <1>4

LEMMA ProcessesKept ==
  ASSUME LifecycleTypeOK, Processes, [LifecycleNext]_lifecycleVars, ~doubled'
  PROVE  Processes'
<1>1. CASE UNCHANGED lifecycleVars
  BY <1>1 DEF lifecycleVars, Processes, OneTerminal, NativeKnown, LaunchedAlone,
              AnnouncedByOne, NothingLeft, LeftOver, Off, PinnedKnown, Normals, Terminals
<1> QED BY <1>1, ProcessesTurn, ProcessesMove DEF LifecycleNext, Moves

(* The variables of the start of the terminal keep their types.            *)
THEOREM LifecycleTyped == LifecycleSpec => []LifecycleTypeOK
<1>1. LifecycleInit => LifecycleTypeOK
  BY ProcessesStart
<1>2. LifecycleTypeOK /\ [LifecycleNext]_lifecycleVars => LifecycleTypeOK'
  BY TypeKept
<1> QED BY <1>1, <1>2, PTL DEF LifecycleSpec

-----------------------------------------------------------------------------
(* The Journal *)

Startups    == {i \in DOMAIN journal : journal[i].what = "startup"}
Launched(i) == \E k \in DOMAIN journal : i < k /\ journal[k].what = "launch"

(* The startups that are not p's are from before an announced update. *)
ItsStartups(p) == \A i \in Startups : journal[i].by = p \/ Launched(i)

Earned(p) ==
  \E i, j \in DOMAIN journal :
    /\ i < j
    /\ journal[i] = [what |-> "startup", by |-> p]
    /\ journal[j] = [what |-> "authorized", by |-> p]

NoneUp == \A p \in Pids : proc[p] # "up"

(* The terminal that has not started up yet finds an empty Journal, unless *)
(* it is the one that an updater has brought.                              *)
UpIsFirst == journal # <<>> /\ ~replaced => NoneUp

AnnouncedIsLast ==
  (\E u \in Pids : proc[u] \in {"coming", "update"}) /\ ~replaced =>
    NoneUp /\ \A i \in Startups : Launched(i)

(* A terminal's first line is its startup. *)
OwnFirst(p) ==
  \A i \in Startups : journal[i].by # p =>
    \E k \in Startups : i < k /\ journal[k].by = p

OwnStartup == \A p \in Normals : proc[p] # "up" => OwnFirst(p)

InOrder ==
  \A i \in Startups : \A j \in DOMAIN journal : i < j =>
    \/ journal[j].by = journal[i].by
    \/ \E k \in Startups : i < k /\ k <= j /\ journal[k].by = journal[j].by

JournalInv == UpIsFirst /\ AnnouncedIsLast /\ OwnStartup /\ InOrder

LEMMA Written ==
  ASSUME JournalTyped, NEW p \in Pids, NEW what \in What, Write(p, what)
  PROVE  \E n \in Nat \ DOMAIN journal :
           /\ DOMAIN journal' = DOMAIN journal \cup {n}
           /\ \A i \in DOMAIN journal : i \in Nat /\ i < n /\ journal'[i] = journal[i]
           /\ journal'[n].what = what /\ journal'[n].by = p
           /\ Startups' = IF what = "startup" THEN Startups \cup {n} ELSE Startups
           /\ Startups \subseteq DOMAIN journal
<1> DEFINE r == [what |-> what, by |-> p]
<1>1. r \in [what : What, by : Pids] /\ journal' = Append(journal, r)
  BY DEF Write
<1>2. PICK n \in Nat \ DOMAIN journal :
           /\ DOMAIN journal' = DOMAIN journal \cup {n}
           /\ \A i \in DOMAIN journal : i \in Nat /\ i < n /\ journal'[i] = journal[i]
           /\ journal'[n] = r
  BY <1>1, JournalGrows
<1>3. r.what = what /\ r.by = p
  OBVIOUS
<1>4. Startups' = IF what = "startup" THEN Startups \cup {n} ELSE Startups
  BY <1>2, <1>3 DEF Startups
<1>5. Startups \subseteq DOMAIN journal
  BY DEF Startups
<1> QED BY <1>2, <1>3, <1>4, <1>5

LEMMA WrittenStartups ==
  ASSUME JournalTyped, NEW p \in Pids, NEW what \in What, Write(p, what)
  PROVE  /\ \A i \in Startups' : \/ i \in Startups /\ journal'[i].by = journal[i].by
                                 \/ what = "startup" /\ journal'[i].by = p
         /\ \A i \in Startups : Launched(i) => Launched(i)'
         /\ what = "launch" => \A i \in Startups' : Launched(i)'
         /\ what # "startup" => Startups' = Startups
         /\ journal' # <<>>
<1>2. PICK n \in Nat \ DOMAIN journal :
           /\ DOMAIN journal' = DOMAIN journal \cup {n}
           /\ \A i \in DOMAIN journal : i \in Nat /\ i < n /\ journal'[i] = journal[i]
           /\ journal'[n].what = what /\ journal'[n].by = p
           /\ Startups' = IF what = "startup" THEN Startups \cup {n} ELSE Startups
           /\ Startups \subseteq DOMAIN journal
  BY Written
<1>3. ASSUME NEW i \in Startups, Launched(i) PROVE Launched(i)'
  <2>1. PICK k \in DOMAIN journal : i < k /\ journal[k].what = "launch"
    BY <1>3 DEF Launched
  <2>2. k \in DOMAIN journal' /\ journal'[k] = journal[k]
    BY <1>2
  <2> QED BY <2>1, <2>2 DEF Launched
<1>4. what = "launch" => \A i \in Startups' : Launched(i)'
  BY <1>2 DEF Launched
<1>5. journal' # <<>>
  BY <1>2
<1>6. \A i \in Startups' : \/ i \in Startups /\ journal'[i].by = journal[i].by
                           \/ what = "startup" /\ journal'[i].by = p
  BY <1>2
<1>7. what # "startup" => Startups' = Startups
  BY <1>2
<1>8. \A i \in Startups : Launched(i) => Launched(i)'
  BY <1>3
<1> QED BY <1>4, <1>5, <1>6, <1>7, <1>8

LEMMA WrittenOrder ==
  ASSUME JournalTyped, NEW p \in Pids, NEW what \in What, Write(p, what),
         InOrder, what = "startup" \/ OwnFirst(p)
  PROVE  OwnFirst(p)' /\ InOrder'
<1>2. PICK n \in Nat \ DOMAIN journal :
           /\ DOMAIN journal' = DOMAIN journal \cup {n}
           /\ \A i \in DOMAIN journal : i \in Nat /\ i < n /\ journal'[i] = journal[i]
           /\ journal'[n].what = what /\ journal'[n].by = p
           /\ Startups' = IF what = "startup" THEN Startups \cup {n} ELSE Startups
           /\ Startups \subseteq DOMAIN journal
  BY Written
<1>3. OwnFirst(p)'
  BY <1>2 DEF OwnFirst
<1>4. ASSUME NEW i \in Startups', NEW j \in DOMAIN journal', i < j
      PROVE  \/ journal'[j].by = journal'[i].by
             \/ \E k \in Startups' : i < k /\ k <= j /\ journal'[k].by = journal'[j].by
  <2>1. i # n
    BY <1>2, <1>4
  <2>2. i \in Startups /\ i \in DOMAIN journal
    BY <1>2, <2>1
  <2>3. CASE j = n
    <3>1. CASE what = "startup"
      BY <1>2, <1>4, <2>3, <3>1
    <3>2. CASE OwnFirst(p)
      <4>1. \/ journal[i].by = p
            \/ \E k \in Startups : i < k /\ journal[k].by = p
        BY <2>2, <3>2 DEF OwnFirst
      <4> QED BY <1>2, <2>2, <2>3, <4>1
    <3> QED BY <3>1, <3>2
  <2>4. CASE j # n
    <3>1. j \in DOMAIN journal
      BY <1>2, <2>4
    <3> QED BY <1>2, <1>4, <2>2, <3>1 DEF InOrder
  <2> QED BY <2>3, <2>4
<1>5. InOrder'
  BY <1>4 DEF InOrder
<1> QED BY <1>3, <1>5

LEMMA WrittenEarned ==
  ASSUME JournalTyped, NEW p \in Pids, NEW what \in What, Write(p, what), NEW q, Earned(q)
  PROVE  Earned(q)'
<1>2. PICK n \in Nat \ DOMAIN journal :
           /\ DOMAIN journal' = DOMAIN journal \cup {n}
           /\ \A i \in DOMAIN journal : i \in Nat /\ i < n /\ journal'[i] = journal[i]
  BY Written
<1> QED BY <1>2 DEF Earned

(* Who writes, and what becomes of the writer. *)
LEMMA Writers ==
  ASSUME LifecycleTypeOK, NEW p \in Pids, Moves(p)
  PROVE  \/ UNCHANGED journal
         \/ /\ p \in Normals /\ UNCHANGED replaced
            /\ \E what \in What :
                 /\ Write(p, what)
                 /\ \/ /\ what = "startup" /\ proc[p] = "up"
                       /\ proc' = [proc EXCEPT ![p] = "started"]
                    \/ /\ what = "launch" /\ proc[p] # "up"
                       /\ \E u \in Pids : Fresh(u) /\ proc' = [proc EXCEPT ![u] = "coming"]
                    \/ /\ what \notin {"startup", "launch"} /\ proc[p] # "up"
                       /\ \/ UNCHANGED proc
                          \/ \E x \in {"started", "in"} : proc' = [proc EXCEPT ![p] = x]
<1> USE DEF What
<1>1. CASE Appear(p)
  BY <1>1 DEF Appear, Silent
<1>2. CASE StartUp(p)
  BY <1>2 DEF StartUp, Becomes, Normals, Write
<1>3. CASE LogInTo(p)
  BY <1>3 DEF LogInTo, Becomes, Normals, Write
<1>4. CASE LoseLogin(p)
  BY <1>4 DEF LoseLogin, Becomes, Normals, Write
<1>5. CASE Prompt(p)
  BY <1>5 DEF Prompt, Write
<1>6. CASE Leave(p)
  BY <1>6 DEF Leave, Silent
<1>7. CASE EndUpdate(p)
  BY <1>7 DEF EndUpdate, Silent
<1>8. ASSUME NEW q \in Pids, StartUpdater(p, q)
      PROVE  \/ UNCHANGED journal
             \/ /\ p \in Normals /\ UNCHANGED replaced /\ Write(p, "launch")
                /\ proc[p] # "up" /\ Fresh(q) /\ proc' = [proc EXCEPT ![q] = "coming"]
  BY <1>8 DEF StartUpdater, Write, Silent
<1>9. ASSUME NEW q \in Pids, Replace(p, q)
      PROVE  UNCHANGED journal
  BY <1>9 DEF Replace
<1>10. CASE \E q \in Pids : StartUpdater(p, q) \/ Replace(p, q)
  BY <1>8, <1>9, <1>10
<1> QED BY <1>1, <1>2, <1>3, <1>4, <1>5, <1>6, <1>7, <1>10 DEF Moves

(* The terminals there are after a move. *)
LEMMA Arrivals ==
  ASSUME LifecycleTypeOK, Processes, NEW p \in Pids, Moves(p),
         NEW q \in Terminals', q \notin Terminals
  PROVE  /\ q \in Pids /\ Terminals = {} /\ UNCHANGED journal
         /\ \/ proc[q] = "wine"
            \/ proc[q] = "unused" /\ p \in Updaters /\ ~replaced /\ replaced'
<1>0. proc \in [Pids -> States] /\ q \in Pids /\ proc'[q] \in {"native", "up", "started", "in"}
      /\ proc[q] \notin {"native", "up", "started", "in"}
  BY TypeParts DEF Terminals
<1>1. PICK r \in Pids, x \in States :
         /\ proc' = [proc EXCEPT ![r] = x]
         /\ \/ proc[r] = "wine" /\ UNCHANGED journal
            \/ proc[r] = "native" \/ r \in Normals
            \/ x \notin {"native", "up", "started", "in"}
            \/ /\ Fresh(r) /\ Terminals = {} /\ p \in Updaters
               /\ ~replaced /\ replaced' /\ UNCHANGED journal
  BY <1>0, Motions
<1>2. r = q /\ x = proc'[q]
  BY <1>0, <1>1
<1>3. proc[q] = "wine" => Terminals = {}
  BY <1>0 DEF Processes, LaunchedAlone, Terminals
<1>4. q \notin Normals
  BY <1>0 DEF Normals
<1> QED BY <1>0, <1>1, <1>2, <1>3, <1>4 DEF Fresh

(* A terminal that comes into sight is one the script has launched or one  *)
(* an updater has started.                                                 *)
LEMMA Sights ==
  ASSUME LifecycleTypeOK, Processes, NEW p \in Pids, Moves(p), NEW q \in Normals', q \notin Normals
  PROVE  /\ q \in Pids /\ proc'[q] = "up"
         /\ \/ proc[q] = "wine" /\ journal = <<>> /\ UNCHANGED journal
               /\ \A u \in Pids \ {q} : proc[u] \in {"unused", "gone"}
            \/ proc[q] = "native" /\ replaced
<1>0. proc \in [Pids -> States] /\ q \in Pids /\ proc'[q] \in {"up", "started", "in"}
      /\ proc[q] \notin {"up", "started", "in"}
  BY TypeParts DEF Normals
<1>1. PICK r \in Pids, x \in States :
         /\ proc' = [proc EXCEPT ![r] = x]
         /\ \/ proc[r] \in {"wine", "native"} /\ x = "up" /\ UNCHANGED journal
            \/ r \in Normals
            \/ x \notin {"up", "started", "in"}
  BY <1>0, Motions
<1>2. r = q /\ x = proc'[q]
  BY <1>0, <1>1
<1>3. proc[q] = "native" => replaced
  BY <1>0 DEF Processes, NativeKnown
<1>4. proc[q] = "wine" => /\ journal = <<>>
                          /\ \A u \in Pids \ {q} : proc[u] \in {"unused", "gone"}
  BY <1>0 DEF Processes, LaunchedAlone
<1>5. q \notin Normals
  OBVIOUS
<1> QED BY <1>0, <1>1, <1>2, <1>3, <1>4, <1>5

LEMMA NewUps ==
  ASSUME LifecycleTypeOK, Processes, NEW p \in Pids, Moves(p), ~replaced',
         NEW q \in Pids, proc'[q] = "up", proc[q] # "up"
  PROVE  /\ proc[q] = "wine" /\ journal = <<>> /\ UNCHANGED journal
         /\ \A u \in Pids \ {q} : proc[u] \in {"unused", "gone"}
<1>0. proc \in [Pids -> States] /\ ~replaced
  BY TypeParts, MoveSteps
<1>1. q \in Normals'
  BY DEF Normals
<1>2. q \notin Normals
  <2>1. q \in Normals => proc'[q] # "up"
    BY <1>0, Motions DEF Normals, Fresh, Updaters
  <2> QED BY <2>1
<1> QED BY <1>0, <1>1, <1>2, Sights

LEMMA NewAnnounced ==
  ASSUME LifecycleTypeOK, NEW p \in Pids, Moves(p),
         NEW u \in Pids, proc'[u] \in {"coming", "update"}
  PROVE  \/ proc[u] \in {"coming", "update"}
         \/ p \in Normals /\ Write(p, "launch")
<1>0. proc \in [Pids -> States]
  BY TypeParts
<1>1. ASSUME NEW q \in Pids, StartUpdater(p, q)
      PROVE  proc[u] \in {"coming", "update"} \/ (p \in Normals /\ Write(p, "launch"))
  BY <1>0, <1>1 DEF StartUpdater
<1>2. ASSUME NEW q \in Pids, Replace(p, q)
      PROVE  proc[u] \in {"coming", "update"}
  BY <1>0, <1>2 DEF Replace
<1>3. CASE ~ \E q \in Pids : StartUpdater(p, q) \/ Replace(p, q)
  BY <1>0, <1>3 DEF Moves, Appear, StartUp, LogInTo, LoseLogin, Prompt, Leave, EndUpdate,
                    Becomes
<1> QED BY <1>1, <1>2, <1>3

LEMMA SameJournal ==
  ASSUME UNCHANGED journal
  PROVE  /\ Startups' = Startups
         /\ \A i : Launched(i)' <=> Launched(i)
         /\ \A q : (OwnFirst(q)' <=> OwnFirst(q)) /\ (Earned(q)' <=> Earned(q))
         /\ \A q : ItsStartups(q)' <=> ItsStartups(q)
         /\ InOrder' <=> InOrder
<1>1. Startups' = Startups
  BY DEF Startups
<1>2. \A i : Launched(i)' <=> Launched(i)
  BY DEF Launched
<1>3. \A q : (OwnFirst(q)' <=> OwnFirst(q)) /\ (Earned(q)' <=> Earned(q))
  BY <1>1 DEF OwnFirst, Earned
<1>4. \A q : ItsStartups(q)' <=> ItsStartups(q)
  BY <1>1, <1>2 DEF ItsStartups
<1>5. InOrder' <=> InOrder
  BY <1>1 DEF InOrder
<1> QED BY <1>1, <1>2, <1>3, <1>4, <1>5

LEMMA JournalMove ==
  ASSUME LifecycleTypeOK, Processes, JournalInv, NEW p \in Pids, Moves(p)
  PROVE  JournalInv'
<1>0. proc \in [Pids -> States] /\ JournalTyped /\ (replaced => replaced')
  BY TypeParts, MoveSteps
<1>1. \A q \in Pids : proc'[q] = "up" /\ ~replaced' =>
         \/ proc[q] = "up"
         \/ /\ journal = <<>> /\ UNCHANGED journal
            /\ \A u \in Pids \ {q} : proc[u] \in {"unused", "gone"}
  BY NewUps
<1>2. CASE UNCHANGED journal
  <2>1. UpIsFirst'
    BY <1>0, <1>1, <1>2 DEF JournalInv, UpIsFirst, NoneUp
  <2>2. ASSUME NEW u \in Pids, proc'[u] \in {"coming", "update"}, ~replaced'
        PROVE  NoneUp' /\ \A i \in Startups' : Launched(i)'
    <3>1. ~ Write(p, "launch")
      <4>1. "launch" \in What
        BY DEF What
      <4>2. \A n \in Nat \ DOMAIN journal : DOMAIN journal # DOMAIN journal \cup {n}
        OBVIOUS
      <4> QED BY <1>0, <1>2, <4>1, <4>2, Written
    <3>2. proc[u] \in {"coming", "update"}
      BY <2>2, <3>1, NewAnnounced
    <3>3. NoneUp /\ \A i \in Startups : Launched(i)
      BY <1>0, <2>2, <3>2 DEF JournalInv, AnnouncedIsLast
    <3>4. NoneUp'
      <4>1. ASSUME NEW q \in Pids, proc'[q] = "up"
            PROVE  FALSE
        <5>1. \A r \in Pids \ {q} : proc[r] \in {"unused", "gone"}
          BY <1>1, <2>2, <3>3, <4>1 DEF NoneUp
        <5>2. u = q
          BY <3>2, <5>1
        <5> QED BY <2>2, <4>1, <5>2
      <4> QED BY <4>1 DEF NoneUp
    <3> QED BY <1>2, <3>3, <3>4, SameJournal
  <2>3. AnnouncedIsLast'
    BY <2>2 DEF AnnouncedIsLast
  <2>4. ASSUME NEW q \in Normals', proc'[q] # "up"
        PROVE  OwnFirst(q)'
    <3>1. q \in Normals
      BY <2>4, Sights
    <3>2. CASE proc[q] # "up"
      BY <1>2, <3>1, <3>2, SameJournal DEF JournalInv, OwnStartup
    <3>3. CASE proc[q] = "up"
      <4>1. StartUp(p)
        BY <1>0, <2>4, <3>1, <3>3
           DEF Moves, Appear, LogInTo, LoseLogin, Prompt, Leave, EndUpdate, StartUpdater,
               Replace, Becomes, Normals, Updaters, Fresh
      <4>2. "startup" \in What /\ Write(p, "startup")
        BY <4>1 DEF StartUp, What
      <4>3. \A n \in Nat \ DOMAIN journal : DOMAIN journal # DOMAIN journal \cup {n}
        OBVIOUS
      <4> QED BY <1>0, <1>2, <4>2, <4>3, Written
    <3> QED BY <3>2, <3>3
  <2>5. OwnStartup'
    BY <2>4 DEF OwnStartup
  <2>6. InOrder'
    BY <1>2, SameJournal DEF JournalInv
  <2> QED BY <2>1, <2>3, <2>5, <2>6 DEF JournalInv
<1>3. ASSUME NEW what \in What, Write(p, what), p \in Normals, UNCHANGED replaced,
             \/ /\ what = "startup" /\ proc[p] = "up"
                /\ proc' = [proc EXCEPT ![p] = "started"]
             \/ /\ what = "launch" /\ proc[p] # "up"
                /\ \E u \in Pids : Fresh(u) /\ proc' = [proc EXCEPT ![u] = "coming"]
             \/ /\ what \notin {"startup", "launch"} /\ proc[p] # "up"
                /\ \/ UNCHANGED proc
                   \/ \E x \in {"started", "in"} : proc' = [proc EXCEPT ![p] = x]
      PROVE  JournalInv'
  <2>1. Normals = {p} /\ Normals' = {p} /\ proc'[p] # "up"
        /\ \A q \in Pids \ {p} : proc'[q] # "up"
    <3>1. Normals = {p}
      BY <1>3 DEF Processes, OneTerminal, Terminals, Normals
    <3>2. \A q \in Pids \ {p} : proc[q] \notin {"up", "started", "in"}
      BY <3>1 DEF Normals
    <3> QED BY <1>0, <1>3, <3>1, <3>2 DEF Normals, Fresh
  <2>2. NoneUp' /\ UpIsFirst'
    BY <2>1 DEF NoneUp, UpIsFirst
  <2>3. what = "startup" \/ OwnFirst(p)
    BY <1>3 DEF JournalInv, OwnStartup
  <2>4. InOrder' /\ OwnFirst(p)'
    BY <1>0, <1>3, <2>3, WrittenOrder DEF JournalInv
  <2>5. OwnStartup'
    BY <2>1, <2>4 DEF OwnStartup
  <2>6. ASSUME NEW u \in Pids, proc'[u] \in {"coming", "update"}, ~replaced'
        PROVE  \A i \in Startups' : Launched(i)'
    <3>1. CASE what = "launch"
      BY <1>0, <1>3, <3>1, WrittenStartups
    <3>2. CASE what # "launch"
      <4>1. proc[u] \in {"coming", "update"} /\ ~replaced
        BY <1>0, <1>3, <2>6, <3>2
      <4>2. NoneUp /\ \A i \in Startups : Launched(i)
        BY <4>1 DEF JournalInv, AnnouncedIsLast
      <4>3. what # "startup"
        BY <1>3, <4>2 DEF NoneUp
      <4> QED BY <1>0, <1>3, <4>2, <4>3, WrittenStartups
    <3> QED BY <3>1, <3>2
  <2>7. AnnouncedIsLast'
    BY <2>2, <2>6 DEF AnnouncedIsLast
  <2> QED BY <2>2, <2>4, <2>5, <2>7 DEF JournalInv
<1> QED BY <1>2, <1>3, Writers

LEMMA JournalTurn ==
  ASSUME LifecycleTypeOK, Processes, JournalInv, Lifecycle
  PROVE  JournalInv'
<1>0. UNCHANGED replaced /\ (journal' = <<>> \/ UNCHANGED journal)
  BY ScriptSteps
<1>1. /\ \A p \in Pids : proc'[p] \in {"up", "coming", "update"} => proc'[p] = proc[p]
      /\ Normals' \subseteq Normals /\ \A p \in Normals' : proc'[p] = proc[p]
  BY ScriptSteps, TypeParts DEF Normals
<1>2. CASE journal' = <<>>
  <2>1. DOMAIN journal' = {} /\ Startups' = {}
    BY <1>2 DEF Startups
  <2>2. UpIsFirst' /\ OwnStartup' /\ InOrder'
    BY <1>2, <2>1 DEF UpIsFirst, OwnStartup, OwnFirst, InOrder
  <2>3. AnnouncedIsLast'
    <3>1. ASSUME NEW u \in Pids, proc'[u] \in {"coming", "update"}, ~replaced'
          PROVE  NoneUp'
      BY <1>0, <1>1, <3>1 DEF JournalInv, AnnouncedIsLast, NoneUp
    <3> QED BY <2>1, <3>1 DEF AnnouncedIsLast
  <2> QED BY <2>2, <2>3 DEF JournalInv
<1>3. CASE UNCHANGED journal
  <2>1. NoneUp => NoneUp'
    BY <1>1 DEF NoneUp
  <2>2. UpIsFirst'
    BY <1>0, <1>3, <2>1 DEF JournalInv, UpIsFirst
  <2>3. AnnouncedIsLast'
    BY <1>0, <1>1, <1>3, <2>1, SameJournal DEF JournalInv, AnnouncedIsLast
  <2>4. OwnStartup' /\ InOrder'
    BY <1>1, <1>3, SameJournal DEF JournalInv, OwnStartup
  <2> QED BY <2>2, <2>3, <2>4 DEF JournalInv
<1> QED BY <1>0, <1>2, <1>3

LEMMA JournalStart == LifecycleInit => JournalInv
BY DEF LifecycleInit, JournalInv, UpIsFirst, AnnouncedIsLast, OwnStartup, OwnFirst, InOrder,
       Startups, NoneUp

-----------------------------------------------------------------------------
(* What the script may conclude *)

OnlyIts(p) == \A i \in Startups : journal[i].by = p
Unscanned  == \E u \in Pids : proc[u] = "quiet" /\ u \notin memory.scan.update

(* A scan that shows no terminal: there is none but the one a launch or an *)
(* updater brings.                                                         *)
ScannedNone ==
  place \in {"ready", "auth", "update"} /\ memory.scan.normal = {} =>
    Normals = {} \/ replaced \/ (place = "ready" /\ memory.scan.update = {})

(* Why a snapshot taken without a terminal is safe to wait on. *)
SafeSnapshot ==
  place \in {"update_scan", "update"} /\ memory.safe =>
    /\ \A p \in Terminals : OnlyIts(p)
    /\ ~replaced => Startups = {} /\ NoneUp

UpdaterKnown ==
  memory.scan.update # {} =>
    \/ place \in {"ready", "auth", "persist", "update", "serve", "closed"}
    \/ place = "update_scan" /\ memory.saw

(* The Journal mixes two terminals only while the script has an updater to *)
(* see, has seen it and will turn away, or no longer reads.                *)
MixedIsNoticed ==
  (\E p \in Terminals : ~ItsStartups(p)) =>
    \/ Unscanned
    \/ place \in {"ready", "auth", "persist"} /\ memory.scan.update # {}
    \/ /\ place \in {"update_scan", "update"} /\ ~memory.safe
       /\ memory.saw \/ (place = "update" /\ memory.scan.update # {})
    \/ place \in {"snapshot", "serve", "closed"}

PinnedStarted ==
  place \in {"auth_scan", "auth", "auth_confirm", "hold", "hold_again"} =>
    \A p \in memory.pinned \cap Normals : ItsStartups(p)

PinnedLoggedIn ==
  place = "auth_confirm" => \A p \in memory.pinned \cap Normals : Earned(p)

Verified ==
  place = "verified" =>
    \E p \in Pids : /\ memory.pinned = {p} /\ Earned(p)
                    /\ replaced \/ Terminals \subseteq {p}

(* The terminal may be replaced while its account is awaited. *)
StillVerified ==
  place \in {"persist_scan", "persist"} =>
    \A p \in memory.pinned :
      \/ Earned(p)
      \/ /\ replaced /\ Terminals \subseteq {p}
         /\ \/ ItsStartups(p) \/ Unscanned
            \/ place = "persist" /\ memory.scan.update # {}

SnapshotVerified ==
  place = "snapshot" => \E p \in Pids : memory.pinned = {p} /\ Earned(p)

ScriptInv ==
  /\ ScannedNone /\ SafeSnapshot /\ UpdaterKnown /\ MixedIsNoticed
  /\ PinnedStarted /\ PinnedLoggedIn /\ Verified /\ StillVerified /\ SnapshotVerified

(* A login that counts is that of the last terminal to start up, and this  *)
(* is p if no other has started up since the last announced update.        *)
LEMMA LoginIsIts ==
  ASSUME LifecycleTypeOK, InOrder, NEW p \in Pids, ItsStartups(p),
         ~LaunchPending, JournalAuthorized
  PROVE  Earned(p)
<1> DEFINE st == LastOf({"startup"})
           la == LastOf({"launch"})
           au == LastOf({"authorized"})
           no == LastOf({"startup", "lost", "launch", "prompt"})
<1>0. {"startup"} \in SUBSET What /\ {"launch"} \in SUBSET What
      /\ {"authorized"} \in SUBSET What /\ {"startup", "lost", "launch", "prompt"} \in SUBSET What
  BY DEF What
<1>1. /\ st \in Nat /\ st > 0 /\ la \in Nat /\ ~(la > st) /\ au \in Nat /\ no \in Nat /\ au > no
  BY <1>0, LastIsLast DEF LaunchPending, JournalAuthorized, JournalStarted
<1>2. /\ st \in DOMAIN journal /\ journal[st].what \in {"startup"}
      /\ \A i \in DOMAIN journal : journal[i].what \in {"startup"} => i <= st
      /\ DOMAIN journal \subseteq Nat \ {0}
  BY <1>0, <1>1, LastIsLast
<1>3. \A i \in DOMAIN journal : journal[i].what \in {"launch"} => i <= la
  BY <1>0, LastIsLast
<1>4. st <= no
  BY <1>0, <1>2, LastIsLast
<1>5. au \in DOMAIN journal /\ journal[au].what \in {"authorized"}
  BY <1>0, <1>1, LastIsLast
<1> HIDE DEF st, la, au, no
<1>6. st \in Startups /\ st < au
  BY <1>1, <1>2, <1>4 DEF Startups
<1>7. journal[st].by = p
  <2>1. ~Launched(st)
    BY <1>1, <1>2, <1>3 DEF Launched
  <2> QED BY <1>6, <2>1 DEF ItsStartups
<1>8. journal[au].by = p
  <2>1. \A k \in Startups : k \in Nat /\ k <= st
    BY <1>2 DEF Startups
  <2> QED BY <1>1, <1>5, <1>6, <1>7, <2>1 DEF InOrder
<1>9. journal \in Seq([what : What, by : Pids])
  BY TypeParts DEF JournalTyped
<1>10. /\ journal[st] = [what |-> "startup", by |-> p]
       /\ journal[au] = [what |-> "authorized", by |-> p]
  <2>1. /\ journal[st] \in [what : What, by : Pids]
        /\ journal[au] \in [what : What, by : Pids]
    BY <1>2, <1>5, <1>9, ItsElement
  <2>2. \A r \in [what : What, by : Pids] : r = [what |-> r.what, by |-> r.by]
    OBVIOUS
  <2>3. journal[st].what = "startup" /\ journal[au].what = "authorized"
    BY <1>2, <1>5
  <2> QED BY <1>7, <1>8, <2>1, <2>2, <2>3
<1> QED BY <1>2, <1>5, <1>6, <1>10 DEF Earned

LEMMA NothingPending ==
  ASSUME LifecycleTypeOK, ~UpdatePending
  PROVE  ~LaunchPending /\ Updaters = {}
<1>0. {"startup"} \in SUBSET What /\ {"launch"} \in SUBSET What
      /\ {"launch", "prompt"} \in SUBSET What
  BY DEF What
<1>1. LastOf({"launch"}) <= LastOf({"launch", "prompt"})
  <2>1. \A i \in DOMAIN journal : journal[i].what \in {"launch", "prompt"} =>
          i <= LastOf({"launch", "prompt"})
    BY <1>0, LastIsLast
  <2>2. LastOf({"launch"}) # 0 => /\ LastOf({"launch"}) \in DOMAIN journal
                                 /\ journal[LastOf({"launch"})].what \in {"launch"}
    BY <1>0, LastIsLast
  <2>3. LastOf({"launch", "prompt"}) \in Nat
    BY <1>0, LastIsLast
  <2> QED BY <2>1, <2>2, <2>3
<1>2. /\ LastOf({"launch"}) \in Nat /\ LastOf({"launch", "prompt"}) \in Nat
      /\ LastOf({"startup"}) \in Nat
  BY <1>0, LastIsLast
<1> QED BY <1>1, <1>2 DEF UpdatePending, LaunchPending

(* What a move leaves of it. *)
LEMMA MoveLeaves ==
  ASSUME LifecycleTypeOK, Processes, NEW p \in Pids, Moves(p)
  PROVE  /\ \A q : Earned(q) => Earned(q)'
         /\ \A q \in Pids : Normals \subseteq {q} /\ ItsStartups(q) => ItsStartups(q)'
         /\ \A q \in Pids : Normals \subseteq {q} /\ OnlyIts(q) => OnlyIts(q)'
         /\ Startups = {} /\ NoneUp => Startups' = {}
         /\ Unscanned => Unscanned'
         /\ UNCHANGED <<place, memory>> /\ place # "closed"
         /\ replaced => replaced'
<1>0. JournalTyped /\ UNCHANGED <<place, memory>> /\ place # "closed" /\ (replaced => replaced')
  BY TypeParts, MoveSteps
<1>1. Unscanned => Unscanned'
  <2>1. ASSUME NEW u \in Pids, proc[u] = "quiet", u \notin memory.scan.update
        PROVE  proc'[u] = "quiet"
    <3>1. ~EndUpdate(u)
      BY <2>1 DEF EndUpdate
    <3>2. ASSUME NEW q \in Pids, StartUpdater(p, q) \/ Replace(p, q)
          PROVE  proc'[u] = "quiet"
      BY <2>1, <3>2, TypeParts DEF StartUpdater, Replace, Fresh
    <3>3. CASE ~ \E q \in Pids : StartUpdater(p, q) \/ Replace(p, q)
      BY <2>1, <3>1, <3>3, TypeParts
         DEF Moves, Appear, StartUp, LogInTo, LoseLogin, Prompt, Leave, EndUpdate, Becomes,
             Normals
    <3> QED BY <3>2, <3>3
  <2> QED BY <1>0, <2>1 DEF Unscanned
<1>2. CASE UNCHANGED journal
  <2>1. \A q : OnlyIts(q)' <=> OnlyIts(q)
    BY <1>2, SameJournal DEF OnlyIts
  <2> QED BY <1>0, <1>1, <1>2, <2>1, SameJournal
<1>3. ASSUME NEW what \in What, Write(p, what), p \in Normals,
             what = "startup" => proc[p] = "up"
      PROVE  /\ \A q : Earned(q) => Earned(q)'
             /\ \A q \in Pids : Normals \subseteq {q} /\ ItsStartups(q) => ItsStartups(q)'
             /\ \A q \in Pids : Normals \subseteq {q} /\ OnlyIts(q) => OnlyIts(q)'
             /\ Startups = {} /\ NoneUp => Startups' = {}
  <2>1. \A q : Earned(q) => Earned(q)'
    BY <1>0, <1>3, WrittenEarned
  <2>2. /\ \A i \in Startups' : \/ i \in Startups /\ journal'[i].by = journal[i].by
                                \/ what = "startup" /\ journal'[i].by = p
        /\ \A i \in Startups : Launched(i) => Launched(i)'
        /\ what # "startup" => Startups' = Startups
    BY <1>0, <1>3, WrittenStartups
  <2>3. ASSUME NEW q \in Pids, Normals \subseteq {q}, ItsStartups(q)
        PROVE  ItsStartups(q)'
    BY <1>3, <2>2, <2>3 DEF ItsStartups
  <2>4. ASSUME NEW q \in Pids, Normals \subseteq {q}, OnlyIts(q)
        PROVE  OnlyIts(q)'
    BY <1>3, <2>2, <2>4 DEF OnlyIts
  <2>5. Startups = {} /\ NoneUp => Startups' = {}
    BY <1>3, <2>2 DEF NoneUp
  <2> QED BY <2>1, <2>3, <2>4, <2>5
<1> QED BY <1>0, <1>1, <1>2, <1>3, Writers

LEMMA ScriptMove ==
  ASSUME LifecycleTypeOK, Processes, JournalInv, ScriptInv, NEW p \in Pids, Moves(p)
  PROVE  ScriptInv'
<1>0. /\ UNCHANGED <<place, memory>> /\ place # "closed"
      /\ proc \in [Pids -> States] /\ memory.pinned \subseteq Pids
      /\ replaced => replaced'
  BY MoveLeaves, TypeParts DEF Memories
<1>1. /\ \A q : Earned(q) => Earned(q)'
      /\ \A q \in Pids : Normals \subseteq {q} /\ ItsStartups(q) => ItsStartups(q)'
      /\ \A q \in Pids : Normals \subseteq {q} /\ OnlyIts(q) => OnlyIts(q)'
      /\ Unscanned => Unscanned'
  BY MoveLeaves
<1>2. /\ Normals \subseteq Terminals /\ Terminals \subseteq Pids /\ Terminals' \subseteq Pids
      /\ \A q \in Terminals : Terminals \subseteq {q}
      /\ \A q \in Terminals : Normals \subseteq {q}
  BY DEF Normals, Terminals, Processes, OneTerminal
<1>3. ASSUME NEW q \in Terminals', q \notin Terminals
      PROVE  /\ Terminals = {} /\ UNCHANGED journal
             /\ \/ /\ proc[q] = "wine" /\ place \in {"ready_scan", "ready"}
                   /\ place = "ready" => memory.scan = NoScan
                   /\ journal = <<>>
                \/ proc[q] = "unused" /\ ~replaced /\ replaced' /\ p \in Updaters
  <2>1. /\ q \in Pids /\ Terminals = {} /\ UNCHANGED journal
        /\ \/ proc[q] = "wine"
           \/ proc[q] = "unused" /\ p \in Updaters /\ ~replaced /\ replaced'
    BY <1>3, Arrivals
  <2>2. proc[q] = "wine" => /\ place \in {"ready_scan", "ready"}
                            /\ place = "ready" => memory.scan = NoScan
                            /\ journal = <<>>
    BY <1>0, <2>1 DEF Processes, LaunchedAlone
  <2> QED BY <2>1, <2>2
<1>s. ASSUME NEW q \in Normals', q \notin Normals
      PROVE  \/ /\ proc[q] = "wine" /\ place \in {"ready_scan", "ready"}
                /\ place = "ready" => memory.scan = NoScan
             \/ proc[q] = "native" /\ replaced
  <2>1. q \in Pids /\ (proc[q] = "wine" \/ (proc[q] = "native" /\ replaced))
    BY <1>s, Sights
  <2> QED BY <1>0, <2>1 DEF Processes, LaunchedAlone
<1>4. ScannedNone'
  BY <1>0, <1>s DEF ScriptInv, ScannedNone, NoScan
<1>5. SafeSnapshot'
  <2>1. ASSUME place \in {"update_scan", "update"}, memory.safe, NEW q \in Terminals'
        PROVE  OnlyIts(q)'
    <3>1. CASE q \in Terminals
      BY <1>1, <1>2, <2>1, <3>1 DEF ScriptInv, SafeSnapshot
    <3>2. CASE q \notin Terminals
      <4>1. UNCHANGED journal /\ ~replaced
        BY <1>3, <2>1, <3>2
      <4>2. Startups' = {}
        BY <2>1, <4>1, SameJournal DEF ScriptInv, SafeSnapshot
      <4> QED BY <4>2 DEF OnlyIts
    <3> QED BY <3>1, <3>2
  <2>2. ASSUME place \in {"update_scan", "update"}, memory.safe, ~replaced'
        PROVE  Startups' = {} /\ NoneUp'
    <3>1. Startups = {} /\ NoneUp
      BY <1>0, <2>2 DEF ScriptInv, SafeSnapshot
    <3>2. Startups' = {}
      BY <3>1, MoveLeaves
    <3>3. ASSUME NEW q \in Pids, proc'[q] = "up"
          PROVE  FALSE
      <4>1. proc[q] = "wine"
        BY <2>2, <3>1, <3>3, NewUps DEF NoneUp
      <4>2. place \in {"ready_scan", "ready", "closed"}
        BY <4>1 DEF Processes, LaunchedAlone
      <4> QED BY <2>2, <4>2
    <3> QED BY <3>2, <3>3 DEF NoneUp
  <2> QED BY <1>0, <2>1, <2>2 DEF SafeSnapshot
<1>6. UpdaterKnown'
  BY <1>0 DEF ScriptInv, UpdaterKnown
<1>7. MixedIsNoticed'
  <2>1. ASSUME NEW q \in Terminals', ~ItsStartups(q)', q \in Terminals
        PROVE  MixedIsNoticed'
    <3>1. ~ItsStartups(q)
      BY <1>1, <1>2, <2>1
    <3> QED BY <1>0, <1>1, <2>1, <3>1 DEF ScriptInv, MixedIsNoticed
  <2>2. ASSUME NEW q \in Terminals', ~ItsStartups(q)', q \notin Terminals
        PROVE  MixedIsNoticed'
    <3>1. UNCHANGED journal /\ ~ItsStartups(q)
      BY <1>3, <2>2, SameJournal
    <3>2. Startups # {} /\ journal # <<>>
      BY <3>1 DEF ItsStartups, Startups
    <3>3. ~replaced /\ p \in Updaters
      BY <1>3, <2>2, <3>2
    <3>4. proc[p] = "quiet"
      BY <3>1, <3>3 DEF Updaters, JournalInv, AnnouncedIsLast, ItsStartups
    <3>5. p \in memory.scan.update \/ Unscanned
      BY <3>4 DEF Unscanned
    <3>6. ~(place \in {"update_scan", "update"} /\ memory.safe)
      BY <3>2, <3>3 DEF ScriptInv, SafeSnapshot
    <3>7. memory.scan.update # {} => \/ place \in {"ready", "auth", "persist", "update", "serve"}
                                     \/ place = "update_scan" /\ memory.saw
      BY <1>0 DEF ScriptInv, UpdaterKnown
    <3> QED BY <1>0, <1>1, <3>5, <3>6, <3>7 DEF MixedIsNoticed
  <2> QED BY <2>1, <2>2 DEF MixedIsNoticed
<1>8. \A q \in memory.pinned \cap Normals' : q \in Normals \/ place \in {"ready_scan", "ready"}
  BY <1>s DEF Processes, PinnedKnown
<1>9. PinnedStarted'
  <2>1. \A q \in memory.pinned \cap Normals' :
          place \in {"auth_scan", "auth", "auth_confirm", "hold", "hold_again"} =>
            ItsStartups(q) /\ q \in Terminals
    BY <1>2, <1>8 DEF ScriptInv, PinnedStarted
  <2>2. \A q \in Terminals : ItsStartups(q) => ItsStartups(q)'
    BY <1>1, <1>2
  <2> QED BY <1>0, <2>1, <2>2 DEF PinnedStarted
<1>10. PinnedLoggedIn'
  BY <1>0, <1>1, <1>8 DEF ScriptInv, PinnedLoggedIn
<1>11. Verified'
  <2>1. ASSUME place = "verified"
        PROVE  \E q \in Pids : /\ memory'.pinned = {q} /\ Earned(q)'
                               /\ replaced' \/ Terminals' \subseteq {q}
    <3>1. PICK q \in Pids : memory.pinned = {q} /\ Earned(q) /\ (replaced \/ Terminals \subseteq {q})
      BY <2>1 DEF ScriptInv, Verified
    <3>2. replaced' \/ Terminals' \subseteq {q}
      BY <1>0, <1>3, <2>1, <3>1
    <3> QED BY <1>0, <1>1, <3>1, <3>2
  <2> QED BY <1>0, <2>1 DEF Verified
<1>12. StillVerified'
  <2>1. ASSUME place \in {"persist_scan", "persist"}, NEW q \in memory.pinned, ~Earned(q)'
        PROVE  /\ replaced' /\ Terminals' \subseteq {q}
               /\ \/ ItsStartups(q)' \/ Unscanned'
                  \/ place = "persist" /\ memory.scan.update # {}
    <3>1. /\ replaced /\ Terminals \subseteq {q} /\ q \in Pids
          /\ \/ ItsStartups(q) \/ Unscanned
             \/ place = "persist" /\ memory.scan.update # {}
      BY <1>0, <1>1, <2>1 DEF ScriptInv, StillVerified
    <3>2. Terminals' \subseteq {q} /\ Normals \subseteq {q}
      BY <1>2, <1>3, <2>1, <3>1
    <3> QED BY <1>0, <1>1, <3>1, <3>2
  <2> QED BY <1>0, <2>1 DEF StillVerified
<1>13. SnapshotVerified'
  BY <1>0, <1>1 DEF ScriptInv, SnapshotVerified
<1> QED BY <1>4, <1>5, <1>6, <1>7, <1>9, <1>10, <1>11, <1>12, <1>13 DEF ScriptInv

Inv == LifecycleTypeOK /\ Processes /\ JournalInv /\ ScriptInv

LEMMA SameProcesses ==
  ASSUME UNCHANGED <<proc, replaced>>
  PROVE  /\ Normals' = Normals /\ Updaters' = Updaters /\ (NoneUp' <=> NoneUp)
         /\ memory'.scan.update = memory.scan.update => (Unscanned' <=> Unscanned)
         /\ Terminals' = Terminals
BY DEF Normals, Terminals, Updaters, NoneUp, Unscanned

LEMMA SeenAreThere == Normals \subseteq Terminals
BY DEF Normals, Terminals

(* No updater in the last scan, and none it could have missed. *)
LEMMA NothingMixed ==
  ASSUME Inv, place \notin {"snapshot", "serve", "closed", "update_scan", "update"},
         place \in {"ready", "auth", "persist"} => memory.scan.update = {}, ~Unscanned
  PROVE  \A p \in Terminals : ItsStartups(p)
BY DEF Inv, ScriptInv, MixedIsNoticed

LEMMA ScanTurn ==
  ASSUME Inv,
         \/ Scan("ready_scan", "ready") \/ Scan("auth_scan", "auth")
         \/ Scan("update_scan", "update") \/ Scan("persist_scan", "persist")
  PROVE  ScriptInv'
<1>0. /\ UNCHANGED <<proc, journal, replaced>> /\ memory \in Memories
      /\ \/ place = "ready_scan" /\ place' = "ready"
         \/ place = "auth_scan" /\ place' = "auth"
         \/ place = "update_scan" /\ place' = "update"
         \/ place = "persist_scan" /\ place' = "persist"
  BY TypeParts DEF Scan, Script, Unseen, Inv
<1>1. /\ memory'.scan.normal = Normals /\ memory'.scan.update = Updaters
      /\ memory'.pinned = memory.pinned /\ memory'.safe = memory.safe
      /\ memory'.saw = memory.saw
  <2>1. memory' = [memory EXCEPT !.scan = Seen]
    BY DEF Scan
  <2> QED BY <1>0, <2>1 DEF Seen, Memories
<1>2. Normals' = Normals /\ Terminals' = Terminals /\ (NoneUp' <=> NoneUp)
  BY <1>0, SameProcesses
<1>3. Unscanned => memory'.scan.update # {}
  BY <1>1 DEF Unscanned, Updaters
<1>4. /\ Startups' = Startups /\ \A q : Earned(q)' <=> Earned(q)
      /\ \A q : (ItsStartups(q)' <=> ItsStartups(q)) /\ (OnlyIts(q)' <=> OnlyIts(q))
  BY <1>0, SameJournal DEF OnlyIts
<1>5. memory.scan.update # {} => place = "update_scan" /\ memory.saw
  BY <1>0 DEF Inv, ScriptInv, UpdaterKnown
<1>6. ScannedNone' /\ UpdaterKnown'
  BY <1>0, <1>1, <1>2 DEF ScannedNone, UpdaterKnown
<1>7. SafeSnapshot'
  BY <1>0, <1>1, <1>2, <1>4 DEF Inv, ScriptInv, SafeSnapshot
<1>8. MixedIsNoticed'
  <2>1. ASSUME NEW q \in Terminals, ~ItsStartups(q)
        PROVE  \/ place' \in {"ready", "auth", "persist"} /\ memory'.scan.update # {}
               \/ /\ place' = "update" /\ ~memory'.safe
                  /\ memory'.saw \/ memory'.scan.update # {}
    <3>1. ~(place = "update_scan" /\ memory.safe)
      BY <2>1 DEF Inv, ScriptInv, SafeSnapshot, OnlyIts, ItsStartups
    <3>2. \/ Unscanned
          \/ place = "update_scan" /\ memory.saw
      BY <1>0, <1>5, <2>1 DEF Inv, ScriptInv, MixedIsNoticed
    <3> QED BY <1>0, <1>1, <1>3, <3>1, <3>2
  <2> QED BY <1>0, <1>2, <1>4, <2>1 DEF MixedIsNoticed
<1>9. PinnedStarted'
  BY <1>0, <1>1, <1>2, <1>4 DEF Inv, ScriptInv, PinnedStarted
<1>10. StillVerified'
  <2>1. ASSUME place = "persist_scan", NEW q \in memory.pinned, ~Earned(q)
        PROVE  /\ replaced /\ Terminals \subseteq {q}
               /\ ItsStartups(q) \/ memory'.scan.update # {}
    BY <1>3, <2>1 DEF Inv, ScriptInv, StillVerified
  <2> QED BY <1>0, <1>1, <1>2, <1>4, <2>1 DEF StillVerified
<1>11. PinnedLoggedIn' /\ Verified' /\ SnapshotVerified'
  BY <1>0 DEF PinnedLoggedIn, Verified, SnapshotVerified
<1> QED BY <1>6, <1>7, <1>8, <1>9, <1>10, <1>11 DEF ScriptInv

(* An update was found: the snapshot is a new one. *)
LEMMA FoundTurn ==
  ASSUME Inv, NEW scan \in [normal : SUBSET Pids, update : SUBSET Pids], UpdateFound(scan),
         UNCHANGED <<proc, replaced>>, scan.normal = {} /\ ~replaced => NoneUp
  PROVE  ScriptInv'
<1>0. memory \in Memories
  BY TypeParts DEF Inv
<1>1. CASE place' = "closed"
  BY <1>1 DEF ScriptInv, ScannedNone, SafeSnapshot, UpdaterKnown, MixedIsNoticed,
              PinnedStarted, PinnedLoggedIn, Verified, StillVerified, SnapshotVerified
<1>2. CASE place' = "update_scan"
  <2>0. /\ memory' = [memory EXCEPT !.cycles = 1, !.saw = scan.update # {},
                                    !.safe = scan.normal = {}, !.scan = scan]
        /\ journal' = <<>>
    BY <1>2 DEF UpdateFound
  <2>1. /\ memory'.scan = scan
        /\ memory'.saw = (scan.update # {}) /\ memory'.safe = (scan.normal = {})
    BY <1>0, <2>0, Zenon DEF Memories
  <2>2. Startups' = {}
    BY <2>0 DEF Startups
  <2>3. NoneUp' <=> NoneUp
    BY SameProcesses
  <2>4. SafeSnapshot'
    BY <2>1, <2>2, <2>3 DEF SafeSnapshot, OnlyIts
  <2>5. UpdaterKnown'
    BY <1>2, <2>1 DEF UpdaterKnown
  <2>6. MixedIsNoticed'
    BY <2>2 DEF MixedIsNoticed, ItsStartups
  <2> QED BY <1>2, <2>4, <2>5, <2>6
          DEF ScriptInv, ScannedNone, PinnedStarted, PinnedLoggedIn, Verified,
              StillVerified, SnapshotVerified
<1> QED BY <1>1, <1>2 DEF UpdateFound

(* The other turns, by where they lead; the Journal is not reset. *)
LEMMA ClosedTurn ==
  ASSUME place' \in {"closed", "serve"}
  PROVE  ScriptInv'
BY DEF ScriptInv, ScannedNone, SafeSnapshot, UpdaterKnown, MixedIsNoticed,
       PinnedStarted, PinnedLoggedIn, Verified, StillVerified, SnapshotVerified

LEMMA QuietTurn ==
  ASSUME UNCHANGED <<proc, replaced, journal>>,
         memory'.scan.update = {}, \A p \in Terminals : ~ItsStartups(p) => Unscanned',
         place' \notin {"ready", "auth", "update", "update_scan"},
         PinnedStarted', PinnedLoggedIn', Verified', StillVerified', SnapshotVerified'
  PROVE  ScriptInv'
<1>1. Terminals' = Terminals
  BY SameProcesses
<1>2. \A p \in Terminals' : ~ItsStartups(p)' => Unscanned'
  BY <1>1, SameJournal
<1> QED BY <1>2 DEF ScriptInv, ScannedNone, SafeSnapshot, UpdaterKnown, MixedIsNoticed

LEMMA ReadyTurn ==
  ASSUME Inv, Ready
  PROVE  ScriptInv'
<1>0. /\ place = "ready" /\ UNCHANGED <<proc, replaced>>
      /\ memory.scan \in [normal : SUBSET Pids, update : SUBSET Pids]
  BY TypeParts DEF Inv, Ready, Memories
<1>1. CASE UpdateFound(memory.scan)
  <2>1. memory.scan.update # {} \/ LaunchPending \/ place' = "closed"
        \/ (place' \in {"ready_confirm", "ready_scan"})
    BY <1>0 DEF Ready
  <2>2. memory.scan.update # {} \/ LaunchPending \/ place' = "closed"
    BY <1>1, <2>1 DEF UpdateFound
  <2>3. CASE place' = "closed"
    BY <2>3, ClosedTurn
  <2>4. CASE memory.scan.update # {} \/ LaunchPending
    <3>1. ASSUME memory.scan.normal = {}, ~replaced PROVE NoneUp
      <4>1. Normals = {} => NoneUp
        BY DEF Normals, NoneUp
      <4>2. LaunchPending => journal # <<>>
        BY EmptyJournal DEF Inv
      <4>3. journal # <<>> => NoneUp
        BY <3>1 DEF Inv, JournalInv, UpIsFirst
      <4> QED BY <1>0, <2>4, <3>1, <4>1, <4>2, <4>3 DEF Inv, ScriptInv, ScannedNone
    <3> QED BY <1>0, <1>1, <3>1, FoundTurn
  <2> QED BY <2>2, <2>3, <2>4
<1>2. CASE ~UpdateFound(memory.scan) /\ place' # "closed"
  <2>1. /\ UNCHANGED <<memory, journal>> /\ memory.scan.update = {}
        /\ place' \in {"ready_confirm", "ready_scan"}
    BY <1>2 DEF Ready
  <2>2. Unscanned' <=> Unscanned
    BY <1>0, <2>1, SameProcesses
  <2>3. \A p \in Terminals : ~ItsStartups(p) => Unscanned'
    BY <1>0, <2>1, <2>2, NothingMixed
  <2>4. PinnedStarted' /\ PinnedLoggedIn' /\ Verified' /\ StillVerified' /\ SnapshotVerified'
    BY <2>1 DEF PinnedStarted, PinnedLoggedIn, Verified, StillVerified, SnapshotVerified
  <2> QED BY <1>0, <2>1, <2>3, <2>4, QuietTurn
<1> QED BY <1>1, <1>2, ClosedTurn

(* The terminal that is pinned is alone, and no updater is there. *)
LEMMA PinTurn ==
  ASSUME Inv, ReadyConfirm \/ Hold
  PROVE  ScriptInv'
<1>0. /\ place \in {"ready_confirm", "hold"} /\ UNCHANGED <<proc, journal, replaced>>
      /\ place' = "closed" \/ (place' = "auth_scan" /\ Updaters = {})
      /\ memory'.scan = Seen /\ memory'.pinned = Normals
  BY TypeParts DEF Inv, ReadyConfirm, Hold, Script, Unseen, OneNormal, Memories
<1>1. CASE place' = "auth_scan"
  <2>1. Updaters = {} /\ memory'.scan.update = {}
    BY <1>0, <1>1 DEF Seen
  <2>2. ~Unscanned
    BY <2>1 DEF Unscanned, Updaters
  <2>3. \A p \in Terminals : ItsStartups(p)
    BY <1>0, <2>2, NothingMixed
  <2>4. PinnedStarted'
    <3>1. \A p \in Terminals : ItsStartups(p)'
      BY <1>0, <2>3, SameJournal
    <3> QED BY <1>0, <3>1, SeenAreThere DEF PinnedStarted
  <2>5. PinnedLoggedIn' /\ Verified' /\ StillVerified' /\ SnapshotVerified'
    BY <1>1 DEF PinnedLoggedIn, Verified, StillVerified, SnapshotVerified
  <2> QED BY <1>0, <1>1, <2>1, <2>3, <2>4, <2>5, QuietTurn
<1> QED BY <1>0, <1>1, ClosedTurn

LEMMA AuthorizedTurn ==
  ASSUME Inv, Authorized
  PROVE  ScriptInv'
<1>0. /\ place = "auth" /\ UNCHANGED <<proc, replaced>>
      /\ memory.scan \in [normal : SUBSET Pids, update : SUBSET Pids]
  BY TypeParts DEF Inv, Authorized, Memories
<1>1. CASE UpdateFound(memory.scan)
  <2>1. ASSUME memory.scan.normal = {}, ~replaced PROVE NoneUp
    BY <1>0, <2>1 DEF Inv, ScriptInv, ScannedNone, NoneUp, Normals
  <2> QED BY <1>0, <1>1, <2>1, FoundTurn
<1>2. CASE ~UpdateFound(memory.scan) /\ place' # "closed"
  <2>1. /\ UNCHANGED <<memory, journal>> /\ memory.scan.update = {} /\ ~LaunchPending
        /\ place' \in {"auth_confirm", "auth_scan", "hold", "hold_again"}
        /\ place' = "auth_confirm" => JournalAuthorized
    BY <1>2 DEF Authorized
  <2>2. Unscanned' <=> Unscanned
    BY <1>0, <2>1, SameProcesses
  <2>3. \A p \in Terminals : ~ItsStartups(p) => Unscanned'
    BY <1>0, <2>1, <2>2, NothingMixed
  <2>4. \A p \in memory.pinned \cap Normals : ItsStartups(p) /\ p \in Pids
    BY <1>0 DEF Inv, ScriptInv, PinnedStarted, Normals
  <2>5. Normals' = Normals
    BY <1>0, SameProcesses
  <2>6. PinnedStarted'
    BY <2>1, <2>4, <2>5, SameJournal DEF PinnedStarted
  <2>7. PinnedLoggedIn'
    <3>1. place' = "auth_confirm" => \A p \in memory.pinned \cap Normals : Earned(p)
      BY <2>1, <2>4, LoginIsIts DEF Inv, JournalInv
    <3> QED BY <2>1, <2>5, <3>1, SameJournal DEF PinnedLoggedIn
  <2>8. Verified' /\ StillVerified' /\ SnapshotVerified'
    BY <2>1 DEF Verified, StillVerified, SnapshotVerified
  <2> QED BY <1>0, <2>1, <2>3, <2>6, <2>7, <2>8, QuietTurn
<1> QED BY <1>1, <1>2, ClosedTurn

LEMMA ConfirmTurn ==
  ASSUME Inv, AuthorizedConfirm
  PROVE  ScriptInv'
<1>0. /\ place = "auth_confirm" /\ UNCHANGED <<proc, replaced>>
      /\ Seen \in [normal : SUBSET Pids, update : SUBSET Pids]
  BY TypeParts, SeenTyped DEF Inv, AuthorizedConfirm
<1>1. CASE UpdateFound(Seen)
  <2>1. ASSUME Seen.normal = {}, ~replaced PROVE NoneUp
    BY <2>1 DEF Seen, NoneUp, Normals
  <2> QED BY <1>0, <1>1, <2>1, FoundTurn
<1>2. CASE ~UpdateFound(Seen) /\ place' # "closed"
  <2>1. /\ place' = "verified" /\ UNCHANGED journal /\ memory' = [memory EXCEPT !.scan = Seen]
        /\ Cardinality(Normals) = 1 /\ Updaters = {} /\ Normals = memory.pinned
    BY <1>2 DEF AuthorizedConfirm, OneNormal
  <2>2. memory'.scan.update = {} /\ memory'.pinned = memory.pinned
    BY <2>1, TypeParts DEF Inv, Memories, Seen
  <2>3. ~Unscanned
    BY <2>1 DEF Unscanned, Updaters
  <2>4. \A p \in Terminals : ItsStartups(p)
    BY <1>0, <2>3, NothingMixed
  <2>5. PICK p \in Pids : Normals = {p}
    <3>1. Normals # {}
      BY <2>1, FS_EmptySet
    <3> QED BY <3>1, SeenAreThere DEF Inv, Processes, OneTerminal, Normals
  <2>6. Earned(p)'
    <3>1. Earned(p)
      BY <1>0, <2>1, <2>5 DEF Inv, ScriptInv, PinnedLoggedIn
    <3> QED BY <2>1, <3>1, SameJournal
  <2>7. Verified'
    <3>1. Terminals' \subseteq {p} /\ memory'.pinned = {p}
      BY <1>0, <2>1, <2>2, <2>5, SameProcesses, SeenAreThere DEF Inv, Processes, OneTerminal
    <3> QED BY <2>6, <3>1 DEF Verified
  <2>8. PinnedStarted' /\ PinnedLoggedIn' /\ StillVerified' /\ SnapshotVerified'
    BY <2>1 DEF PinnedStarted, PinnedLoggedIn, StillVerified, SnapshotVerified
  <2> QED BY <1>0, <2>1, <2>2, <2>4, <2>7, <2>8, QuietTurn
<1> QED BY <1>1, <1>2, ClosedTurn

LEMMA UpdateTurn ==
  ASSUME Inv, Update
  PROVE  ScriptInv'
<1> DEFINE n == memory.scan.normal
           u == memory.scan.update
           saw == memory.saw \/ u # {}
           safe == memory.safe \/ n = {}
<1>0. place = "update" /\ UNCHANGED <<proc, replaced>> /\ memory \in Memories
  BY TypeParts DEF Inv, Update
<1>1. CASE place' # "closed"
  <2>1. /\ memory' = [memory EXCEPT !.saw = saw, !.safe = safe]
        /\ journal' = IF n = {} /\ ~memory.safe THEN <<>> ELSE journal
        /\ \/ saw /\ u = {} /\ n = {} /\ place' = "launch"
           \/ saw /\ u = {} /\ n # {} /\ safe /\ place' = "ready_scan"
           \/ ~saw /\ safe /\ place' = "ready_scan"
           \/ (~saw \/ u # {}) /\ place' = "update_scan"
    BY <1>1 DEF Update
  <2>2. memory'.scan = memory.scan /\ memory'.saw = saw /\ memory'.safe = safe
    BY <1>0, <2>1, Zenon DEF Memories
  <2>3. Terminals' = Terminals /\ (NoneUp' <=> NoneUp) /\ (Unscanned' <=> Unscanned)
    BY <1>0, <2>2, SameProcesses
  <2>4. n = {} /\ ~replaced => NoneUp
    BY <1>0 DEF Inv, ScriptInv, ScannedNone, NoneUp, Normals
  <2>5. ASSUME safe
        PROVE  /\ \A p \in Terminals : OnlyIts(p)'
               /\ ~replaced => Startups' = {} /\ NoneUp
    <3>1. CASE memory.safe
      <4>1. UNCHANGED journal
        BY <2>1, <3>1
      <4> QED BY <1>0, <3>1, <4>1, SameJournal DEF Inv, ScriptInv, SafeSnapshot, OnlyIts
    <3>2. CASE ~memory.safe
      <4>1. journal' = <<>> /\ n = {}
        BY <2>1, <2>5, <3>2
      <4>2. Startups' = {}
        BY <4>1 DEF Startups
      <4> QED BY <2>4, <4>1, <4>2 DEF OnlyIts
    <3> QED BY <3>1, <3>2
  <2>6. SafeSnapshot'
    BY <1>0, <2>2, <2>3, <2>5 DEF SafeSnapshot
  <2>7. UpdaterKnown'
    BY <2>1, <2>2 DEF UpdaterKnown
  <2>8. MixedIsNoticed'
    <3>1. ASSUME NEW p \in Terminals, ~ItsStartups(p)'
          PROVE  place' = "update_scan" /\ ~safe /\ (saw \/ Unscanned)
      <4>1. ~safe
        BY <2>5, <3>1 DEF OnlyIts, ItsStartups
      <4>2. UNCHANGED journal /\ ~memory.safe /\ n # {}
        BY <2>1, <4>1
      <4>3. ~ItsStartups(p)
        BY <3>1, <4>2, SameJournal
      <4>4. saw \/ Unscanned
        BY <1>0, <4>2, <4>3 DEF Inv, ScriptInv, MixedIsNoticed
      <4> QED BY <2>1, <4>1, <4>2, <4>4
    <3> QED BY <2>2, <2>3, <3>1 DEF MixedIsNoticed
  <2>9. ScannedNone' /\ PinnedStarted' /\ PinnedLoggedIn' /\ Verified' /\ StillVerified'
        /\ SnapshotVerified'
    BY <2>1 DEF ScannedNone, PinnedStarted, PinnedLoggedIn, Verified, StillVerified,
                SnapshotVerified
  <2> QED BY <2>6, <2>7, <2>8, <2>9 DEF ScriptInv
<1> QED BY <1>1, ClosedTurn

LEMMA HoldAgainTurn ==
  ASSUME Inv, HoldAgain
  PROVE  ScriptInv'
<1>0. /\ place = "hold_again" /\ UNCHANGED <<memory, proc, journal, replaced>>
      /\ place' \in {"auth_scan", "closed"}
  BY DEF HoldAgain, Script, Unseen
<1>1. CASE place' = "auth_scan"
  <2>1. memory'.scan.update = {}
    BY <1>0 DEF Inv, ScriptInv, UpdaterKnown
  <2>2. (Unscanned' <=> Unscanned) /\ Normals' = Normals
    BY <1>0, SameProcesses
  <2>3. \A p \in Terminals : ~ItsStartups(p) => Unscanned'
    BY <1>0, <2>2, NothingMixed
  <2>4. PinnedStarted'
    BY <1>0, <2>2, SameJournal DEF Inv, ScriptInv, PinnedStarted
  <2>5. PinnedLoggedIn' /\ Verified' /\ StillVerified' /\ SnapshotVerified'
    BY <1>1 DEF PinnedLoggedIn, Verified, StillVerified, SnapshotVerified
  <2> QED BY <1>0, <1>1, <2>1, <2>3, <2>4, <2>5, QuietTurn
<1> QED BY <1>0, <1>1, ClosedTurn

LEMMA AwaitTurn ==
  ASSUME Inv, AwaitStored
  PROVE  ScriptInv'
<1>0. /\ place = "verified" /\ UNCHANGED <<proc, journal, replaced>> /\ memory'.scan = memory.scan
      /\ \/ place' = "snapshot" /\ memory' = memory
         \/ place' = "persist_scan" /\ memory'.pinned = Normals
  BY TypeParts DEF Inv, AwaitStored, Script, Unseen, Memories
<1>1. memory'.scan.update = {}
  BY <1>0 DEF Inv, ScriptInv, UpdaterKnown
<1>2. (Unscanned' <=> Unscanned) /\ Terminals' = Terminals
  BY <1>0, SameProcesses
<1>3. \A p \in Terminals : ~ItsStartups(p) => Unscanned'
  BY <1>0, <1>2, NothingMixed
<1>4. PICK p \in Pids : memory.pinned = {p} /\ Earned(p) /\ (replaced \/ Terminals \subseteq {p})
  BY <1>0 DEF Inv, ScriptInv, Verified
<1>5. Earned(p)'
  BY <1>0, <1>4, SameJournal
<1>6. SnapshotVerified'
  BY <1>0, <1>4, <1>5 DEF SnapshotVerified
<1>7. StillVerified'
  <2>1. ASSUME place' = "persist_scan", NEW q \in memory'.pinned, ~Earned(q)'
        PROVE  replaced' /\ Terminals' \subseteq {q} /\ (ItsStartups(q)' \/ Unscanned')
    <3>1. q \in Terminals /\ q # p
      BY <1>0, <1>5, <2>1, SeenAreThere
    <3>2. replaced /\ Terminals \subseteq {q}
      BY <1>4, <3>1 DEF Inv, Processes, OneTerminal
    <3>3. ItsStartups(q) \/ Unscanned'
      BY <1>3, <3>1
    <3> QED BY <1>0, <1>2, <3>2, <3>3, SameJournal
  <2> QED BY <1>0, <2>1 DEF StillVerified
<1>8. PinnedStarted' /\ PinnedLoggedIn' /\ Verified'
  BY <1>0 DEF PinnedStarted, PinnedLoggedIn, Verified
<1> QED BY <1>0, <1>1, <1>3, <1>6, <1>7, <1>8, QuietTurn

LEMMA StoredTurn ==
  ASSUME Inv, Stored
  PROVE  ScriptInv'
<1>0. place = "persist" /\ UNCHANGED <<memory, proc, journal, replaced>>
  BY DEF Stored, Unseen
<1>1. CASE place' # "closed"
  <2>1. /\ Cardinality(memory.scan.normal) = 1 /\ memory.scan.update = {}
        /\ memory.scan.normal = memory.pinned /\ ~UpdatePending
        /\ place' = "persist_scan" \/ (place' = "snapshot" /\ JournalAuthorized)
    BY <1>1 DEF Stored
  <2>2. (Unscanned' <=> Unscanned) /\ Terminals' = Terminals
    BY <1>0, SameProcesses
  <2>3. \A p \in Terminals : ~ItsStartups(p) => Unscanned'
    BY <1>0, <2>1, <2>2, NothingMixed
  <2>4. PinnedStarted' /\ PinnedLoggedIn' /\ Verified'
    BY <2>1 DEF PinnedStarted, PinnedLoggedIn, Verified
  <2>5. StillVerified'
    BY <1>0, <2>1, <2>2, SameJournal DEF Inv, ScriptInv, StillVerified
  <2>6. SnapshotVerified'
    <3>1. ASSUME place' = "snapshot"
          PROVE  \E p \in Pids : memory.pinned = {p} /\ Earned(p)
      <4>1. PICK p : memory.pinned = {p}
        <5>1. memory.pinned \subseteq Pids
          BY TypeParts DEF Inv, Memories
        <5>2. IsFiniteSet(memory.pinned)
          <6>1. 1 \in Int /\ MaxPid \in Int
            BY LifecycleAssumption
          <6>2. IsFiniteSet(Pids)
            BY <6>1, FS_Interval DEF Pids
          <6> QED BY <5>1, <6>2, FS_Subset
        <5>3. Cardinality(memory.pinned) = 1
          BY <2>1
        <5> QED BY <5>2, <5>3, FS_Singleton, Zenon
      <4>2. p \in Pids
        BY <4>1, TypeParts DEF Inv, Memories
      <4>3. ~LaunchPending /\ ~Unscanned /\ JournalAuthorized
        BY <2>1, <3>1, NothingPending DEF Inv, Unscanned, Updaters
      <4>4. Earned(p) \/ ItsStartups(p)
        BY <1>0, <2>1, <4>1, <4>3 DEF Inv, ScriptInv, StillVerified
      <4> QED BY <4>1, <4>2, <4>3, <4>4, LoginIsIts DEF Inv, JournalInv
    <3> QED BY <1>0, <3>1, SameJournal DEF SnapshotVerified
  <2> QED BY <1>0, <2>1, <2>3, <2>4, <2>5, <2>6, QuietTurn
<1> QED BY <1>1, ClosedTurn

LEMMA LaunchTurn ==
  ASSUME Inv, Launch
  PROVE  ScriptInv'
<1>0. place = "launch" /\ place' = "ready_scan" /\ memory' = memory /\ journal' = <<>>
  BY DEF Launch, Script
<1>1. memory'.scan.update = {}
  BY <1>0 DEF Inv, ScriptInv, UpdaterKnown
<1>2. Startups' = {}
  BY <1>0 DEF Startups
<1> QED BY <1>0, <1>1, <1>2
        DEF ScriptInv, ScannedNone, SafeSnapshot, UpdaterKnown, MixedIsNoticed, ItsStartups,
            PinnedStarted, PinnedLoggedIn, Verified, StillVerified, SnapshotVerified

LEMMA ScriptTurn ==
  ASSUME Inv, Lifecycle
  PROVE  ScriptInv'
<1>1. CASE Open \/ Serve
  BY <1>1, ClosedTurn DEF Open, Serve, Script
<1> QED BY <1>1, LaunchTurn, ScanTurn, ReadyTurn, PinTurn, AuthorizedTurn, ConfirmTurn,
           UpdateTurn, HoldAgainTurn, AwaitTurn, StoredTurn DEF Lifecycle

LEMMA InvStart == LifecycleInit => Inv
<1> SUFFICES ASSUME LifecycleInit PROVE Inv
  OBVIOUS
<1>1. LifecycleTypeOK /\ Processes /\ JournalInv
  BY ProcessesStart, JournalStart
<1>2. ScriptInv
  BY DEF LifecycleInit, ScriptInv, ScannedNone, SafeSnapshot, UpdaterKnown, MixedIsNoticed,
         ItsStartups, Startups, PinnedStarted, PinnedLoggedIn, Verified, StillVerified,
         SnapshotVerified
<1> QED BY <1>1, <1>2 DEF Inv

LEMMA InvKept == Inv /\ [LifecycleNext]_lifecycleVars /\ ~doubled' => Inv'
<1> SUFFICES ASSUME Inv, [LifecycleNext]_lifecycleVars, ~doubled' PROVE Inv'
  OBVIOUS
<1>0. LifecycleTypeOK' /\ Processes'
  BY TypeKept, ProcessesKept DEF Inv
<1>1. CASE Lifecycle
  BY <1>0, <1>1, JournalTurn, ScriptTurn DEF Inv
<1>2. ASSUME NEW p \in Pids, Moves(p) PROVE Inv'
  BY <1>0, <1>2, JournalMove, ScriptMove DEF Inv
<1>3. CASE UNCHANGED lifecycleVars
  BY <1>0, <1>3
     DEF Inv, lifecycleVars, JournalInv, UpIsFirst, AnnouncedIsLast, OwnStartup, OwnFirst,
         InOrder, Startups, Launched, NoneUp, ScriptInv, ScannedNone, SafeSnapshot,
         UpdaterKnown, MixedIsNoticed, ItsStartups, OnlyIts, Unscanned, Normals, Terminals,
         Earned, PinnedStarted, PinnedLoggedIn, Verified, StillVerified, SnapshotVerified
<1> QED BY <1>1, <1>2, <1>3 DEF LifecycleNext, Moves

-----------------------------------------------------------------------------
(* The launch beside a replacement that was not visible *)

(* It is the second launch of the one cycle of update that is allowed: the *)
(* script does not launch again after it.                                  *)
SecondLaunch ==
  /\ place \in {"update_scan", "update"} => memory.cycles = 1
  /\ place = "launch" => memory.cycles = 1 \/ AllGone
  /\ doubled => memory.cycles = 1 /\ place \notin {"launch", "update_scan", "update"}

LifecycleInv == LifecycleTypeOK /\ SecondLaunch /\ (~doubled => Inv)

LEMMA Cycles ==
  ASSUME LifecycleTypeOK, Lifecycle
  PROVE  /\ memory.cycles = 1 => memory'.cycles = 1
         /\ place' = "update_scan" =>
              memory'.cycles = 1 \/ (place = "update" /\ memory'.cycles = memory.cycles)
         /\ place' = "update_scan" /\ memory.cycles = 1 => place = "update"
<1>0. memory \in Memories
  BY TypeParts
<1>f. ASSUME NEW scan, UpdateFound(scan)
      PROVE  /\ memory.cycles = 1 => memory'.cycles = 1 /\ place' = "closed"
             /\ place' = "update_scan" => memory'.cycles = 1
  <2>1. \/ memory.cycles = 1 /\ place' = "closed" /\ UNCHANGED memory
        \/ /\ memory.cycles = 0
           /\ memory' = [memory EXCEPT !.cycles = 1, !.saw = scan.update # {},
                                      !.safe = scan.normal = {}, !.scan = scan]
    BY <1>f, Zenon DEF UpdateFound
  <2>2. memory' = [memory EXCEPT !.cycles = 1, !.saw = scan.update # {},
                                 !.safe = scan.normal = {}, !.scan = scan]
          => memory'.cycles = 1
    BY <1>0, Zenon DEF Memories
  <2> QED BY <2>1, <2>2
<1>1. CASE Launch
  BY <1>1 DEF Launch, Script
<1>2. ASSUME NEW from, NEW to \in {"ready", "auth", "update", "persist"}, Scan(from, to)
      PROVE  memory'.cycles = memory.cycles /\ place' # "update_scan"
  BY <1>0, <1>2 DEF Scan, Script, Memories
<1>3. CASE Ready
  BY <1>3, <1>f DEF Ready
<1>4. CASE ReadyConfirm
  BY <1>0, <1>4 DEF ReadyConfirm, Script, Memories
<1>5. CASE Authorized
  BY <1>5, <1>f DEF Authorized
<1>6. CASE AuthorizedConfirm
  BY <1>0, <1>6, <1>f DEF AuthorizedConfirm, Memories
<1>7. CASE Update
  BY <1>0, <1>7 DEF Update, Memories
<1>8. CASE Hold
  BY <1>0, <1>8 DEF Hold, Script, Memories
<1>9. CASE HoldAgain
  BY <1>9 DEF HoldAgain, Script
<1>10. CASE AwaitStored
  BY <1>0, <1>10 DEF AwaitStored, Script, Memories
<1>11. CASE Stored
  BY <1>11 DEF Stored
<1>12. CASE Open
  BY <1>12 DEF Open, Script
<1>13. CASE Serve
  BY <1>0, <1>13 DEF Serve, Script, Memories
<1> QED BY <1>1, <1>2, <1>3, <1>4, <1>5, <1>6, <1>7, <1>8, <1>9, <1>10, <1>11, <1>12,
           <1>13 DEF Lifecycle

LEMMA NoneMoves ==
  ASSUME AllGone, NEW p \in Pids, Moves(p)
  PROVE  FALSE
<1>1. Normals = {} /\ Updaters = {}
  BY DEF AllGone, Normals, Updaters
<1> QED BY <1>1 DEF AllGone, Moves, Appear, StartUp, LogInTo, LoseLogin, Prompt, Leave,
                    EndUpdate, StartUpdater, Replace, Becomes

LEMMA SecondLaunchKept ==
  ASSUME LifecycleTypeOK, SecondLaunch, [LifecycleNext]_lifecycleVars
  PROVE  SecondLaunch' /\ (doubled => doubled')
<1>1. CASE Launch
  <2>1. place = "launch" /\ place' = "ready_scan" /\ memory' = memory
        /\ (doubled' <=> \E p \in Pids : ~Off(p))
    BY <1>1 DEF Launch, Script
  <2>2. doubled' => ~AllGone
    BY <2>1 DEF AllGone, Off
  <2> QED BY <2>1, <2>2 DEF SecondLaunch
<1>2. CASE Lifecycle /\ ~Launch
  <2>1. UNCHANGED doubled
    BY <1>2, ScriptSteps
  <2>2. /\ place' = "launch" => place = "update"
        /\ place' = "update" => place = "update_scan"
    BY <1>2, Turns
  <2>3. /\ memory.cycles = 1 => memory'.cycles = 1
        /\ place' = "update_scan" =>
             memory'.cycles = 1 \/ (place = "update" /\ memory'.cycles = memory.cycles)
        /\ place' = "update_scan" /\ memory.cycles = 1 => place = "update"
    BY <1>2, Cycles
  <2> QED BY <2>1, <2>2, <2>3 DEF SecondLaunch
<1>3. ASSUME NEW p \in Pids, Moves(p) PROVE SecondLaunch' /\ (doubled => doubled')
  <2>1. UNCHANGED <<place, memory, doubled>> /\ ~AllGone
    BY <1>3, MoveSteps, NoneMoves
  <2> QED BY <2>1 DEF SecondLaunch
<1>4. CASE UNCHANGED lifecycleVars
  BY <1>4 DEF lifecycleVars, SecondLaunch, AllGone
<1> QED BY <1>1, <1>2, <1>3, <1>4 DEF LifecycleNext, Moves

LEMMA LifecycleStart == LifecycleInit => LifecycleInv
<1> SUFFICES ASSUME LifecycleInit PROVE LifecycleInv
  OBVIOUS
<1>1. Inv
  BY InvStart
<1>2. SecondLaunch
  BY DEF LifecycleInit, SecondLaunch, AllGone
<1> QED BY <1>1, <1>2 DEF LifecycleInv, Inv

LEMMA LifecycleInduction == LifecycleInv /\ [LifecycleNext]_lifecycleVars => LifecycleInv'
<1> SUFFICES ASSUME LifecycleInv, [LifecycleNext]_lifecycleVars PROVE LifecycleInv'
  OBVIOUS
<1>1. LifecycleTypeOK'
  BY TypeKept DEF LifecycleInv
<1>2. SecondLaunch' /\ (doubled => doubled')
  BY SecondLaunchKept DEF LifecycleInv
<1>3. ~doubled' => Inv'
  BY <1>2, InvKept DEF LifecycleInv
<1> QED BY <1>1, <1>2, <1>3 DEF LifecycleInv

(* When the script launches a terminal, no updater is there, neither seen  *)
(* nor coming, and no terminal that its scan has shown, although that scan *)
(* is a turn old; what may be there is the one an updater has started,     *)
(* which was not visible.  So it launches beside a terminal at most once.  *)
THEOREM LaunchesAreAlone == LifecycleSpec => LaunchIsAlone
<1>1. LifecycleInv /\ [LifecycleNext]_lifecycleVars =>
        [place = "launch" /\ place' = "ready_scan" =>
           \A p \in Pids :
             \/ Off(p)
             \/ replaced /\ (proc[p] = "native" \/ p \in Normals \ memory.scan.normal)
        ]_lifecycleVars
  <2>1. ASSUME LifecycleInv, place = "launch", NEW p \in Pids
        PROVE  \/ Off(p)
               \/ replaced /\ (proc[p] = "native" \/ p \in Normals \ memory.scan.normal)
    <3>1. memory.scan = NoScan /\ LeftOver
      BY <2>1 DEF LifecycleInv, SecondLaunch, Inv, Processes, NothingLeft
    <3> QED BY <3>1 DEF NoScan, LeftOver, Terminals, Normals
  <2> QED BY <2>1
<1> QED BY <1>1, LifecycleStart, LifecycleInduction, PTL DEF LifecycleSpec, LaunchIsAlone

(* The API is only opened for a terminal whose own startup and login are   *)
(* in the Journal, whatever updaters came and went, announced or not,      *)
(* while the script watched, but for a launch beside a replacement that    *)
(* was not visible.                                                        *)
THEOREM OnlyEarnedIsReady == LifecycleSpec => []ReadyIsEarned
<1>1. LifecycleInv => ReadyIsEarned
  BY DEF LifecycleInv, Inv, ScriptInv, Verified, SnapshotVerified, Earned, ReadyIsEarned
<1> QED BY <1>1, LifecycleStart, LifecycleInduction, PTL DEF LifecycleSpec
=============================================================================
