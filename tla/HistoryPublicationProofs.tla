---------------------- MODULE HistoryPublicationProofs ----------------------
(***************************************************************************)
(* One published series: type correctness, the inductive invariant of the  *)
(* file, its marker and its writers, and what follows from it.             *)
(*                                                                         *)
(* The argument.  A worker past its start holds the writer lock, so the    *)
(* file it read is the file it merges into.  Only the holder sets a marker *)
(* or replaces the file: anybody else, with a late call or a refresh that  *)
(* cannot connect, can only remove the marker.  The holder's page call     *)
(* removes a marker of another source as it begins, and until the refresh  *)
(* ends the marker is absent or names the source of the bars it read: the  *)
(* file may be replaced at any time in between.  What explains the gaps is *)
(* the session the page was read in, or the file is not written.           *)
(***************************************************************************)
EXTENDS HistoryPublication, TLAPS

MarkerFits(a) == marker \in {None, NameOf[a]}

(* A worker past its start holds the lock, and waits for its own call.     *)
HoldsOK(w) ==
  /\ pc[w] # "idle" <=> lock = w
  /\ pc[w] = "wait" => call[w] # None
  /\ pc[w] \in {"merge", "write", "mark"} => call[w] = None

(* The bars it merges into are those of the file. *)
OldOK(w) == pc[w] \in {"wait", "merge", "write"} => work[w].old = csv

Waits(w, kind) == pc[w] = "wait" /\ call[w] # None /\ call[w].kind = kind

(* What the page call makes of the marker, and for which account. *)
PageOK(w) ==
  /\ Waits(w, "page") /\ ~call[w].begun =>
       call[w].cached = IF csv = None THEN None ELSE csv.src
  /\ Waits(w, "page") /\ call[w].begun => MarkerFits(guard[w].acct)

(* A page read: its account, the one that explains its gaps, and the file. *)
BarsOK(w) ==
  /\ Waits(w, "gap") \/ pc[w] \in {"merge", "write", "mark"} =>
       work[w].id.acct \in Accounts /\ MarkerFits(work[w].id.acct)
  /\ pc[w] = "write" => work[w].checked \in {work[w].id.acct, guard[w].acct}
  /\ pc[w] = "mark" => csv # None /\ csv.src = NameOf[work[w].id.acct]

WorkerOK(w) == HoldsOK(w) /\ OldOK(w) /\ PageOK(w) /\ BarsOK(w)

CsvOK ==
  csv # None =>
    /\ \A a \in csv.from : NameOf[a] = csv.src
    /\ csv.checked \in csv.from

IInv == TypeOK /\ CsvOK /\ MarkerNamesCsv /\ \A w \in Workers : WorkerOK(w)

-----------------------------------------------------------------------------
(* Types *)

Works == [old : Contents \cup {None}, id : Sessions,
          checked : Accounts \cup {None}]

FilesTyped == csv \in Contents \cup {None} /\ marker \in Names \cup {None}

LoopTyped ==
  /\ lock \in Workers \cup {None}
  /\ pc \in [Workers -> Labels]
  /\ guard \in [Workers -> Sessions]
  /\ client \in [Workers -> Clients]
  /\ call \in [Workers -> Calls \cup {None}]
  /\ work \in [Workers -> Works]
  /\ cert \in [Workers -> Sessions]

WorldTyped ==
  /\ asked \in Names \cup {None}
  /\ terminal \in Accounts \cup {None} /\ switches \in Nat /\ faults \in Nat

LEMMA TypeParts == TypeOK <=> FilesTyped /\ LoopTyped /\ WorldTyped
BY DEF TypeOK, FilesTyped, LoopTyped, WorldTyped, Works

LEMMA TypeNext == FilesTyped' /\ LoopTyped' /\ WorldTyped' => TypeOK'
BY DEF TypeOK, FilesTyped, LoopTyped, WorldTyped, Works

LEMMA Nothing ==
  NoSession \in Sessions /\ NoWork \in Works /\ NoClient \in Clients
BY DEF NoSession, NoWork, NoClient, Sessions, Works, Clients

LEMMA FaultTyped == ASSUME TypeOK, Fault PROVE faults' \in Nat
BY DEF TypeOK, Fault

(* What an observation leaves of the sessions and the connections. *)
Observes(w) ==
  /\ guard' \in [Workers -> Sessions]
  /\ \A u \in Workers \ {w} : guard'[u] = guard[u]
  /\ client' \in [Workers -> Clients]
  /\ faults' \in Nat

LEMMA SessionMade ==
  ASSUME TypeOK, NEW w \in Workers, terminal # None,
         guard' = [guard EXCEPT ![w] = [acct |-> terminal, gen |-> @.gen + 1]]
  PROVE  /\ guard' \in [Workers -> Sessions]
         /\ \A u \in Workers \ {w} : guard'[u] = guard[u]
<1>1. guard[w] \in Sessions /\ terminal \in Accounts
  BY DEF TypeOK
<1>2. [acct |-> terminal, gen |-> guard[w].gen + 1] \in Sessions
  BY <1>1 DEF Sessions
<1> QED BY <1>2 DEF TypeOK

LEMMA ClientMade ==
  ASSUME TypeOK, NEW w \in Workers, NEW l \in {"closed", "open", "lost"},
         NEW r \in BOOLEAN, NEW n \in BOOLEAN,
         client' = [client EXCEPT ![w] = [link |-> l, ready |-> r, names |-> n]]
  PROVE  client' \in [Workers -> Clients]
<1>1. [link |-> l, ready |-> r, names |-> n] \in Clients
  BY DEF Clients
<1> QED BY <1>1 DEF TypeOK

LEMMA ConfirmedStep ==
  ASSUME TypeOK, NEW w \in Workers, Confirmed(w)
  PROVE  /\ Observes(w) /\ terminal \in Accounts
         /\ guard'[w].acct = terminal
<1>1. terminal \in Accounts /\ terminal # None
  BY DEF Confirmed, TypeOK
<1>2. /\ guard' \in [Workers -> Sessions]
      /\ \A u \in Workers \ {w} : guard'[u] = guard[u]
  <2>1. CASE guard' = guard
    BY <2>1 DEF TypeOK
  <2>2. CASE guard' = [guard EXCEPT ![w] = [acct |-> terminal, gen |-> @.gen + 1]]
    BY <1>1, <2>2, SessionMade
  <2> QED BY <2>1, <2>2 DEF Confirmed
<1>5. guard'[w].acct = terminal
  BY DEF Confirmed, TypeOK
<1>3. client' \in [Workers -> Clients]
  <2> DEFINE n == client[w].link = "closed" \/ client[w].names
  <2>1. n \in BOOLEAN
    OBVIOUS
  <2>2. client' = [client EXCEPT ![w] = [link |-> "open", ready |-> TRUE, names |-> n]]
    BY DEF Confirmed
  <2> HIDE DEF n
  <2> QED BY <2>1, <2>2, ClientMade
<1>4. faults' \in Nat
  BY DEF Confirmed, TypeOK
<1> QED BY <1>1, <1>2, <1>3, <1>4, <1>5 DEF Observes

LEMMA RefusedStep ==
  ASSUME TypeOK, NEW w \in Workers, Refused(w)
  PROVE  Observes(w)
<1>1. client[w] \in Clients
  BY DEF TypeOK
<1>2. /\ [client[w] EXCEPT !.ready = FALSE] \in Clients
      /\ [client[w] EXCEPT !.ready = FALSE, !.names = FALSE] \in Clients
  BY <1>1 DEF Clients
<1>3. CASE Unidentified(w)
  BY <1>2, <1>3 DEF Unidentified, Observes, TypeOK
<1>4. CASE Unobserved(w)
  <2>1. faults' \in Nat
    BY <1>4, FaultTyped DEF Unobserved, TypeOK
  <2> QED BY <1>2, <1>4, <2>1 DEF Unobserved, Observes, TypeOK
<1>5. CASE Reconciled(w)
  <2>1. faults' \in Nat
    BY <1>5, FaultTyped DEF Reconciled, TypeOK
  <2>2. client' \in [Workers -> Clients]
    BY <1>5, ClientMade DEF Reconciled
  <2>3. /\ guard' \in [Workers -> Sessions]
        /\ \A u \in Workers \ {w} : guard'[u] = guard[u]
    <3>1. CASE guard' = guard
      BY <3>1 DEF TypeOK
    <3>2. CASE guard' = [guard EXCEPT ![w] = [acct |-> terminal, gen |-> @.gen + 1]]
      BY <1>5, <3>2, SessionMade DEF Reconciled
    <3> QED BY <1>5, <3>1, <3>2 DEF Reconciled
  <2> QED BY <2>1, <2>2, <2>3 DEF Observes
<1> QED BY <1>3, <1>4, <1>5 DEF Refused

LEMMA AtGoto ==
  ASSUME TypeOK, NEW w \in Workers, NEW l \in Labels, Goto(w, l)
  PROVE  /\ pc' \in [Workers -> Labels] /\ pc'[w] = l
         /\ \A u \in Workers \ {w} : pc'[u] = pc[u]
BY DEF TypeOK, Goto

LEMMA TheLabels ==
  \A l : l \in Labels <=> l \in {"idle", "wait", "merge", "write", "mark", "fail"}
BY DEF Labels

-----------------------------------------------------------------------------
(* What one worker's step leaves to the others *)

(* u's part of the loops is as it was, and the file too while u refreshes. *)
Kept(u) ==
  /\ pc'[u] = pc[u] /\ call'[u] = call[u]
  /\ work'[u] = work[u] /\ guard'[u] = guard[u]
  /\ lock' = u <=> lock = u
  /\ pc[u] # "idle" => csv' = csv /\ marker' \in {marker, None}

LEMMA Elsewhere ==
  ASSUME NEW u \in Workers, WorkerOK(u), Kept(u)
  PROVE  WorkerOK(u)'
<1> USE DEF Kept
<1>1. HoldsOK(u)' BY DEF WorkerOK, HoldsOK
<1>2. OldOK(u)' BY DEF WorkerOK, OldOK
<1>3. \A a : MarkerFits(a) /\ pc[u] # "idle" => MarkerFits(a)'
  BY DEF MarkerFits
<1>4. \A kind : Waits(u, kind)' <=> Waits(u, kind)
  BY DEF Waits
<1>5. PageOK(u)'
  BY <1>3, <1>4 DEF WorkerOK, PageOK, Waits
<1>6. BarsOK(u)'
  BY <1>3, <1>4 DEF WorkerOK, BarsOK, Waits
<1> QED BY <1>1, <1>2, <1>5, <1>6 DEF WorkerOK

(* Whoever refreshes holds the lock; nobody else does. *)
LEMMA OneHolder ==
  ASSUME IInv, NEW w \in Workers, NEW u \in Workers, u # w
  PROVE  /\ pc[w] # "idle" => lock = w /\ pc[u] = "idle" /\ lock # u
         /\ lock = None => pc[u] = "idle"
BY HistoryAssumption DEF IInv, WorkerOK, HoldsOK

(* A step that leaves the file alone and at most removes the marker. *)
LEMMA MarkerRemoved ==
  ASSUME CsvOK, MarkerNamesCsv, csv' = csv, marker' \in {marker, None}
  PROVE  CsvOK' /\ MarkerNamesCsv'
BY DEF CsvOK, MarkerNamesCsv

(* What a step must show: its worker, and that the others are kept. *)
LEMMA Preserved ==
  ASSUME IInv, NEW w \in Workers, TypeOK', CsvOK', MarkerNamesCsv',
         WorkerOK(w)', \A u \in Workers \ {w} : Kept(u)
  PROVE  IInv'
BY Elsewhere DEF IInv

-----------------------------------------------------------------------------
(* The steps of a refresh *)

LEMMA SubmitStep ==
  ASSUME TypeOK, NEW w \in Workers, NEW kind \in {"page", "gap"},
         NEW cached \in Names \cup {None}, Submit(w, kind, cached)
  PROVE  /\ call' \in [Workers -> Calls \cup {None}]
         /\ call'[w] = [kind |-> kind, begun |-> FALSE, cached |-> cached]
         /\ call'[w] # None
         /\ \A u \in Workers \ {w} : call'[u] = call[u]
         /\ pc' \in [Workers -> Labels] /\ pc'[w] = "wait"
         /\ \A u \in Workers \ {w} : pc'[u] = pc[u]
<1>1. "wait" \in Labels BY TheLabels
<1>2. [kind |-> kind, begun |-> FALSE, cached |-> cached] \in Calls BY DEF Calls
<1>3. [kind |-> kind, begun |-> FALSE, cached |-> cached] # None
  BY <1>2, NoneAssumption
<1> QED BY <1>1, <1>2, <1>3, AtGoto DEF Submit, TypeOK

LEMMA StartStep ==
  ASSUME IInv, NEW w \in Workers, StartRefresh(w)
  PROVE  IInv'
<1>0. TypeOK /\ FilesTyped /\ LoopTyped /\ WorldTyped /\ WorkerOK(w)
      /\ CsvOK /\ MarkerNamesCsv
  BY TypeParts DEF IInv
<1>1. /\ pc[w] = "idle" /\ call[w] = None
      /\ UNCHANGED <<csv, cert, asked, terminal, switches>>
  BY DEF StartRefresh
<1>2. Observes(w)
  <2>1. CASE Confirmed(w)
    BY <1>0, <2>1, ConfirmedStep
  <2>2. CASE Refused(w)
    BY <1>0, <2>2, RefusedStep
  <2>3. CASE Fault /\ UNCHANGED <<guard, client>>
    BY <1>0, <2>3, FaultTyped DEF Observes, LoopTyped
  <2> QED BY <2>1, <2>2, <2>3 DEF StartRefresh
<1>3. CASE /\ lock = None /\ lock' = w
           /\ work' = [work EXCEPT ![w].old = csv]
           /\ Submit(w, "page", IF csv = None THEN None ELSE csv.src)
           /\ UNCHANGED marker
  <2> DEFINE cached == IF csv = None THEN None ELSE csv.src
  <2>1. cached \in Names \cup {None}
    BY <1>0 DEF FilesTyped, Contents
  <2>2. /\ call' \in [Workers -> Calls \cup {None}]
        /\ call'[w] = [kind |-> "page", begun |-> FALSE, cached |-> cached]
        /\ call'[w] # None
        /\ \A u \in Workers \ {w} : call'[u] = call[u]
        /\ pc' \in [Workers -> Labels] /\ pc'[w] = "wait"
        /\ \A u \in Workers \ {w} : pc'[u] = pc[u]
    BY <1>0, <1>3, <2>1, SubmitStep
  <2>3. /\ work' \in [Workers -> Works] /\ work'[w].old = csv
        /\ \A u \in Workers \ {w} : work'[u] = work[u]
    BY <1>0, <1>3 DEF FilesTyped, LoopTyped, Works
  <2>4. TypeOK'
    BY <1>0, <1>1, <1>2, <1>3, <2>2, <2>3, TypeNext
    DEF FilesTyped, LoopTyped, WorldTyped, Observes
  <2>6. HoldsOK(w)' /\ OldOK(w)'
    BY <1>1, <1>3, <2>2, <2>3 DEF HoldsOK, OldOK
  <2>7. PageOK(w)' /\ BarsOK(w)'
    BY <1>1, <2>2 DEF PageOK, BarsOK, Waits
  <2>8. \A u \in Workers \ {w} : Kept(u)
    BY <1>1, <1>2, <1>3, <2>2, <2>3, OneHolder, HistoryAssumption
    DEF Kept, Observes
  <2> QED BY <1>0, <1>1, <1>3, <2>4, <2>6, <2>7, <2>8, Preserved, MarkerRemoved DEF WorkerOK
<1>4. CASE UNCHANGED <<lock, pc, work, call>> /\ marker' \in {marker, None}
  <2>1. TypeOK'
    BY <1>0, <1>1, <1>2, <1>4, TypeNext
    DEF FilesTyped, LoopTyped, WorldTyped, Observes
  <2>2. WorkerOK(w)'
    BY <1>0, <1>1, <1>4 DEF WorkerOK, HoldsOK, OldOK, PageOK, BarsOK, Waits
  <2>3. \A u \in Workers \ {w} : Kept(u)
    BY <1>1, <1>2, <1>4 DEF Kept, Observes
  <2> QED BY <1>0, <1>1, <1>4, <2>1, <2>2, <2>3, Preserved, MarkerRemoved
<1> QED BY <1>3, <1>4, Zenon DEF StartRefresh

LEMMA TimeOutStep ==
  ASSUME IInv, NEW w \in Workers, TimeOut(w)
  PROVE  IInv'
<1>0. TypeOK /\ FilesTyped /\ LoopTyped /\ WorldTyped /\ WorkerOK(w)
      /\ CsvOK /\ MarkerNamesCsv
  BY TypeParts DEF IInv
<1>1. /\ pc[w] = "wait" /\ Goto(w, "fail") /\ faults' \in Nat
      /\ UNCHANGED <<files, guard, client, call, work, cert, asked, terminal, switches>>
  BY <1>0, FaultTyped DEF TimeOut
<1>2. /\ pc' \in [Workers -> Labels] /\ pc'[w] = "fail"
      /\ \A u \in Workers \ {w} : pc'[u] = pc[u]
  <2>1. "fail" \in Labels BY TheLabels
  <2> QED BY <1>0, <1>1, <2>1, AtGoto
<1>3. TypeOK'
  BY <1>0, <1>1, <1>2, TypeNext DEF FilesTyped, LoopTyped, WorldTyped, files
<1>4. WorkerOK(w)'
  BY <1>0, <1>1, <1>2 DEF WorkerOK, HoldsOK, OldOK, PageOK, BarsOK, Waits, files
<1>5. \A u \in Workers \ {w} : Kept(u)
  BY <1>1, <1>2 DEF Kept, files
<1>6. CsvOK' /\ MarkerNamesCsv'
  BY <1>0, <1>1, MarkerRemoved DEF files
<1> QED BY <1>3, <1>4, <1>5, <1>6, Preserved

LEMMA MergeStep ==
  ASSUME IInv, NEW w \in Workers, Merge(w)
  PROVE  IInv'
<1>0. TypeOK /\ FilesTyped /\ LoopTyped /\ WorldTyped /\ WorkerOK(w)
      /\ CsvOK /\ MarkerNamesCsv
  BY TypeParts DEF IInv
<1>1. pc[w] = "merge" /\ UNCHANGED <<files, guard, client, cert, asked, world>>
  BY DEF Merge
<1>2. /\ work[w] \in Works /\ work[w].old = csv
      /\ work[w].id.acct \in Accounts /\ MarkerFits(work[w].id.acct) /\ lock = w
  BY <1>0, <1>1 DEF LoopTyped, WorkerOK, HoldsOK, OldOK, BarsOK
<1>3. MarkerFits(work[w].id.acct)'
      <=> marker' \in {None, NameOf[(work[w].id.acct)']}
  BY DEF MarkerFits
<1>4. CsvOK' /\ MarkerNamesCsv'
  BY <1>0, <1>1, MarkerRemoved DEF files
<1>5. ASSUME work' = [work EXCEPT ![w].checked = work[w].id.acct],
             Goto(w, "write"), UNCHANGED call
      PROVE  IInv'
  <2>1. /\ pc' \in [Workers -> Labels] /\ pc'[w] = "write"
        /\ \A u \in Workers \ {w} : pc'[u] = pc[u]
    <3>1. "write" \in Labels BY TheLabels
    <3> QED BY <1>0, <1>5, <3>1, AtGoto
  <2>2. /\ work' \in [Workers -> Works]
        /\ work'[w].old = csv /\ work'[w].id = work[w].id
        /\ work'[w].checked = work[w].id.acct
        /\ \A u \in Workers \ {w} : work'[u] = work[u]
    BY <1>0, <1>2, <1>5 DEF LoopTyped, Works
  <2>3. TypeOK'
    BY <1>0, <1>1, <1>5, <2>1, <2>2, TypeNext
    DEF FilesTyped, LoopTyped, WorldTyped, files, world
  <2>4. HoldsOK(w)' /\ OldOK(w)' /\ PageOK(w)'
    BY <1>0, <1>1, <1>2, <1>5, <2>1, <2>2
    DEF WorkerOK, HoldsOK, OldOK, PageOK, Waits, files
  <2>5. BarsOK(w)'
    BY <1>1, <1>2, <2>1, <2>2 DEF BarsOK, Waits, files, MarkerFits
  <2>6. \A u \in Workers \ {w} : Kept(u)
    BY <1>1, <1>5, <2>1, <2>2 DEF Kept, files
  <2> QED BY <1>4, <2>3, <2>4, <2>5, <2>6, Preserved DEF WorkerOK
<1>6. CASE Submit(w, "gap", None) /\ UNCHANGED work
  <2>1. /\ call' \in [Workers -> Calls \cup {None}]
        /\ call'[w] = [kind |-> "gap", begun |-> FALSE, cached |-> None]
        /\ call'[w] # None
        /\ \A u \in Workers \ {w} : call'[u] = call[u]
        /\ pc' \in [Workers -> Labels] /\ pc'[w] = "wait"
        /\ \A u \in Workers \ {w} : pc'[u] = pc[u]
    BY <1>0, <1>6, SubmitStep
  <2>2. TypeOK'
    BY <1>0, <1>1, <1>6, <2>1, TypeNext
    DEF FilesTyped, LoopTyped, WorldTyped, files, world
  <2>4. HoldsOK(w)' /\ OldOK(w)'
    BY <1>1, <1>2, <1>6, <2>1 DEF HoldsOK, OldOK, files
  <2>5. PageOK(w)' /\ BarsOK(w)'
    BY <1>1, <1>2, <1>6, <2>1 DEF PageOK, BarsOK, Waits, MarkerFits, files
  <2>6. \A u \in Workers \ {w} : Kept(u)
    BY <1>1, <1>6, <2>1 DEF Kept, files
  <2> QED BY <1>4, <2>2, <2>4, <2>5, <2>6, Preserved DEF WorkerOK
<1> QED BY <1>5, <1>6 DEF Merge

-----------------------------------------------------------------------------
(* The end of a refresh *)

LEMMA FinishStep ==
  ASSUME TypeOK, NEW w \in Workers, Finish(w)
  PROVE  /\ lock' = None
         /\ work' \in [Workers -> Works]
         /\ \A u \in Workers \ {w} : work'[u] = work[u]
         /\ pc' \in [Workers -> Labels] /\ pc'[w] = "idle"
         /\ \A u \in Workers \ {w} : pc'[u] = pc[u]
<1>1. "idle" \in Labels BY TheLabels
<1>2. work' \in [Workers -> Works] /\ \A u \in Workers \ {w} : work'[u] = work[u]
  BY Nothing, TypeParts DEF Finish, LoopTyped
<1> QED BY <1>1, <1>2, AtGoto DEF Finish

(* A worker that lets go of the lock, and sets or removes the marker. *)
LEMMA LetsGo ==
  ASSUME IInv, NEW w \in Workers, pc[w] # "idle", Finish(w),
         marker' \in Names \cup {None}, MarkerNamesCsv',
         UNCHANGED <<csv, guard, client, call, cert, asked, world>>
  PROVE  IInv'
<1>0. /\ TypeOK /\ FilesTyped /\ LoopTyped /\ WorldTyped /\ CsvOK
      /\ \A u \in Workers : WorkerOK(u)
  BY TypeParts DEF IInv
<1>1. /\ lock' = None
      /\ work' \in [Workers -> Works]
      /\ \A u \in Workers \ {w} : work'[u] = work[u]
      /\ pc' \in [Workers -> Labels] /\ pc'[w] = "idle"
      /\ \A u \in Workers \ {w} : pc'[u] = pc[u]
  BY <1>0, FinishStep
<1>2. \A u \in Workers \ {w} : pc[u] = "idle" /\ lock # u
  BY OneHolder
<1>3. TypeOK'
  BY <1>0, <1>1, TypeNext DEF FilesTyped, LoopTyped, WorldTyped, world
<1>4. \A u \in Workers \ {w} : Kept(u)
  BY <1>1, <1>2, HistoryAssumption DEF Kept
<1>5. WorkerOK(w)'
  BY <1>1, HistoryAssumption DEF WorkerOK, HoldsOK, OldOK, PageOK, BarsOK, Waits
<1>6. CsvOK'
  BY <1>0 DEF CsvOK
<1> QED BY <1>3, <1>4, <1>5, <1>6, Preserved

LEMMA MarkStep ==
  ASSUME IInv, NEW w \in Workers, Mark(w)
  PROVE  IInv'
<1>1. /\ pc[w] = "mark" /\ WorkerOK(w)
      /\ UNCHANGED <<csv, guard, client, call, cert, asked, world>> /\ Finish(w)
      /\ marker' \in {None, NameOf[work[w].id.acct]}
  BY DEF Mark, IInv
<1>2. /\ work[w].id.acct \in Accounts
      /\ csv # None /\ csv.src = NameOf[work[w].id.acct]
  BY <1>1 DEF WorkerOK, BarsOK
<1>3. marker' \in Names \cup {None}
  BY <1>1, <1>2 DEF Names
<1>4. MarkerNamesCsv'
  BY <1>1, <1>2 DEF MarkerNamesCsv
<1>5. pc[w] # "idle"
  BY <1>1
<1> QED BY <1>1, <1>3, <1>4, <1>5, LetsGo

LEMMA FailStep ==
  ASSUME IInv, NEW w \in Workers, Fail(w)
  PROVE  IInv'
<1>1. /\ pc[w] = "fail" /\ marker' = None /\ Finish(w)
      /\ UNCHANGED <<csv, guard, client, call, cert, asked, world>>
  BY DEF Fail
<1>2. MarkerNamesCsv'
  BY <1>1 DEF MarkerNamesCsv
<1>3. pc[w] # "idle"
  BY <1>1
<1> QED BY <1>1, <1>2, <1>3, LetsGo

LEMMA MergedFile ==
  ASSUME IInv, NEW w \in Workers, pc[w] = "write", guard[w] = work[w].id
  PROVE  /\ Merged(w) \in Contents
         /\ Merged(w).src = NameOf[work[w].id.acct]
         /\ \A a \in Merged(w).from : NameOf[a] = Merged(w).src
         /\ Merged(w).checked \in Merged(w).from
<1> DEFINE id == work[w].id
           old == work[w].old
           kept == IF old # None /\ old.src = NameOf[id.acct] THEN old.from ELSE {}
<1>1. /\ id.acct \in Accounts /\ work[w].checked = id.acct /\ old = csv
  BY DEF IInv, WorkerOK, BarsOK, OldOK
<1>2. old \in Contents \cup {None} /\ CsvOK
  BY <1>1, TypeParts DEF IInv, FilesTyped
<1>3. kept \in SUBSET Accounts /\ \A a \in kept : NameOf[a] = NameOf[id.acct]
  BY <1>1, <1>2 DEF CsvOK, Contents
<1>4. Merged(w) = [src |-> NameOf[id.acct], from |-> {id.acct} \cup kept,
                   checked |-> id.acct]
  BY <1>1 DEF Merged
<1> HIDE DEF id, old, kept
<1>5. Merged(w) \in Contents
  BY <1>1, <1>3, <1>4 DEF Contents, Names
<1> QED
  <2>1. Merged(w).src = NameOf[work[w].id.acct]
    BY <1>4 DEF id
  <2> QED BY <1>3, <1>4, <1>5, <2>1

LEMMA WriteStep ==
  ASSUME IInv, NEW w \in Workers, WriteCsv(w)
  PROVE  IInv'
<1>0. TypeOK /\ FilesTyped /\ LoopTyped /\ WorldTyped /\ WorkerOK(w)
      /\ CsvOK /\ MarkerNamesCsv
  BY TypeParts DEF IInv
<1>1. /\ pc[w] = "write" /\ lock = w /\ call[w] = None
      /\ UNCHANGED <<marker, lock, guard, client, call, work, cert, asked, world>>
      /\ work[w].id.acct \in Accounts
      /\ marker \in {None, NameOf[work[w].id.acct]}
  BY <1>0 DEF WriteCsv, WorkerOK, HoldsOK, BarsOK, MarkerFits
<1>2. \A u \in Workers \ {w} : pc[u] = "idle"
  BY <1>1, OneHolder
<1>3. CASE guard[w] = work[w].id /\ csv' = Merged(w) /\ Goto(w, "mark")
  <2>1. /\ pc' \in [Workers -> Labels] /\ pc'[w] = "mark"
        /\ \A u \in Workers \ {w} : pc'[u] = pc[u]
    <3>1. "mark" \in Labels BY TheLabels
    <3> QED BY <1>0, <1>3, <3>1, AtGoto
  <2>2. /\ csv' \in Contents /\ csv'.src = NameOf[work[w].id.acct]
        /\ \A a \in csv'.from : NameOf[a] = csv'.src
        /\ csv'.checked \in csv'.from
    BY <1>1, <1>3, MergedFile
  <2>3. TypeOK'
    BY <1>0, <1>1, <2>1, <2>2, TypeNext DEF FilesTyped, LoopTyped, WorldTyped, world
  <2>4. CsvOK' /\ MarkerNamesCsv'
    BY <1>1, <2>2, NoneAssumption DEF CsvOK, MarkerNamesCsv
  <2>5. csv' # None
    BY <2>2, NoneAssumption
  <2>6. WorkerOK(w)'
    BY <1>1, <2>1, <2>2, <2>5
    DEF WorkerOK, HoldsOK, OldOK, PageOK, BarsOK, Waits, MarkerFits
  <2>7. \A u \in Workers \ {w} : Kept(u)
    BY <1>1, <1>2, <2>1 DEF Kept
  <2> QED BY <2>3, <2>4, <2>6, <2>7, Preserved
<1>4. CASE Goto(w, "fail") /\ UNCHANGED csv
  <2>1. /\ pc' \in [Workers -> Labels] /\ pc'[w] = "fail"
        /\ \A u \in Workers \ {w} : pc'[u] = pc[u]
    <3>1. "fail" \in Labels BY TheLabels
    <3> QED BY <1>0, <1>4, <3>1, AtGoto
  <2>2. TypeOK'
    BY <1>0, <1>1, <1>4, <2>1, TypeNext DEF FilesTyped, LoopTyped, WorldTyped, world
  <2>3. WorkerOK(w)'
    BY <1>1, <1>4, <2>1 DEF WorkerOK, HoldsOK, OldOK, PageOK, BarsOK, Waits
  <2>4. \A u \in Workers \ {w} : Kept(u)
    BY <1>1, <1>4, <2>1 DEF Kept
  <2>5. CsvOK' /\ MarkerNamesCsv'
    BY <1>0, <1>1, <1>4, MarkerRemoved
  <2> QED BY <2>2, <2>3, <2>4, <2>5, Preserved
<1> QED BY <1>3, <1>4 DEF WriteCsv

-----------------------------------------------------------------------------
(* The executor *)

LEMMA CallFailedStep ==
  ASSUME TypeOK, NEW w \in Workers, CallFailed(w)
  PROVE  /\ call' \in [Workers -> Calls \cup {None}] /\ call'[w] = None
         /\ \A u \in Workers \ {w} : call'[u] = call[u]
         /\ pc' \in [Workers -> Labels]
         /\ pc'[w] = IF pc[w] = "wait" THEN "fail" ELSE pc[w]
         /\ \A u \in Workers \ {w} : pc'[u] = pc[u]
<1>1. "fail" \in Labels BY TheLabels
<1>2. CASE pc[w] = "wait"
  BY <1>1, <1>2, AtGoto DEF CallFailed, TypeOK
<1>3. CASE pc[w] # "wait"
  BY <1>3 DEF CallFailed, TypeOK
<1> QED BY <1>2, <1>3

(* A failed call, whatever the session observed, is only heard of. *)
LEMMA FailedCall ==
  ASSUME IInv, NEW w \in Workers, call[w] # None, CallFailed(w),
         Observes(w),
         UNCHANGED <<files, work, cert, asked, terminal, switches>>
  PROVE  IInv'
<1>0. TypeOK /\ FilesTyped /\ LoopTyped /\ WorldTyped /\ WorkerOK(w)
      /\ CsvOK /\ MarkerNamesCsv
  BY TypeParts DEF IInv
<1>1. /\ call' \in [Workers -> Calls \cup {None}] /\ call'[w] = None
      /\ \A u \in Workers \ {w} : call'[u] = call[u]
      /\ pc' \in [Workers -> Labels]
      /\ pc'[w] = IF pc[w] = "wait" THEN "fail" ELSE pc[w]
      /\ \A u \in Workers \ {w} : pc'[u] = pc[u]
  BY <1>0, CallFailedStep
<1>2. \A u \in Workers \ {w} : guard'[u] = guard[u]
  BY DEF Observes
<1>3. TypeOK'
  BY <1>0, <1>1, TypeNext
  DEF FilesTyped, LoopTyped, WorldTyped, files, Observes
<1>4. /\ pc[w] \notin {"merge", "write", "mark"} /\ pc'[w] \in {"idle", "fail"}
      /\ pc'[w] # "idle" <=> pc[w] # "idle"
  <2>1. pc[w] \notin {"merge", "write", "mark"}
    BY <1>0 DEF WorkerOK, HoldsOK
  <2>2. pc[w] \in Labels
    BY <1>0 DEF LoopTyped
  <2> QED BY <1>1, <2>1, <2>2, TheLabels
<1>5. WorkerOK(w)'
  <2>1. HoldsOK(w)'
    BY <1>0, <1>1, <1>4 DEF WorkerOK, HoldsOK, files
  <2>2. OldOK(w)' /\ PageOK(w)' /\ BarsOK(w)'
    BY <1>4 DEF OldOK, PageOK, BarsOK, Waits
  <2> QED BY <2>1, <2>2 DEF WorkerOK
<1>6. \A u \in Workers \ {w} : Kept(u)
  BY <1>1, <1>2 DEF Kept, files
<1>7. CsvOK' /\ MarkerNamesCsv'
  BY <1>0, MarkerRemoved DEF files
<1> QED BY <1>3, <1>5, <1>6, <1>7, Preserved

LEMMA BeginsStep ==
  ASSUME IInv, NEW w \in Workers, CallBegins(w)
  PROVE  IInv'
<1>0. TypeOK /\ FilesTyped /\ LoopTyped /\ WorldTyped /\ WorkerOK(w)
      /\ CsvOK /\ MarkerNamesCsv
  BY TypeParts DEF IInv
<1>1. /\ call[w] # None /\ ~call[w].begun
      /\ UNCHANGED <<csv, lock, work, cert, asked, terminal, switches>>
  BY DEF CallBegins
<1>2. CASE /\ Confirmed(w)
           /\ call' = [call EXCEPT ![w].begun = TRUE]
           /\ marker' = IF call[w].kind = "page" /\ call[w].cached # NameOf[terminal]
                          THEN None ELSE marker
           /\ UNCHANGED pc
  <2>1. call[w] \in Calls
    BY <1>0, <1>1 DEF LoopTyped
  <2>2. /\ call' \in [Workers -> Calls \cup {None}]
        /\ call'[w] = [call[w] EXCEPT !.begun = TRUE]
        /\ \A u \in Workers \ {w} : call'[u] = call[u]
    <3>1. [call[w] EXCEPT !.begun = TRUE] \in Calls
      BY <2>1 DEF Calls
    <3> QED BY <1>0, <1>2, <3>1 DEF LoopTyped
  <2>3. /\ call'[w] # None /\ call'[w].kind = call[w].kind /\ call'[w].begun
    <3>1. call'[w] \in Calls
      BY <2>1, <2>2 DEF Calls
    <3> QED BY <2>1, <2>2, <3>1, NoneAssumption DEF Calls
  <2>4. Observes(w) /\ guard'[w].acct = terminal
    BY <1>0, <1>2, ConfirmedStep
  <2>5. marker' \in {marker, None}
    BY <1>2
  <2>6. TypeOK'
    BY <1>0, <1>1, <1>2, <2>2, <2>4, <2>5, TypeNext
    DEF FilesTyped, LoopTyped, WorldTyped, Observes
  <2>7. HoldsOK(w)' /\ OldOK(w)'
    BY <1>0, <1>1, <1>2, <2>3 DEF WorkerOK, HoldsOK, OldOK
  <2>8. PageOK(w)'
    <3>1. ASSUME Waits(w, "page")' PROVE MarkerFits(guard[w].acct)'
      <4>1. Waits(w, "page") /\ call[w].cached = IF csv = None THEN None ELSE csv.src
        BY <1>0, <1>1, <1>2, <2>3, <3>1 DEF WorkerOK, PageOK, Waits
      <4>2. CASE call[w].cached # NameOf[terminal]
        BY <1>2, <4>1, <4>2 DEF Waits, MarkerFits
      <4>3. CASE call[w].cached = NameOf[terminal]
        <5>1. marker' = marker /\ NameOf[terminal] # None
          BY <1>0, <1>2, <4>3, ConfirmedStep, HistoryAssumption
        <5>2. csv # None /\ csv.src = NameOf[terminal]
          BY <4>1, <4>3, <5>1
        <5>3. marker \in {None, NameOf[terminal]}
          BY <1>0, <5>2 DEF MarkerNamesCsv
        <5> QED BY <2>4, <5>1, <5>3 DEF MarkerFits
      <4> QED BY <4>2, <4>3
    <3> QED BY <2>3, <3>1 DEF PageOK
  <2>9. BarsOK(w)'
    <3>1. \A a : MarkerFits(a) => MarkerFits(a)'
      BY <2>5 DEF MarkerFits
    <3>2. Waits(w, "gap")' => Waits(w, "gap")
      BY <1>1, <1>2, <2>3 DEF Waits
    <3>3. pc[w] \notin {"merge", "write", "mark"}
      BY <1>0, <1>1 DEF WorkerOK, HoldsOK
    <3> QED BY <1>0, <1>1, <1>2, <3>1, <3>2, <3>3 DEF WorkerOK, BarsOK
  <2>10. \A u \in Workers \ {w} : Kept(u)
    BY <1>1, <1>2, <2>2, <2>4, <2>5 DEF Kept, Observes
  <2>11. CsvOK' /\ MarkerNamesCsv'
    BY <1>0, <1>1, <2>5, MarkerRemoved
  <2> QED BY <2>6, <2>7, <2>8, <2>9, <2>10, <2>11, Preserved DEF WorkerOK
<1>3. CASE Refused(w) /\ CallFailed(w) /\ UNCHANGED marker
  <2>1. Observes(w)
    BY <1>0, <1>3, RefusedStep
  <2> QED BY <1>1, <1>3, <2>1, FailedCall DEF files
<1> QED BY <1>2, <1>3, Zenon DEF CallBegins

LEMMA EndsStep ==
  ASSUME IInv, NEW w \in Workers, CallEnds(w)
  PROVE  IInv'
<1>0. TypeOK /\ FilesTyped /\ LoopTyped /\ WorldTyped /\ WorkerOK(w)
      /\ CsvOK /\ MarkerNamesCsv
  BY TypeParts DEF IInv
<1>1. /\ call[w] # None /\ call[w].begun
      /\ UNCHANGED <<files, asked, terminal, switches>>
  BY DEF CallEnds
<1>2. CsvOK' /\ MarkerNamesCsv'
  BY <1>0, <1>1, MarkerRemoved DEF files
<1>3. CASE Refused(w) /\ CallFailed(w) /\ UNCHANGED <<work, cert>>
  <2>1. Observes(w)
    BY <1>0, <1>3, RefusedStep
  <2> QED BY <1>1, <1>3, <2>1, FailedCall
<1>4. CASE /\ Confirmed(w) /\ guard' = guard
           /\ call' = [call EXCEPT ![w] = None]
           /\ \/ pc[w] # "wait" /\ UNCHANGED <<pc, work, cert>>
              \/ /\ pc[w] = "wait" /\ call[w].kind = "page"
                 /\ work' = [work EXCEPT ![w].id = guard[w]]
                 /\ Goto(w, "merge") /\ UNCHANGED cert
              \/ /\ pc[w] = "wait" /\ call[w].kind = "gap"
                 /\ work' = [work EXCEPT ![w].checked = terminal]
                 /\ cert' = [cert EXCEPT ![w] = guard[w]]
                 /\ Goto(w, "write")
  <2>0. Observes(w)
    BY <1>0, <1>4, ConfirmedStep
  <2>1. /\ call' \in [Workers -> Calls \cup {None}] /\ call'[w] = None
        /\ \A u \in Workers \ {w} : call'[u] = call[u]
    BY <1>0, <1>4 DEF LoopTyped
  <2>2. guard' = guard /\ guard[w] \in Sessions /\ guard[w].acct = terminal
        /\ terminal \in Accounts
    BY <1>0, <1>4, ConfirmedStep DEF LoopTyped
  <2>3. CASE pc[w] # "wait"
    <3>1. UNCHANGED <<pc, work, cert>>
      BY <1>4, <2>3
    <3>2. TypeOK'
      BY <1>0, <1>1, <2>0, <2>1, <2>2, <3>1, TypeNext
      DEF FilesTyped, LoopTyped, WorldTyped, files, Observes
    <3>3. WorkerOK(w)'
      BY <1>0, <1>1, <2>0, <2>1, <2>2, <2>3, <3>1
      DEF WorkerOK, HoldsOK, OldOK, PageOK, BarsOK, Waits, MarkerFits, files
    <3>4. \A u \in Workers \ {w} : Kept(u)
      BY <1>1, <2>1, <2>2, <3>1 DEF Kept, files
    <3> QED BY <1>2, <3>2, <3>3, <3>4, Preserved
  <2>4. CASE pc[w] = "wait" /\ call[w].kind = "page"
    <3>1. work' = [work EXCEPT ![w].id = guard[w]] /\ Goto(w, "merge") /\ UNCHANGED cert
      BY <1>4, <2>4
    <3>2. /\ pc' \in [Workers -> Labels] /\ pc'[w] = "merge"
          /\ \A u \in Workers \ {w} : pc'[u] = pc[u]
      <4>1. "merge" \in Labels BY TheLabels
      <4> QED BY <1>0, <3>1, <4>1, AtGoto
    <3>3. /\ work' \in [Workers -> Works]
          /\ work'[w].old = work[w].old /\ work'[w].id = guard[w]
          /\ \A u \in Workers \ {w} : work'[u] = work[u]
      <4>1. work[w] \in Works
        BY <1>0 DEF LoopTyped
      <4> QED BY <1>0, <2>2, <3>1, <4>1 DEF LoopTyped, Works
    <3>4. TypeOK'
      BY <1>0, <1>1, <2>0, <2>1, <2>2, <3>1, <3>2, <3>3, TypeNext
      DEF FilesTyped, LoopTyped, WorldTyped, files, Observes
    <3>5. HoldsOK(w)' /\ OldOK(w)' /\ PageOK(w)'
      BY <1>0, <1>1, <2>1, <2>4, <3>2, <3>3
      DEF WorkerOK, HoldsOK, OldOK, PageOK, Waits, files
    <3>6. BarsOK(w)'
      <4>1. MarkerFits(guard[w].acct)
        BY <1>0, <1>1, <2>4 DEF WorkerOK, PageOK, Waits
      <4> QED BY <1>1, <2>2, <3>2, <3>3, <4>1 DEF BarsOK, Waits, MarkerFits, files
    <3>7. \A u \in Workers \ {w} : Kept(u)
      BY <1>1, <2>1, <2>2, <3>2, <3>3 DEF Kept, files
    <3> QED BY <1>2, <3>4, <3>5, <3>6, <3>7, Preserved DEF WorkerOK
  <2>5. CASE pc[w] = "wait" /\ call[w].kind # "page"
    <3>1. /\ work' = [work EXCEPT ![w].checked = terminal]
          /\ cert' = [cert EXCEPT ![w] = guard[w]] /\ Goto(w, "write")
      BY <1>4, <2>5
    <3>2. /\ pc' \in [Workers -> Labels] /\ pc'[w] = "write"
          /\ \A u \in Workers \ {w} : pc'[u] = pc[u]
      <4>1. "write" \in Labels BY TheLabels
      <4> QED BY <1>0, <3>1, <4>1, AtGoto
    <3>3. /\ work' \in [Workers -> Works]
          /\ work'[w].old = work[w].old /\ work'[w].id = work[w].id
          /\ work'[w].checked = terminal
          /\ \A u \in Workers \ {w} : work'[u] = work[u]
      <4>1. work[w] \in Works
        BY <1>0 DEF LoopTyped
      <4> QED BY <1>0, <2>2, <3>1, <4>1 DEF LoopTyped, Works
    <3>4. cert' \in [Workers -> Sessions]
      BY <1>0, <2>2, <3>1 DEF LoopTyped
    <3>5. TypeOK'
      BY <1>0, <1>1, <2>0, <2>1, <2>2, <3>2, <3>3, <3>4, TypeNext
      DEF FilesTyped, LoopTyped, WorldTyped, files, Observes
    <3>6. HoldsOK(w)' /\ OldOK(w)' /\ PageOK(w)'
      BY <1>0, <1>1, <2>1, <2>5, <3>2, <3>3
      DEF WorkerOK, HoldsOK, OldOK, PageOK, Waits, files
    <3>7. BarsOK(w)'
      <4>1. call[w] \in Calls
        BY <1>0, <1>1 DEF LoopTyped
      <4>2. Waits(w, "gap")
        BY <1>1, <2>5, <4>1 DEF Waits, Calls
      <4>3. work[w].id.acct \in Accounts /\ MarkerFits(work[w].id.acct)
        BY <1>0, <4>2 DEF WorkerOK, BarsOK
      <4> QED BY <1>1, <2>2, <3>2, <3>3, <4>3 DEF BarsOK, Waits, MarkerFits, files
    <3>8. \A u \in Workers \ {w} : Kept(u)
      BY <1>1, <2>1, <2>2, <3>2, <3>3 DEF Kept, files
    <3> QED BY <1>2, <3>5, <3>6, <3>7, <3>8, Preserved DEF WorkerOK
  <2> QED BY <2>3, <2>4, <2>5
<1> QED BY <1>3, <1>4, Zenon DEF CallEnds

(* A callback that raises closes the connection, and is heard of. *)
LEMMA RaisesStep ==
  ASSUME IInv, NEW w \in Workers, CallRaises(w)
  PROVE  IInv'
<1>1. TypeOK
  BY DEF IInv
<1>2. faults' \in Nat
  BY <1>1, FaultTyped DEF CallRaises, TypeOK
<1>3. client' \in [Workers -> Clients]
  BY <1>1, Nothing DEF CallRaises, TypeOK
<1>4. Observes(w)
  BY <1>1, <1>2, <1>3 DEF CallRaises, Observes, TypeOK
<1> QED BY <1>4, FailedCall DEF CallRaises

-----------------------------------------------------------------------------
(* Crashes, the reader, logins *)

LEMMA CrashStep ==
  ASSUME IInv, NEW w \in Workers, Crash(w)
  PROVE  IInv'
<1>0. TypeOK /\ FilesTyped /\ LoopTyped /\ WorldTyped /\ WorkerOK(w)
      /\ CsvOK /\ MarkerNamesCsv
  BY TypeParts DEF IInv
<1>1. /\ lock' = IF lock = w THEN None ELSE lock
      /\ call' = [call EXCEPT ![w] = None]
      /\ work' = [work EXCEPT ![w] = NoWork]
      /\ guard' = [guard EXCEPT ![w] = NoSession]
      /\ client' = [client EXCEPT ![w] = NoClient]
      /\ cert' = [cert EXCEPT ![w] = NoSession]
      /\ UNCHANGED <<csv, marker, asked, terminal, switches>>
      /\ Goto(w, "idle") /\ faults' \in Nat
  BY <1>0, FaultTyped DEF Crash
<1>2. /\ pc' \in [Workers -> Labels] /\ pc'[w] = "idle"
      /\ \A u \in Workers \ {w} : pc'[u] = pc[u]
  <2>1. "idle" \in Labels BY TheLabels
  <2> QED BY <1>0, <1>1, <2>1, AtGoto
<1>3. /\ lock' \in Workers \cup {None} /\ lock' # w
      /\ call' \in [Workers -> Calls \cup {None}]
      /\ work' \in [Workers -> Works]
      /\ guard' \in [Workers -> Sessions] /\ cert' \in [Workers -> Sessions]
      /\ client' \in [Workers -> Clients]
  BY <1>0, <1>1, Nothing, HistoryAssumption DEF LoopTyped
<1>4. TypeOK'
  BY <1>0, <1>1, <1>2, <1>3, TypeNext DEF FilesTyped, LoopTyped, WorldTyped
<1>5. WorkerOK(w)'
  BY <1>2, <1>3 DEF WorkerOK, HoldsOK, OldOK, PageOK, BarsOK, Waits
<1>6. \A u \in Workers \ {w} : Kept(u)
  BY <1>0, <1>1, <1>2, HistoryAssumption DEF Kept, LoopTyped
<1>7. CsvOK' /\ MarkerNamesCsv'
  BY <1>0, <1>1, MarkerRemoved
<1> QED BY <1>4, <1>5, <1>6, <1>7, Preserved

(* The loop does not notice that its connection is lost. *)
LEMMA LoseStep ==
  ASSUME IInv, NEW w \in Workers, LoseConnection(w)
  PROVE  IInv'
<1>0. TypeOK /\ FilesTyped /\ LoopTyped /\ WorldTyped
      /\ CsvOK /\ MarkerNamesCsv /\ \A u \in Workers : WorkerOK(u)
  BY TypeParts DEF IInv
<1>1. /\ UNCHANGED <<files, pc, guard, call, work, cert, asked, terminal, switches>>
      /\ client' \in [Workers -> Clients] /\ faults' \in Nat
  BY <1>0, ClientMade, FaultTyped DEF LoseConnection
<1>2. TypeOK'
  BY <1>0, <1>1, TypeNext DEF FilesTyped, LoopTyped, WorldTyped, files
<1>3. CsvOK' /\ MarkerNamesCsv'
  BY <1>0, <1>1, MarkerRemoved DEF files
<1>4. ASSUME NEW u \in Workers PROVE WorkerOK(u)'
  <2>1. Kept(u)
    BY <1>1 DEF Kept, files
  <2> QED BY <1>0, <2>1, Elsewhere
<1> QED BY <1>2, <1>3, <1>4 DEF IInv

(* The reader, a login and a stutter touch neither files nor loops. *)
LEMMA Apart ==
  ASSUME IInv, UNCHANGED <<files, loop>>, WorldTyped'
  PROVE  IInv'
<1>1. TypeOK /\ FilesTyped /\ LoopTyped /\ CsvOK /\ MarkerNamesCsv
      /\ \A w \in Workers : WorkerOK(w)
  BY TypeParts DEF IInv
<1>2. TypeOK'
  BY <1>1, TypeNext DEF FilesTyped, LoopTyped, files, loop
<1>3. CsvOK' /\ MarkerNamesCsv'
  BY <1>1, MarkerRemoved DEF files
<1>4. \A w \in Workers : WorkerOK(w)'
  <2>1. \A w \in Workers : Kept(w)
    BY DEF Kept, files, loop
  <2> QED BY <1>1, <2>1, Elsewhere
<1> QED BY <1>2, <1>3, <1>4 DEF IInv

LEMMA WorldMoves ==
  ASSUME IInv, \/ ReadMarker \/ ReadCsv
               \/ \E a \in Accounts \cup {None} : SwitchAccount(a)
               \/ UNCHANGED vars
  PROVE  IInv'
<1>0. FilesTyped /\ WorldTyped
  BY TypeParts DEF IInv
<1>1. CASE ReadMarker \/ ReadCsv
  BY <1>0, <1>1, Apart DEF ReadMarker, ReadCsv, FilesTyped, WorldTyped, world
<1>2. ASSUME NEW a \in Accounts \cup {None}, SwitchAccount(a) PROVE IInv'
  BY <1>0, <1>2, Apart DEF SwitchAccount, WorldTyped
<1>3. CASE UNCHANGED vars
  BY <1>0, <1>3, Apart DEF vars, WorldTyped, world
<1> QED BY <1>1, <1>2, <1>3

-----------------------------------------------------------------------------
(* The invariant *)

LEMMA Start == Init => IInv
<1> SUFFICES ASSUME Init PROVE IInv
  OBVIOUS
<1>1. "idle" \in Labels BY TheLabels
<1>2. TypeOK
  BY <1>1, Nothing, TypeParts DEF Init, FilesTyped, LoopTyped, WorldTyped
<1>3. CsvOK /\ MarkerNamesCsv
  BY DEF Init, CsvOK, MarkerNamesCsv
<1>4. \A w \in Workers : WorkerOK(w)
  BY HistoryAssumption
  DEF Init, WorkerOK, HoldsOK, OldOK, PageOK, BarsOK, Waits
<1> QED BY <1>2, <1>3, <1>4 DEF IInv

LEMMA Induction == IInv /\ [Next]_vars => IInv'
<1> SUFFICES ASSUME IInv, [Next]_vars PROVE IInv'
  OBVIOUS
<1>1. ASSUME NEW w \in Workers,
             Refresh(w) \/ Execute(w) \/ Crash(w) \/ LoseConnection(w)
      PROVE  IInv'
  BY <1>1, StartStep, TimeOutStep, MergeStep, WriteStep, MarkStep, FailStep,
     BeginsStep, EndsStep, RaisesStep, CrashStep, LoseStep
  DEF Refresh, Execute
<1>2. CASE \/ ReadMarker \/ ReadCsv
           \/ \E a \in Accounts \cup {None} : SwitchAccount(a)
           \/ UNCHANGED vars
  BY <1>2, WorldMoves
<1> QED BY <1>1, <1>2 DEF Next

LEMMA Invariant == Spec => []IInv
BY Start, Induction, PTL DEF Spec

(* Type correctness: what the loops, the executor calls and the files hold *)
(* are sessions, calls and contents of the types the code gives them, the  *)
(* sources a merged file combines included (_merge_bars).                  *)
THEOREM HistoryTyped == Spec => []TypeOK
<1>1. IInv => TypeOK BY DEF IInv
<1> QED BY Invariant, <1>1, PTL

(* What HistoryRepository.read serves comes from one broker name, and its  *)
(* gaps were explained by an account whose bars are in it: two reads of a  *)
(* reader, with any steps of writers and logins between them, find that.   *)
THEOREM ReadersGetOneSource == Spec => []ServedFromOneSource
<1>1. IInv => ServedFromOneSource
  BY DEF IInv, CsvOK, ServedFromOneSource, Served
<1> QED BY Invariant, <1>1, PTL

(* The ready marker never stands without a file, nor beside one of another *)
(* source: _publish_cache and _invalidate_cache, the page read that begins *)
(* late, and a crash between the two replacements keep that.               *)
THEOREM MarkerIsTrue == Spec => []MarkerNamesCsv
<1>1. IInv => MarkerNamesCsv BY DEF IInv
<1> QED BY Invariant, <1>1, PTL

(* From its read of the cached bars to its _atomic_write_csv a worker has  *)
(* the file for itself: the bars it merges into are those of the file.     *)
THEOREM MergesIntoTheFile == Spec => []NoLostUpdate
<1>1. IInv => NoLostUpdate
  BY DEF IInv, WorkerOK, OldOK, NoLostUpdate
<1> QED BY Invariant, <1>1, PTL

=============================================================================
