------------------------ MODULE AccountSessionProofs ------------------------
(***************************************************************************)
(* What a session generation and an accepted read mean, for any number of  *)
(* threads, accounts, switches and failed calls.                           *)
(*                                                                         *)
(* The argument.  Between two observations the terminal is either where    *)
(* the guard saw it or, after one login, somewhere else (Near).  A         *)
(* resolver is of the account the guard saw if the terminal is still       *)
(* there, and an observation that finds the terminal elsewhere finds an    *)
(* account that is not the active one and drops it (ResolverInv).  The     *)
(* lock keeps the guard still under a callback, so the observation that    *)
(* follows it with the same generation finds the terminal where it was,    *)
(* and then everything the callback used was of that account.              *)
(***************************************************************************)
EXTENDS AccountSession, TLAPS

USE SessionAssumption

-----------------------------------------------------------------------------
(* Types *)

LEMMA JudgedType ==
  ASSUME NEW g \in Guards, NEW id \in Accounts \cup {None}
  PROVE  Recorded(g, id) \in Guards /\ Judged(g, id) \in Guards
<1>1. ASSUME NEW n \in Nat PROVE [g EXCEPT !.gen = n, !.key = id] \in Guards
  BY DEF Guards
<1>2. g.gen + 1 \in Nat
  BY DEF Guards
<1>3. Recorded(g, id) \in Guards
  BY <1>1, <1>2 DEF Recorded
<1> QED BY <1>3 DEF Judged, Guards, States

LEMMA ObserveType ==
  ASSUME TypeOK, Observe
  PROVE  guard' \in Guards /\ resolver' \in Accounts \cup {None, Broken}
         /\ moves' \in Nat /\ faults' \in Nat
<1>1. guard' \in Guards
  BY JudgedType DEF TypeOK, Observe
<1> QED BY <1>1 DEF TypeOK, Observe

LEMMA FailType ==
  ASSUME TypeOK, CallFails
  PROVE  faults' \in Nat
BY DEF TypeOK, CallFails

LEMMA GuardType ==
  ASSUME NEW g \in Guards
  PROVE  /\ Disconnected(g) \in Guards
         /\ Acknowledged(g) \in Guards
         /\ Fingerprint(g) \in Accounts \cup {None}
         /\ g.gen \in Nat
BY DEF Disconnected, Acknowledged, Fingerprint, Guards, States

LEMMA PublishType ==
  ASSUME NEW g \in Guards, Publish(g)
  PROVE  snapshot' \in Snapshots
BY GuardType DEF Publish, Snapshots

LEMMA LocalType ==
  ASSUME NEW l \in Locals, NEW o \in {"ensure", "resolve", "read"},
         NEW b \in BOOLEAN
  PROVE  /\ [l EXCEPT !.op = o] \in Locals
         /\ [l EXCEPT !.fresh = b] \in Locals
         /\ [l EXCEPT !.op = o, !.was = b] \in Locals
BY DEF Locals

LEMMA ReadType ==
  ASSUME NEW l \in Locals, NEW n \in Nat, NEW a \in Accounts \cup {None},
         NEW c \in Accounts \cup {None}, NEW d \in Accounts \cup {None}
  PROVE  /\ [l EXCEPT !.gen = n, !.acct = a, !.alias = c] \in Locals
         /\ [l EXCEPT !.gen = n, !.acct = a, !.at = d, !.alias = c] \in Locals
BY DEF Locals

LEMMA GotoType ==
  ASSUME TypeOK, NEW t \in Threads, NEW l \in Labels, Goto(t, l)
  PROVE  pc' \in [Threads -> Labels]
BY DEF TypeOK, Goto

LEMMA ForgottenType ==
  ASSUME TypeOK, NEW t \in Threads
  PROVE  Forgotten(t) \in [Threads -> Locals]
<1>1. [local[t] EXCEPT !.fresh = FALSE] \in Locals
  BY LocalType DEF TypeOK
<1> QED BY <1>1 DEF TypeOK, Forgotten

LEMMA RefusedType ==
  ASSUME TypeOK, NEW t \in Threads, Refused(t) \/ Unwinds(t)
  PROVE  lock' \in Threads \cup {None} /\ pc' \in [Threads -> Labels]
         /\ local' \in [Threads -> Locals]
BY ForgottenType, GotoType DEF Refused, Unwinds, Labels

LEMMA AdmittedType ==
  ASSUME TypeOK, NEW t \in Threads, Admitted(t), guard' \in Guards
  PROVE  lock' \in Threads \cup {None} /\ pc' \in [Threads -> Labels]
         /\ local' \in [Threads -> Locals] /\ snapshot' \in Snapshots
<1>1. [local[t] EXCEPT !.op = "read"] \in Locals
  BY LocalType DEF TypeOK
<1>2. AfterEnsure(t) \in Labels
  BY DEF AfterEnsure, Labels
<1>3. pc' \in [Threads -> Labels]
  BY <1>2, GotoType DEF Admitted, Labels, Inside
<1> QED BY <1>1, <1>3, PublishType DEF Admitted, TypeOK

LEMMA TypeStep ==
  ASSUME TypeOK, [Next]_vars
  PROVE  TypeOK'
<1> USE DEF outside, client, Close
<1>1. ASSUME NEW t \in Threads, Start(t) PROVE TypeOK'
  <2>1. /\ [local[t] EXCEPT !.op = "resolve"] \in Locals
        /\ [local[t] EXCEPT !.op = "ensure", !.was = up] \in Locals
    BY LocalType DEF TypeOK
  <2>2. local' \in [Threads -> Locals]
    BY <1>1, <2>1 DEF Start, TypeOK
  <2>3. snapshot' \in Snapshots
    BY <1>1 DEF Start, TypeOK, Snapshots
  <2>4. pc' \in [Threads -> Labels]
    BY <1>1, GotoType DEF Start, Labels
  <2> QED BY <1>1, <2>2, <2>3, <2>4 DEF Start, TypeOK
<1>2. ASSUME NEW t \in Threads, Enter(t) PROVE TypeOK'
  <2>1. guard' \in Guards /\ resolver' \in Accounts \cup {None, Broken}
        /\ moves' \in Nat /\ faults' \in Nat
    BY <1>2, ObserveType DEF Enter
  <2>2. up' \in BOOLEAN /\ lost' = lost /\ terminal' = terminal /\ logins' = logins
        /\ known' = known
    BY <1>2 DEF Enter, TypeOK
  <2>3. lock' \in Threads \cup {None} /\ pc' \in [Threads -> Labels]
        /\ local' \in [Threads -> Locals] /\ snapshot' \in Snapshots
    <3>1. CASE guard'.state = "ready" /\ ~(~up /\ resolver # None)
      BY <1>2, <2>1, <3>1, AdmittedType DEF Enter
    <3>2. CASE guard'.state = "ready" /\ ~up /\ resolver # None
      BY <1>2, <3>2, GotoType DEF Enter, TypeOK, Labels, Inside
    <3>3. CASE guard'.state = "switch"
      BY <1>2, <3>3, GotoType DEF Enter, TypeOK, Labels, Inside
    <3>4. CASE guard'.state = "unknown"
      BY <1>2, <3>4, <2>1, PublishType, RefusedType DEF Enter
    <3> QED BY <1>2, <3>1, <3>2, <3>3, <3>4 DEF Enter
  <2> QED BY <2>1, <2>2, <2>3 DEF TypeOK
<1>3. ASSUME NEW t \in Threads, EnterFails(t) \/ LeaveFails(t) PROVE TypeOK'
  <2>1. guard' \in Guards /\ resolver' = resolver /\ moves' = moves
        /\ faults' \in Nat
    BY <1>3, GuardType, FailType DEF EnterFails, LeaveFails, ObserveFails, TypeOK
  <2>2. snapshot' \in Snapshots /\ lock' \in Threads \cup {None}
        /\ pc' \in [Threads -> Labels] /\ local' \in [Threads -> Locals]
    BY <1>3, <2>1, PublishType, RefusedType DEF EnterFails, LeaveFails
  <2> QED BY <1>3, <2>1, <2>2 DEF EnterFails, LeaveFails, TypeOK
<1>4. ASSUME NEW t \in Threads, Refresh(t) PROVE TypeOK'
  <2>1. guard' \in Guards
    BY <1>4 DEF Refresh, TypeOK
  <2>2. snapshot' \in Snapshots /\ lock' \in Threads \cup {None}
        /\ pc' \in [Threads -> Labels] /\ local' \in [Threads -> Locals]
    BY <1>4, <2>1, AdmittedType DEF Refresh
  <2> QED BY <1>4, <2>1, <2>2 DEF Refresh, CatalogRead, TypeOK
<1>5. ASSUME NEW t \in Threads, RefreshFails(t) PROVE TypeOK'
  <2>1. guard' \in Guards /\ faults' \in Nat
    BY <1>5, GuardType, FailType DEF RefreshFails, CatalogFails, TypeOK
  <2>2. snapshot' \in Snapshots
    BY <1>5, <2>1, PublishType DEF RefreshFails, TypeOK
  <2>3. lock' \in Threads \cup {None}
        /\ pc' \in [Threads -> Labels] /\ local' \in [Threads -> Locals]
    BY <1>5, RefusedType DEF RefreshFails
  <2> QED BY <1>5, <2>1, <2>2, <2>3 DEF RefreshFails, TypeOK
<1>6. ASSUME NEW t \in Threads, Reconcile(t) PROVE TypeOK'
  <2>1. guard' \in Guards /\ faults' \in Nat
    BY <1>6, GuardType, FailType DEF Reconcile, CatalogRead, CatalogFails, TypeOK
  <2>2. snapshot' \in Snapshots
    BY <1>6, <2>1, PublishType DEF Reconcile, TypeOK
  <2>3. lock' \in Threads \cup {None}
        /\ pc' \in [Threads -> Labels] /\ local' \in [Threads -> Locals]
    BY <1>6, RefusedType DEF Reconcile
  <2>4. resolver' \in Accounts \cup {None, Broken}
    BY <1>6 DEF Reconcile, CatalogRead, TypeOK
  <2> QED BY <1>6, <2>1, <2>2, <2>3, <2>4 DEF Reconcile, TypeOK
<1>7. ASSUME NEW t \in Threads, ResolveSymbol(t) PROVE TypeOK'
  <2>1. resolver' \in Accounts
    BY <1>7 DEF ResolveSymbol, Resolves
  <2>2. local' \in [Threads -> Locals]
    <3> DEFINE l == [local[t] EXCEPT !.gen = guard.gen,
                       !.acct = Fingerprint(guard), !.alias = resolver']
    <3>1. l \in Locals
      BY <2>1, GuardType, ReadType DEF TypeOK
    <3>2. local' = [local EXCEPT ![t] = l]
      BY <1>7 DEF ResolveSymbol
    <3> QED BY <3>1, <3>2 DEF TypeOK
  <2>3. pc' \in [Threads -> Labels]
    BY <1>7, GotoType DEF ResolveSymbol, Labels, Inside
  <2> QED
    BY <1>7, <2>1, <2>2, <2>3 DEF ResolveSymbol, CatalogRead, TypeOK
<1>8. ASSUME NEW t \in Threads, Read(t) PROVE TypeOK'
  <2>1. local' \in [Threads -> Locals]
    <3> DEFINE a == IF Role[t] = "request" THEN local[t].alias ELSE resolver
               l == [local[t] EXCEPT !.gen = guard.gen,
                       !.acct = Fingerprint(guard), !.at = terminal,
                       !.alias = a]
    <3>1. a \in Accounts \cup {None}
      BY <1>8 DEF Read, CanRead, Resolves, TypeOK, Locals
    <3>2. local[t] \in Locals /\ guard.gen \in Nat /\ terminal \in Accounts \cup {None}
          /\ Fingerprint(guard) \in Accounts \cup {None}
      BY GuardType DEF TypeOK
    <3> HIDE DEF a
    <3>4. l \in Locals
      BY <3>1, <3>2, ReadType
    <3>3. local' = [local EXCEPT ![t] = l]
      BY <1>8 DEF Read, a
    <3> QED BY <3>4, <3>3 DEF TypeOK
  <2>2. pc' \in [Threads -> Labels]
    BY <1>8, GotoType DEF Read, Labels, Inside
  <2> QED BY <1>8, <2>1, <2>2 DEF Read, TypeOK
<1>9. ASSUME NEW t \in Threads, CallbackRaises(t) PROVE TypeOK'
  <2>1. guard' \in Guards /\ faults' \in Nat /\ known' \in BOOLEAN
    BY <1>9, GuardType, FailType
       DEF CallbackRaises, CatalogRead, CatalogFails, TypeOK
  <2>2. resolver' \in Accounts \cup {None, Broken}
    BY <1>9 DEF CallbackRaises, CatalogRead, TypeOK
  <2>3. lock' \in Threads \cup {None}
        /\ pc' \in [Threads -> Labels] /\ local' \in [Threads -> Locals]
    BY <1>9, RefusedType DEF CallbackRaises
  <2> QED BY <1>9, <2>1, <2>2, <2>3 DEF CallbackRaises, TypeOK
<1>10. ASSUME NEW t \in Threads, Leave(t) PROVE TypeOK'
  <2>1. guard' \in Guards /\ resolver' \in Accounts \cup {None, Broken}
        /\ moves' \in Nat /\ faults' \in Nat
    BY <1>10, ObserveType DEF Leave
  <2>2. snapshot' \in Snapshots
    BY <1>10, <2>1, PublishType DEF Leave
  <2>3. lock' \in Threads \cup {None}
        /\ pc' \in [Threads -> Labels] /\ local' \in [Threads -> Locals]
    <3>1. [local[t] EXCEPT !.op = "read"] \in Locals
      BY LocalType DEF TypeOK
    <3>2. CASE Refused(t)
      BY <3>2, RefusedType
    <3>3. CASE ~Refused(t)
      <4>1. pc' \in [Threads -> Labels]
        BY <1>10, <3>3, GotoType DEF Leave, Labels, Inside
      <4> QED BY <1>10, <3>1, <3>3, <4>1 DEF Leave, TypeOK
    <3> QED BY <3>2, <3>3
  <2> QED BY <1>10, <2>1, <2>2, <2>3 DEF Leave, TypeOK
<1>11. ASSUME NEW t \in Threads, InitResolver(t) PROVE TypeOK'
  <2>1. known' \in BOOLEAN /\ faults' \in Nat
        /\ resolver' \in Accounts \cup {None, Broken}
    BY <1>11, FailType DEF InitResolver, CatalogRead, CatalogFails, TypeOK
  <2>2. pc' \in [Threads -> Labels] /\ local' \in [Threads -> Locals]
    <3>1. [local[t] EXCEPT !.fresh = TRUE] \in Locals
      BY LocalType DEF TypeOK
    <3>2. local' \in [Threads -> Locals]
      BY <1>11, <3>1, ForgottenType DEF InitResolver, TypeOK
    <3>3. pc' \in [Threads -> Labels]
      BY <1>11, GotoType DEF InitResolver, TypeOK, Labels
    <3> QED BY <3>2, <3>3
  <2> QED BY <1>11, <2>1, <2>2 DEF InitResolver, TypeOK
<1>12. ASSUME NEW t \in Threads, IsResolved(t) PROVE TypeOK'
  BY <1>12, GotoType DEF IsResolved, TypeOK, Labels
<1>13. ASSUME NEW t \in Threads, ResetClient(t) PROVE TypeOK'
  BY <1>13, GuardType, GotoType DEF ResetClient, TypeOK, Labels
<1>14. ASSUME ReadStatus PROVE TypeOK'
  <2>1. snapshot' \in Snapshots
    BY <1>14, PublishType DEF ReadStatus, TypeOK
  <2> QED BY <1>14, <2>1 DEF ReadStatus, TypeOK
<1>15. ASSUME NEW id \in Accounts \cup {None}, LogIn(id) PROVE TypeOK'
  BY <1>15 DEF LogIn, TypeOK
<1>16. CASE LoseConnection
  <2>1. faults' \in Nat /\ lost' \in BOOLEAN
    BY <1>16, FailType DEF LoseConnection
  <2> QED BY <1>16, <2>1 DEF LoseConnection, TypeOK
<1>17. CASE UNCHANGED vars
  BY <1>17 DEF vars, TypeOK
<1> QED
  BY <1>1, <1>2, <1>3, <1>4, <1>5, <1>6, <1>7, <1>8, <1>9, <1>10, <1>11,
     <1>12, <1>13, <1>14, <1>15, <1>16, <1>17 DEF Next, Step

LEMMA TypeInit == Init => TypeOK
<1> SUFFICES ASSUME Init PROVE TypeOK
  OBVIOUS
<1>1. guard \in Guards /\ snapshot \in Snapshots
  BY DEF Init, Guards, States, Snapshots
<1>2. pc \in [Threads -> Labels] /\ local \in [Threads -> Locals]
  BY DEF Init, Labels, Locals
<1> QED BY <1>1, <1>2 DEF Init, TypeOK

(* Every variable of a process's use of the terminal keeps its type        *)
(* (MT5Client, AccountSessionGuard and the threads that use them).         *)
THEOREM SessionTypeCorrect == Spec => []TypeOK
BY TypeInit, TypeStep, PTL DEF Spec

-----------------------------------------------------------------------------
(* What the guard and the threads know of the terminal *)

(* The terminal changes at most once between two observations. *)
OneMove == MaxMoves <= 1

GuardInv ==
  /\ guard.key # Unset => guard.key = guard.seen /\ guard.gen > 0
  /\ guard.seen # None => guard.gen > 0
  /\ guard.state = "ready" => guard.active = guard.seen /\ guard.seen # None
  /\ guard.state = "switch" => guard.seen # None

Near ==
  OneMove /\ guard.gen > 0 =>
    (moves = 0 <=> terminal = guard.seen)

ResolverInv ==
  OneMove /\ resolver \in Accounts =>
    /\ guard.active = guard.seen /\ guard.seen # None
    /\ moves = 0 => resolver = guard.seen

SnapshotInv ==
  /\ snapshot.gen <= guard.gen
  /\ snapshot.ready /\ snapshot.gen = guard.gen /\ guard.seen # None
       => guard.seen = snapshot.acct

(* The session a thread remembers is not ahead of the guard, and the same  *)
(* generation is the same account.                                         *)
NamesOK(t) ==
  /\ local[t].gen <= guard.gen
  /\ local[t].acct # None /\ local[t].gen = guard.gen /\ guard.seen # None
       => guard.seen = local[t].acct

OpOK(t) ==
  /\ Role[t] = "request" /\ pc[t] # "idle" => local[t].op # "ensure"
  /\ Role[t] # "request" => local[t].op # "resolve"
  /\ pc[t] \in {"callback", "leave"} => local[t].op # "ensure"

(* The lock is held between the calls of one operation, and keeps the      *)
(* guard in the state that operation found.                                *)
LockOK(t) ==
  /\ pc[t] \in Inside <=> lock = t
  /\ pc[t] \in {"refresh", "callback", "leave"} => guard.state = "ready"
  /\ pc[t] \in {"reconcile", "late reconcile"} => guard.state = "switch"

(* What a callback has used is of the session's account, if the terminal   *)
(* has not moved; once accepted it is.                                     *)
TrueOK(t) ==
  /\ pc[t] = "leave" =>
       /\ local[t].gen = guard.gen /\ local[t].acct = guard.seen
       /\ OneMove /\ moves = 0 =>
            /\ local[t].alias = guard.seen
            /\ local[t].op = "read" => local[t].at = guard.seen
  /\ OneMove /\ Role[t] = "request" /\ local[t].op = "read" =>
       local[t].alias = local[t].acct
  /\ OneMove /\ pc[t] = "accepted" =>
       local[t].at = local[t].acct /\ local[t].alias = local[t].acct

ThreadInv(t) == NamesOK(t) /\ OpOK(t) /\ LockOK(t) /\ TrueOK(t)

SharedInv == GuardInv /\ Near /\ ResolverInv /\ SnapshotInv

IInv == TypeOK /\ SharedInv /\ \A t \in Threads : ThreadInv(t)

-----------------------------------------------------------------------------
(* The guard *)

(* No step takes a generation back or gives it to another account. *)
GuardStep ==
  /\ guard.gen <= guard'.gen
  /\ guard'.gen = guard.gen => guard'.seen = guard.seen

LEMMA DisconnectedFields ==
  ASSUME NEW g \in Guards
  PROVE  /\ Disconnected(g).gen = g.gen /\ Disconnected(g).seen = g.seen
         /\ Disconnected(g).active = g.active /\ Disconnected(g).key = Unset
         /\ Disconnected(g).state = "disconnected"
BY DEF Disconnected, Guards

LEMMA AcknowledgedFields ==
  ASSUME NEW g \in Guards
  PROVE  /\ Acknowledged(g).gen = g.gen /\ Acknowledged(g).seen = g.seen
         /\ Acknowledged(g).active = g.seen /\ Acknowledged(g).key = g.key
         /\ Acknowledged(g).state = "ready"
BY DEF Acknowledged, Guards

LEMMA RecordedFields ==
  ASSUME NEW g \in Guards, NEW id \in Accounts \cup {None}
  PROVE  /\ Recorded(g, id).key = id /\ Recorded(g, id).active = g.active
         /\ Recorded(g, id).gen = IF id = g.key THEN g.gen ELSE g.gen + 1
BY DEF Recorded, Guards

LEMMA JudgedFields ==
  ASSUME NEW g \in Guards, NEW id \in Accounts \cup {None}
  PROVE  /\ Judged(g, id).key = g.key /\ Judged(g, id).gen = g.gen
         /\ Judged(g, id).seen = id
         /\ Judged(g, id).state \in {"ready", "switch", "unknown"}
         /\ Judged(g, id).state = "ready" =>
              /\ id # None /\ g.active \in {None, id}
              /\ Judged(g, id).active = id
         /\ Judged(g, id).state = "switch" => id # None
BY DEF Judged, Guards

(* What an observation finds. *)
LEMMA ObserveFacts ==
  ASSUME TypeOK, GuardInv, Observe
  PROVE  /\ GuardStep
         /\ guard'.seen = terminal /\ guard'.key = terminal
         /\ guard'.gen > 0
         /\ guard'.gen = guard.gen => guard.seen = terminal
         /\ guard'.state \in {"ready", "switch", "unknown"}
         /\ guard'.state = "ready" =>
              /\ terminal # None /\ guard.active \in {None, terminal}
              /\ guard'.active = terminal
         /\ guard'.state = "switch" => terminal # None
<1> DEFINE r == Recorded(guard, terminal)
<1>1. r \in Guards /\ guard \in Guards /\ terminal \in Accounts \cup {None}
      /\ guard.gen \in Nat
  BY JudgedType, GuardType DEF TypeOK
<1>2. /\ r.key = terminal /\ r.active = guard.active
      /\ r.gen = IF terminal = guard.key THEN guard.gen ELSE guard.gen + 1
  BY <1>1, RecordedFields
<1>3. guard' = Judged(r, terminal)
  BY DEF Observe
<1> HIDE DEF r
<1>4. /\ guard'.key = terminal /\ guard'.gen = r.gen /\ guard'.seen = terminal
      /\ guard'.state \in {"ready", "switch", "unknown"}
      /\ guard'.state = "ready" =>
           /\ terminal # None /\ guard.active \in {None, terminal}
           /\ guard'.active = terminal
      /\ guard'.state = "switch" => terminal # None
  BY <1>1, <1>2, <1>3, JudgedFields
<1>5. terminal # Unset
  BY <1>1
<1>6. guard'.gen = guard.gen => terminal = guard.key
  BY <1>1, <1>2, <1>4
<1>7. terminal = guard.key => guard.seen = terminal /\ guard.gen > 0
  BY <1>5 DEF GuardInv
<1>8. guard.gen <= guard'.gen /\ guard'.gen > 0
  BY <1>1, <1>2, <1>4, <1>7
<1> QED BY <1>4, <1>6, <1>7, <1>8 DEF GuardStep

(* An observation keeps the shared invariant: it finds the terminal where  *)
(* the guard saw it last, or on an account that is not the active one.     *)
LEMMA ObserveShared ==
  ASSUME TypeOK, SharedInv, Observe, terminal' = terminal
  PROVE  GuardInv' /\ Near' /\ ResolverInv'
<1>1. GuardInv'
  BY ObserveFacts DEF SharedInv, GuardInv
<1>2. Near'
  BY ObserveFacts DEF SharedInv, Near, Observe
<1>3. ResolverInv'
  <2>1. SUFFICES ASSUME OneMove, resolver' \in Accounts
        PROVE  /\ guard'.active = guard'.seen /\ guard'.seen # None
               /\ resolver' = guard'.seen
    BY DEF ResolverInv, OneMove
  <2>2. guard'.state = "ready" /\ resolver' = resolver
    BY <2>1, ObserveFacts DEF Observe, SharedInv
  <2>3. guard.active = guard.seen /\ guard.seen # None
        /\ (moves = 0 => resolver = guard.seen)
    BY <2>1, <2>2 DEF SharedInv, ResolverInv
  <2>4. terminal # None /\ guard.active \in {None, terminal}
        /\ guard'.active = terminal /\ guard'.seen = terminal
    BY <2>2, ObserveFacts DEF SharedInv
  <2>5. guard.seen = terminal
    BY <2>3, <2>4
  <2>6. guard.gen > 0
    BY <2>3 DEF SharedInv, GuardInv
  <2>7. moves = 0
    BY <2>1, <2>5, <2>6 DEF SharedInv, Near
  <2> QED BY <2>2, <2>3, <2>4, <2>5, <2>7
<1> QED BY <1>1, <1>2, <1>3

(* A disconnected guard still knows what it saw. *)
LEMMA DisconnectShared ==
  ASSUME TypeOK, SharedInv, guard' = Disconnected(guard),
         terminal' = terminal, moves' = moves,
         resolver' \in {resolver, Broken}
  PROVE  GuardInv' /\ Near' /\ ResolverInv' /\ GuardStep
<1>1. guard \in Guards /\ guard.gen \in Nat
  BY GuardType DEF TypeOK
<1>2. /\ guard'.gen = guard.gen /\ guard'.seen = guard.seen
      /\ guard'.active = guard.active /\ guard'.key = Unset
      /\ guard'.state = "disconnected"
  BY <1>1, DisconnectedFields
<1> QED
  BY <1>1, <1>2
     DEF SharedInv, GuardInv, Near, ResolverInv, OneMove, GuardStep

(* A resolver built under a guard whose active account is the one it saw   *)
(* is of that account, unless the terminal has moved.                      *)
LEMMA BuildShared ==
  ASSUME TypeOK, SharedInv, guard.seen # None,
         resolver' = terminal, terminal' = terminal, moves' = moves,
         guard'.seen = guard.seen, guard'.active = guard.seen,
         guard'.gen = guard.gen
  PROVE  ResolverInv'
BY DEF SharedInv, GuardInv, Near, ResolverInv, OneMove

LEMMA SameGuard ==
  ASSUME TypeOK, guard' = guard
  PROVE  GuardStep
<1>1. guard.gen \in Nat
  BY GuardType DEF TypeOK
<1> QED BY <1>1 DEF GuardStep

-----------------------------------------------------------------------------
(* The snapshot *)

LEMMA PublishInv ==
  ASSUME guard' \in Guards, Publish(guard')
  PROVE  SnapshotInv'
<1>1. guard'.gen \in Nat
  BY GuardType
<1>2. snapshot'.gen = guard'.gen /\ snapshot'.acct = Fingerprint(guard')
  BY DEF Publish
<1> QED BY <1>1, <1>2 DEF SnapshotInv, Fingerprint

LEMMA SnapshotKept ==
  ASSUME TypeOK, TypeOK', SnapshotInv, GuardStep, snapshot' = snapshot
  PROVE  SnapshotInv'
<1>1. guard.gen \in Nat /\ guard'.gen \in Nat /\ snapshot.gen \in Nat
  BY GuardType DEF TypeOK, Snapshots
<1> QED BY <1>1 DEF SnapshotInv, GuardStep

-----------------------------------------------------------------------------
(* The threads *)

LEMMA ThreadTypes ==
  ASSUME TypeOK, NEW u \in Threads
  PROVE  local[u].gen \in Nat /\ guard.gen \in Nat /\ pc[u] \in Labels
         /\ local[u].op \in {"ensure", "resolve", "read"}
         /\ Role[u] \in Roles /\ u # None
BY GuardType DEF TypeOK, Locals

(* A session once remembered keeps naming its account. *)
LEMMA NamesKept ==
  ASSUME TypeOK, TypeOK', GuardStep, NEW u \in Threads, NamesOK(u),
         local'[u].gen = local[u].gen, local'[u].acct = local[u].acct
  PROVE  NamesOK(u)'
<1>1. local[u].gen \in Nat /\ guard.gen \in Nat /\ guard'.gen \in Nat
  BY ThreadTypes, GuardType DEF TypeOK
<1> QED BY <1>1 DEF NamesOK, GuardStep

(* A thread outside the lock keeps its part while others move the guard. *)
LEMMA Outside ==
  ASSUME TypeOK, TypeOK', GuardStep, NEW u \in Threads, ThreadInv(u),
         pc'[u] = pc[u], local'[u] = local[u], pc[u] \notin Inside, lock' # u
  PROVE  ThreadInv(u)'
<1>1. NamesOK(u)'
  BY NamesKept DEF ThreadInv
<1>2. OpOK(u)' /\ LockOK(u)' /\ TrueOK(u)'
  BY DEF ThreadInv, OpOK, LockOK, TrueOK, Inside, OneMove
<1> QED BY <1>1, <1>2 DEF ThreadInv

(* Every thread keeps its part while the guard stands still. *)
LEMMA Still ==
  ASSUME NEW u \in Threads, ThreadInv(u), guard' = guard,
         pc'[u] = pc[u], local'[u] = local[u], lock' = u <=> lock = u,
         moves' = 0 => moves = 0
  PROVE  ThreadInv(u)'
BY DEF ThreadInv, NamesOK, OpOK, LockOK, TrueOK, OneMove

(* Only the holder of the lock is inside. *)
LEMMA Alone ==
  ASSUME TypeOK, \A u \in Threads : ThreadInv(u),
         NEW t \in Threads, lock \in {None, t},
         NEW u \in Threads, u # t
  PROVE  pc[u] \notin Inside
BY ThreadTypes DEF ThreadInv, LockOK

LEMMA ForgottenFields ==
  ASSUME TypeOK, NEW t \in Threads, NEW u \in Threads
  PROVE  /\ Forgotten(t)[u].op = local[u].op
         /\ Forgotten(t)[u].gen = local[u].gen
         /\ Forgotten(t)[u].acct = local[u].acct
         /\ Forgotten(t)[u].alias = local[u].alias
         /\ Forgotten(t)[u].at = local[u].at
         /\ u # t => Forgotten(t)[u] = local[u]
BY DEF TypeOK, Locals, Forgotten

(* A thread keeps what it remembers of the account. *)
Remembers(u) ==
  /\ local'[u].op = local[u].op /\ local'[u].gen = local[u].gen
  /\ local'[u].acct = local[u].acct /\ local'[u].alias = local[u].alias
  /\ local'[u].at = local[u].at

(* A thread walks on with its memory unchanged. *)
LEMMA Walk ==
  ASSUME TypeOK, TypeOK', GuardStep, \A u \in Threads : ThreadInv(u),
         NEW t \in Threads, lock \in {None, t},
         NEW l \in Labels \ {"leave", "accepted"}, Goto(t, l),
         l \in Inside <=> lock' = t, lock' \in {None, t},
         l \in {"refresh", "callback"} => guard'.state = "ready",
         l \in {"reconcile", "late reconcile"} => guard'.state = "switch",
         l = "callback" => local[t].op # "ensure",
         pc[t] # "idle", Remembers(t),
         \A u \in Threads : u # t => local'[u] = local[u]
  PROVE  \A u \in Threads : ThreadInv(u)'
<1> SUFFICES ASSUME NEW u \in Threads PROVE ThreadInv(u)'
  OBVIOUS
<1>1. CASE u # t
  <2>1. pc'[u] = pc[u] /\ pc[u] \notin Inside /\ local'[u] = local[u]
    BY <1>1, Alone DEF Goto, TypeOK
  <2> QED BY <1>1, <2>1, Outside, ThreadTypes
<1>2. CASE u = t
  <2>1. pc'[t] = l
    BY DEF Goto, TypeOK
  <2>2. NamesOK(t)'
    BY NamesKept DEF ThreadInv, Remembers
  <2>3. OpOK(t)'
    BY <2>1 DEF ThreadInv, OpOK, Inside, Remembers
  <2>4. LockOK(t)'
    BY <2>1 DEF LockOK, Inside
  <2>5. TrueOK(t)'
    BY <2>1 DEF ThreadInv, TrueOK, OneMove, Remembers
  <2> QED BY <1>2, <2>2, <2>3, <2>4, <2>5 DEF ThreadInv
<1> QED BY <1>1, <1>2

LEMMA RefusedThreads ==
  ASSUME TypeOK, TypeOK', GuardStep, \A u \in Threads : ThreadInv(u),
         NEW t \in Threads, lock \in {None, t}, pc[t] # "idle",
         Refused(t) \/ Unwinds(t)
  PROVE  \A u \in Threads : ThreadInv(u)'
<1>1. PICK l \in {"idle", "reset"} :
        Goto(t, l) /\ lock' = None /\ local' = Forgotten(t)
  BY DEF Refused, Unwinds
<1>2. Remembers(t) /\ \A u \in Threads : u # t => local'[u] = local[u]
  BY <1>1, ForgottenFields DEF Remembers
<1>3. l \in Labels \ {"leave", "accepted"} /\ l \notin Inside
  BY DEF Labels, Inside
<1>4. lock' # t
  BY <1>1, ThreadTypes
<1> QED BY <1>1, <1>2, <1>3, <1>4, Walk DEF Inside

LEMMA AdmittedThreads ==
  ASSUME TypeOK, TypeOK', GuardStep, \A u \in Threads : ThreadInv(u),
         SnapshotInv, NEW t \in Threads, lock \in {None, t}, Admitted(t),
         guard'.state = "ready", pc[t] \in {"enter", "refresh"}
  PROVE  SnapshotInv' /\ \A u \in Threads : ThreadInv(u)'
<1>1. CASE local[t].op # "ensure"
  <2>1. Goto(t, "callback") /\ lock' = t /\ local' = local
        /\ snapshot' = snapshot
    BY <1>1 DEF Admitted
  <2>2. SnapshotInv'
    BY <2>1, SnapshotKept
  <2>3. \A u \in Threads : ThreadInv(u)'
    BY <1>1, <2>1, Walk DEF Labels, Inside, Remembers
  <2> QED BY <2>2, <2>3
<1>2. CASE local[t].op = "ensure"
  <2>1. /\ Publish(guard') /\ lock' = None /\ Goto(t, AfterEnsure(t))
        /\ local' = [local EXCEPT ![t].op = "read"]
    BY <1>2 DEF Admitted
  <2>2. SnapshotInv'
    BY <2>1, PublishInv DEF TypeOK
  <2>3. ASSUME NEW u \in Threads PROVE ThreadInv(u)'
    <3>1. CASE u # t
      <4>1. pc'[u] = pc[u] /\ pc[u] \notin Inside /\ local'[u] = local[u]
        BY <2>1, <3>1, Alone DEF Goto, TypeOK
      <4> QED BY <2>1, <3>1, <4>1, Outside, ThreadTypes
    <3>2. CASE u = t
      <4>1. pc'[t] \in {"enter", "init", "check", "idle"}
        BY <2>1 DEF Goto, TypeOK, AfterEnsure
      <4>2. /\ local'[t].op = "read" /\ local'[t].gen = local[t].gen
            /\ local'[t].acct = local[t].acct
        BY <2>1 DEF TypeOK, Locals
      <4>3. Role[t] # "request"
        BY <1>2 DEF ThreadInv, OpOK
      <4>4. NamesOK(t)'
        BY <4>2, NamesKept DEF ThreadInv
      <4>5. OpOK(t)' /\ LockOK(t)' /\ TrueOK(t)'
        BY <2>1, <4>1, <4>2, <4>3, ThreadTypes
           DEF ThreadInv, OpOK, LockOK, TrueOK, Inside
      <4> QED BY <3>2, <4>4, <4>5 DEF ThreadInv
    <3> QED BY <3>1, <3>2
  <2> QED BY <2>2, <2>3
<1> QED BY <1>1, <1>2

-----------------------------------------------------------------------------
(* The steps *)

LEMMA StartStep ==
  ASSUME IInv, TypeOK', NEW t \in Threads, Start(t)
  PROVE  IInv'
<1> USE DEF IInv
<1>1. guard' = guard /\ resolver' = resolver /\ terminal' = terminal
      /\ moves' = moves /\ lock' = lock
  BY DEF Start, outside, client
<1>2. GuardInv' /\ Near' /\ ResolverInv'
  BY <1>1 DEF SharedInv, GuardInv, Near, ResolverInv, OneMove
<1>3. SnapshotInv'
  <2>1. snapshot'.gen = snapshot.gen /\ snapshot'.acct = snapshot.acct
        /\ (snapshot'.ready => snapshot.ready)
    BY DEF Start, TypeOK, Snapshots
  <2> QED BY <1>1, <2>1 DEF SharedInv, SnapshotInv
<1>4. ASSUME NEW u \in Threads PROVE ThreadInv(u)'
  <2>1. CASE u # t
    <3>1. pc'[u] = pc[u] /\ local'[u] = local[u]
      BY <2>1 DEF Start, Goto, TypeOK
    <3> QED BY <1>1, <3>1, Still
  <2>2. CASE u = t
    <3>1. pc'[t] = "enter" /\ pc[t] \in {"idle", "accepted"}
      BY DEF Start, Goto, TypeOK
    <3>2. /\ local'[t].op = IF Role[t] = "request" THEN "resolve" ELSE "ensure"
          /\ local'[t].gen = local[t].gen /\ local'[t].acct = local[t].acct
      BY DEF Start, TypeOK, Locals
    <3> QED
      BY <1>1, <2>2, <3>1, <3>2
         DEF ThreadInv, NamesOK, OpOK, LockOK, TrueOK, Inside
  <2> QED BY <2>1, <2>2
<1> QED BY <1>2, <1>3, <1>4 DEF SharedInv

LEMMA EnterStep ==
  ASSUME IInv, TypeOK', NEW t \in Threads, Enter(t)
  PROVE  IInv'
<1> USE DEF IInv
<1>1. Observe /\ terminal' = terminal /\ lock = None /\ pc[t] = "enter"
  BY DEF Enter, outside
<1>2. GuardInv' /\ Near' /\ ResolverInv' /\ GuardStep
  BY <1>1, ObserveShared, ObserveFacts DEF SharedInv
<1>3. SnapshotInv' /\ \A u \in Threads : ThreadInv(u)'
  <2>1. CASE guard'.state = "ready" /\ Admitted(t)
    BY <1>1, <1>2, <2>1, AdmittedThreads DEF SharedInv
  <2>2. CASE guard'.state = "ready" /\ ~Admitted(t)
    <3>1. Goto(t, "refresh") /\ lock' = t /\ local' = local
          /\ snapshot' = snapshot
      BY <2>2 DEF Enter
    <3> QED
      BY <1>1, <1>2, <2>2, <3>1, Walk, SnapshotKept
         DEF SharedInv, Labels, Inside, Remembers
  <2>3. CASE guard'.state = "switch"
    <3>1. Goto(t, "reconcile") /\ lock' = t /\ local' = local
          /\ snapshot' = snapshot
      BY <2>3 DEF Enter
    <3> QED
      BY <1>1, <1>2, <2>3, <3>1, Walk, SnapshotKept
         DEF SharedInv, Labels, Inside, Remembers
  <2>4. CASE guard'.state = "unknown"
    <3>1. Publish(guard') /\ Refused(t)
      BY <2>4 DEF Enter
    <3> QED
      BY <1>1, <1>2, <3>1, RefusedThreads, PublishInv DEF TypeOK
  <2> QED BY <2>1, <2>2, <2>3, <2>4 DEF Enter
<1> QED BY <1>2, <1>3 DEF SharedInv

(* An operation that is refused, with the guard disconnected or unchanged. *)
LEMMA FailStep ==
  ASSUME IInv, TypeOK', NEW t \in Threads, lock \in {None, t},
         pc[t] # "idle", Refused(t) \/ Unwinds(t),
         guard' \in {guard, Disconnected(guard)},
         terminal' = terminal, moves' = moves,
         resolver' \in {resolver, Broken},
         Publish(guard') \/ snapshot' = snapshot
  PROVE  IInv'
<1> USE DEF IInv
<1>1. GuardInv' /\ Near' /\ ResolverInv' /\ GuardStep
  <2>1. CASE guard' = Disconnected(guard)
    BY <2>1, DisconnectShared
  <2>2. CASE guard' = guard
    BY <2>2, SameGuard DEF SharedInv, GuardInv, Near, ResolverInv, OneMove
  <2> QED BY <2>1, <2>2
<1>2. \A u \in Threads : ThreadInv(u)'
  BY <1>1, RefusedThreads
<1>3. SnapshotInv'
  BY <1>1, PublishInv, SnapshotKept DEF SharedInv, TypeOK
<1> QED BY <1>1, <1>2, <1>3 DEF SharedInv

LEMMA EnterFailsStep ==
  ASSUME IInv, TypeOK', NEW t \in Threads, EnterFails(t)
  PROVE  IInv'
BY FailStep DEF EnterFails, ObserveFails, outside

(* A thread inside holds the lock. *)
LEMMA Holder ==
  ASSUME IInv, NEW t \in Threads, pc[t] \in Inside
  PROVE  lock = t
BY DEF IInv, ThreadInv, LockOK

LEMMA LeaveFailsStep ==
  ASSUME IInv, TypeOK', NEW t \in Threads, LeaveFails(t)
  PROVE  IInv'
<1>1. lock = t
  BY Holder DEF LeaveFails, Inside
<1> QED BY <1>1, FailStep DEF LeaveFails, ObserveFails, outside

LEMMA RefreshFailsStep ==
  ASSUME IInv, TypeOK', NEW t \in Threads, RefreshFails(t)
  PROVE  IInv'
<1>1. lock = t
  BY Holder DEF RefreshFails, Inside
<1>2. guard' \in {guard, Disconnected(guard)}
  BY DEF RefreshFails
<1>3. Publish(guard') \/ snapshot' = snapshot
  BY DEF RefreshFails
<1> QED BY <1>1, <1>2, <1>3, FailStep DEF RefreshFails, outside

LEMMA RefreshStep ==
  ASSUME IInv, TypeOK', NEW t \in Threads, Refresh(t)
  PROVE  IInv'
<1> USE DEF IInv
<1>1. lock = t /\ guard.state = "ready" /\ pc[t] = "refresh"
  BY Holder DEF Refresh, Inside, ThreadInv, LockOK
<1>2. guard' = guard /\ terminal' = terminal /\ moves' = moves
      /\ resolver' = terminal /\ Admitted(t)
  BY DEF Refresh, outside
<1>3. GuardInv' /\ Near' /\ GuardStep
  BY <1>2, SameGuard DEF SharedInv, GuardInv, Near
<1>4. ResolverInv'
  BY <1>1, <1>2, BuildShared DEF SharedInv, GuardInv
<1>5. SnapshotInv' /\ \A u \in Threads : ThreadInv(u)'
  BY <1>1, <1>2, <1>3, AdmittedThreads DEF SharedInv
<1> QED BY <1>3, <1>4, <1>5 DEF SharedInv

LEMMA ReconcileStep ==
  ASSUME IInv, TypeOK', NEW t \in Threads, Reconcile(t)
  PROVE  IInv'
<1> USE DEF IInv
<1>1. lock = t /\ guard.state = "switch" /\ guard.seen # None
      /\ pc[t] # "idle"
  BY Holder DEF Reconcile, Inside, ThreadInv, LockOK, SharedInv, GuardInv
<1>2. terminal' = terminal /\ moves' = moves /\ Refused(t)
      /\ (Publish(guard') \/ snapshot' = snapshot)
  BY DEF Reconcile, outside
<1>3. CASE guard' = guard /\ resolver' = resolver
  BY <1>1, <1>2, <1>3, FailStep
<1>4. CASE guard' = Acknowledged(guard) /\ resolver' \in {terminal, resolver}
  <2>1. /\ guard'.gen = guard.gen /\ guard'.seen = guard.seen
        /\ guard'.active = guard.seen /\ guard'.key = guard.key
        /\ guard'.state = "ready" /\ guard.gen \in Nat
    BY <1>4, AcknowledgedFields, GuardType DEF TypeOK
  <2>2. GuardInv' /\ Near' /\ GuardStep
    BY <1>1, <1>2, <2>1 DEF SharedInv, GuardInv, Near, GuardStep, OneMove
  <2>3. ResolverInv'
    <3>1. CASE resolver' = terminal
      BY <1>1, <1>2, <2>1, <3>1, BuildShared
    <3>2. CASE resolver' = resolver
      BY <1>1, <1>2, <2>1, <3>2 DEF SharedInv, ResolverInv, OneMove
    <3> QED BY <1>4, <3>1, <3>2
  <2>4. SnapshotInv'
    BY <1>2, <2>2, PublishInv, SnapshotKept DEF SharedInv, TypeOK
  <2>5. \A u \in Threads : ThreadInv(u)'
    BY <1>1, <1>2, <2>2, RefusedThreads
  <2> QED BY <2>2, <2>3, <2>4, <2>5 DEF SharedInv
<1> QED BY <1>3, <1>4 DEF Reconcile

LEMMA CallbackRaisesStep ==
  ASSUME IInv, TypeOK', NEW t \in Threads, CallbackRaises(t)
  PROVE  IInv'
<1> USE DEF IInv
<1>1. lock = t /\ guard.state = "ready" /\ guard.seen # None
      /\ guard.active = guard.seen /\ pc[t] # "idle"
  BY Holder DEF CallbackRaises, Inside, ThreadInv, LockOK, SharedInv, GuardInv
<1>2. terminal' = terminal /\ moves' = moves /\ Refused(t)
      /\ snapshot' = snapshot /\ guard' = Disconnected(guard)
  BY DEF CallbackRaises, outside
<1>3. CASE resolver' \in {resolver, Broken}
  BY <1>1, <1>2, <1>3, FailStep
<1>4. CASE resolver' = terminal
  <2>1. /\ guard'.gen = guard.gen /\ guard'.seen = guard.seen
        /\ guard'.active = guard.seen
    BY <1>1, <1>2, DisconnectedFields DEF TypeOK
  <2>2. ResolverInv'
    BY <1>1, <1>2, <1>4, <2>1, BuildShared
  <2>3. GuardInv' /\ Near' /\ GuardStep
    <3>1. guard.gen \in Nat /\ guard'.key = Unset
          /\ guard'.state = "disconnected"
      BY <1>2, GuardType, DisconnectedFields DEF TypeOK
    <3> QED BY <1>2, <2>1, <3>1 DEF SharedInv, GuardInv, Near, GuardStep
  <2>4. SnapshotInv' /\ \A u \in Threads : ThreadInv(u)'
    BY <1>1, <1>2, <2>3, SnapshotKept, RefusedThreads DEF SharedInv
  <2> QED BY <2>2, <2>3, <2>4 DEF SharedInv
<1> QED BY <1>3, <1>4 DEF CallbackRaises, CatalogRead

LEMMA ResolveSymbolStep ==
  ASSUME IInv, TypeOK', NEW t \in Threads, ResolveSymbol(t)
  PROVE  IInv'
<1> USE DEF IInv
<1>1. lock = t /\ guard.state = "ready" /\ guard.seen # None
      /\ guard.active = guard.seen /\ local[t].op = "resolve"
  BY Holder
     DEF ResolveSymbol, Inside, ThreadInv, LockOK, SharedInv, GuardInv
<1>2. terminal' = terminal /\ moves' = moves /\ guard' = guard
      /\ snapshot' = snapshot /\ lock' = lock /\ resolver' \in Accounts
      /\ Goto(t, "leave")
  BY DEF ResolveSymbol, outside, Resolves
<1>3. GuardInv' /\ Near' /\ SnapshotInv'
  BY <1>2 DEF SharedInv, GuardInv, Near, SnapshotInv, OneMove
<1>4. ResolverInv'
  <2>1. CASE resolver = None
    <3>1. resolver' = terminal
      BY <2>1 DEF ResolveSymbol
    <3> QED BY <1>1, <1>2, <3>1, BuildShared
  <2>2. CASE resolver # None
    <3>1. resolver' = resolver
      BY <2>2 DEF ResolveSymbol
    <3> QED BY <1>2, <3>1 DEF SharedInv, ResolverInv, OneMove
  <2> QED BY <2>1, <2>2
<1>5. ASSUME NEW u \in Threads PROVE ThreadInv(u)'
  <2>1. CASE u # t
    <3>1. pc'[u] = pc[u] /\ local'[u] = local[u]
      BY <2>1 DEF ResolveSymbol, Goto, TypeOK
    <3> QED BY <1>2, <3>1, Still
  <2>2. CASE u = t
    <3>1. pc'[t] = "leave"
      BY <1>2 DEF Goto, TypeOK
    <3>2. /\ local'[t].op = "resolve" /\ local'[t].gen = guard.gen
          /\ local'[t].acct = guard.seen /\ local'[t].alias = resolver'
      BY <1>1 DEF ResolveSymbol, TypeOK, Locals, Fingerprint
    <3>3. guard.gen \in Nat
      BY ThreadTypes
    <3>4. NamesOK(t)'
      BY <1>2, <3>2, <3>3 DEF NamesOK
    <3>5. OpOK(t)' /\ LockOK(t)' /\ TrueOK(t)'
      BY <1>1, <1>2, <1>4, <3>1, <3>2
         DEF ThreadInv, OpOK, LockOK, TrueOK, Inside, ResolverInv, OneMove
    <3> QED BY <2>2, <3>4, <3>5 DEF ThreadInv
  <2> QED BY <2>1, <2>2
<1> QED BY <1>3, <1>4, <1>5 DEF SharedInv

LEMMA ReadStep ==
  ASSUME IInv, TypeOK', NEW t \in Threads, Read(t)
  PROVE  IInv'
<1> USE DEF IInv
<1>1. lock = t /\ guard.state = "ready" /\ guard.seen # None
      /\ guard.active = guard.seen /\ guard.gen > 0 /\ local[t].op = "read"
  BY Holder DEF Read, Inside, ThreadInv, LockOK, SharedInv, GuardInv
<1>2. terminal' = terminal /\ moves' = moves /\ guard' = guard
      /\ resolver' = resolver /\ snapshot' = snapshot /\ lock' = lock
      /\ Goto(t, "leave") /\ CanRead(t)
  BY DEF Read, outside, client
<1>3. SharedInv'
  BY <1>2 DEF SharedInv, GuardInv, Near, ResolverInv, SnapshotInv, OneMove
<1>4. ASSUME NEW u \in Threads PROVE ThreadInv(u)'
  <2>1. CASE u # t
    <3>1. pc'[u] = pc[u] /\ local'[u] = local[u]
      BY <2>1 DEF Read, Goto, TypeOK
    <3> QED BY <1>2, <3>1, Still
  <2>2. CASE u = t
    <3>1. pc'[t] = "leave"
      BY <1>2 DEF Goto, TypeOK
    <3>2. /\ local'[t].op = "read" /\ local'[t].gen = guard.gen
          /\ local'[t].acct = guard.seen /\ local'[t].at = terminal
          /\ local'[t].alias = IF Role[t] = "request" THEN local[t].alias
                               ELSE resolver
      BY <1>1 DEF Read, TypeOK, Locals, Fingerprint
    <3>3. Role[t] = "request" /\ OneMove => local'[t].alias = guard.seen
      BY <1>1, <1>2, <3>2
         DEF CanRead, SameSession, Fingerprint, ThreadInv, TrueOK
    <3>4. Role[t] # "request" /\ OneMove /\ moves = 0 =>
            local'[t].alias = guard.seen
      BY <1>2, <3>2 DEF CanRead, Resolves, SharedInv, ResolverInv
    <3>5. OneMove /\ moves = 0 => terminal = guard.seen
      BY <1>1 DEF SharedInv, Near
    <3>6. guard.gen \in Nat
      BY ThreadTypes
    <3>7. NamesOK(t)'
      BY <1>2, <3>2, <3>6 DEF NamesOK
    <3>8. OpOK(t)' /\ LockOK(t)'
      BY <1>1, <1>2, <3>1, <3>2 DEF ThreadInv, OpOK, LockOK, Inside
    <3>9. TrueOK(t)'
      BY <1>2, <3>1, <3>2, <3>3, <3>4, <3>5 DEF TrueOK, OneMove
    <3> QED BY <2>2, <3>7, <3>8, <3>9 DEF ThreadInv
  <2> QED BY <2>1, <2>2
<1> QED BY <1>3, <1>4

LEMMA LeaveStep ==
  ASSUME IInv, TypeOK', NEW t \in Threads, Leave(t)
  PROVE  IInv'
<1> USE DEF IInv
<1>1. /\ lock = t /\ pc[t] = "leave" /\ Observe /\ terminal' = terminal
      /\ ThreadInv(t)
  BY Holder DEF Leave, Inside, outside
<1>2. GuardInv' /\ Near' /\ ResolverInv' /\ GuardStep
  BY <1>1, ObserveShared, ObserveFacts DEF SharedInv
<1>3. SnapshotInv'
  BY PublishInv DEF Leave, TypeOK
<1>4. CASE guard'.state = "ready"
  <2>1. /\ guard'.gen = local[t].gen /\ lock' = None
        /\ Goto(t, IF local[t].op = "resolve" THEN "enter" ELSE "accepted")
        /\ local' = [local EXCEPT ![t].op = "read"]
    BY <1>4 DEF Leave
  <2>2. ASSUME NEW u \in Threads PROVE ThreadInv(u)'
    <3>1. CASE u # t
      <4>1. pc'[u] = pc[u] /\ pc[u] \notin Inside /\ local'[u] = local[u]
        BY <1>1, <2>1, <3>1, Alone DEF Goto, TypeOK
      <4> QED BY <1>2, <2>1, <3>1, <4>1, Outside, ThreadTypes
    <3>2. CASE u = t
      <4>1. pc'[t] = IF local[t].op = "resolve" THEN "enter" ELSE "accepted"
        BY <2>1 DEF Goto, TypeOK
      <4>2. /\ local'[t].op = "read" /\ local'[t].gen = local[t].gen
            /\ local'[t].acct = local[t].acct
            /\ local'[t].alias = local[t].alias /\ local'[t].at = local[t].at
        BY <2>1 DEF TypeOK, Locals
      <4>3. local[t].gen = guard.gen /\ local[t].acct = guard.seen
        BY <1>1 DEF ThreadInv, TrueOK
      <4>4. guard.seen = terminal /\ guard.gen > 0
        BY <2>1, <4>3, <1>1, ObserveFacts DEF SharedInv
      <4>5. OneMove => moves = 0
        BY <4>4 DEF SharedInv, Near
      <4>6. OneMove => /\ local[t].alias = local[t].acct
                       /\ local[t].op = "read" => local[t].at = local[t].acct
        BY <1>1, <4>3, <4>5 DEF ThreadInv, TrueOK
      <4>7. local[t].op \in {"resolve", "read"}
        BY <1>1, ThreadTypes DEF ThreadInv, OpOK
      <4>8. NamesOK(t)'
        BY <1>1, <1>2, <4>2, NamesKept DEF ThreadInv
      <4>9. OpOK(t)' /\ LockOK(t)'
        BY <2>1, <4>1, <4>2, ThreadTypes DEF OpOK, LockOK, Inside
      <4>10. TrueOK(t)'
        BY <4>1, <4>2, <4>6, <4>7 DEF TrueOK, OneMove
      <4> QED BY <3>2, <4>8, <4>9, <4>10 DEF ThreadInv
    <3> QED BY <3>1, <3>2
  <2> QED BY <1>2, <1>3, <2>2 DEF SharedInv
<1>5. CASE guard'.state = "switch"
  <2>1. Goto(t, "late reconcile") /\ lock' = t /\ local' = local
    BY <1>1, <1>5 DEF Leave
  <2>2. \A u \in Threads : ThreadInv(u)'
    BY <1>1, <1>2, <1>5, <2>1, Walk DEF Labels, Inside, Remembers
  <2> QED BY <1>2, <1>3, <2>2 DEF SharedInv
<1>6. CASE guard'.state = "unknown"
  <2>1. Refused(t)
    BY <1>6 DEF Leave
  <2>2. \A u \in Threads : ThreadInv(u)'
    BY <1>1, <1>2, <2>1, RefusedThreads
  <2> QED BY <1>2, <1>3, <2>2 DEF SharedInv
<1> QED BY <1>4, <1>5, <1>6 DEF Leave

LEMMA InitResolverStep ==
  ASSUME IInv, TypeOK', NEW t \in Threads, InitResolver(t)
  PROVE  IInv'
<1> USE DEF IInv
<1>1. /\ terminal' = terminal /\ moves' = moves /\ guard' = guard
      /\ snapshot' = snapshot /\ lock = None /\ lock' = None
      /\ pc[t] = "init"
  BY DEF InitResolver, outside
<1>2. GuardInv' /\ Near' /\ SnapshotInv' /\ GuardStep
  BY <1>1, SameGuard DEF SharedInv, GuardInv, Near, SnapshotInv, OneMove
<1>3. ResolverInv'
  <2>1. CASE resolver' = terminal /\ guard.state = "ready"
    BY <1>1, <2>1, BuildShared DEF SharedInv, GuardInv
  <2>2. CASE resolver' \in {resolver, Broken}
    BY <1>1, <2>2 DEF SharedInv, ResolverInv, OneMove
  <2> QED BY <2>1, <2>2 DEF InitResolver
<1>4. PICK l \in {"enter", "check", "reset"} : Goto(t, l)
  BY DEF InitResolver
<1>5. Remembers(t) /\ \A u \in Threads : u # t => local'[u] = local[u]
  <2>1. CASE local' = [local EXCEPT ![t].fresh = TRUE]
    BY <2>1 DEF Remembers, TypeOK, Locals
  <2>2. CASE local' = Forgotten(t)
    BY <2>2, ForgottenFields DEF Remembers
  <2> QED BY <2>1, <2>2 DEF InitResolver
<1>6. l \in Labels \ {"leave", "accepted"} /\ l \notin Inside /\ lock' # t
  BY <1>1, ThreadTypes DEF Labels, Inside
<1>7. \A u \in Threads : ThreadInv(u)'
  BY <1>1, <1>2, <1>4, <1>5, <1>6, Walk DEF Inside
<1> QED BY <1>2, <1>3, <1>7 DEF SharedInv

LEMMA IsResolvedStep ==
  ASSUME IInv, TypeOK', NEW t \in Threads, IsResolved(t)
  PROVE  IInv'
<1> USE DEF IInv
<1>1. /\ terminal' = terminal /\ moves' = moves /\ guard' = guard
      /\ resolver' = resolver /\ snapshot' = snapshot /\ lock = None
      /\ lock' = None /\ pc[t] = "check" /\ local' = local
  BY DEF IsResolved, outside, client
<1>2. SharedInv' /\ GuardStep
  BY <1>1, SameGuard
     DEF SharedInv, GuardInv, Near, ResolverInv, SnapshotInv, OneMove
<1>3. PICK l \in {"enter", "idle"} : Goto(t, l)
  BY DEF IsResolved
<1>4. l \in Labels \ {"leave", "accepted"} /\ l \notin Inside /\ lock' # t
  BY <1>1, ThreadTypes DEF Labels, Inside
<1>5. Remembers(t) /\ \A u \in Threads : u # t => local'[u] = local[u]
  BY <1>1 DEF Remembers
<1>6. \A u \in Threads : ThreadInv(u)'
  BY <1>1, <1>2, <1>3, <1>4, <1>5, Walk DEF Inside
<1> QED BY <1>2, <1>6

LEMMA ResetClientStep ==
  ASSUME IInv, TypeOK', NEW t \in Threads, ResetClient(t)
  PROVE  IInv'
<1> USE DEF IInv
<1>1. /\ terminal' = terminal /\ moves' = moves
      /\ guard' = Disconnected(guard) /\ resolver' = resolver
      /\ snapshot' = snapshot /\ lock = None /\ lock' = None
      /\ pc[t] = "reset" /\ local' = local /\ Goto(t, "idle")
  BY DEF ResetClient, outside
<1>2. GuardInv' /\ Near' /\ ResolverInv' /\ GuardStep
  BY <1>1, DisconnectShared
<1>3. SnapshotInv'
  BY <1>1, <1>2, SnapshotKept DEF SharedInv
<1>4. lock' # t
  BY <1>1, ThreadTypes
<1>5. Remembers(t) /\ \A u \in Threads : u # t => local'[u] = local[u]
  BY <1>1 DEF Remembers
<1>6. \A u \in Threads : ThreadInv(u)'
  BY <1>1, <1>2, <1>4, <1>5, Walk DEF Labels, Inside
<1> QED BY <1>2, <1>3, <1>6 DEF SharedInv

LEMMA ReadStatusStep ==
  ASSUME IInv, TypeOK', ReadStatus
  PROVE  IInv'
<1> USE DEF IInv
<1>1. /\ terminal' = terminal /\ moves' = moves /\ guard' = guard
      /\ resolver' = resolver /\ lock' = lock /\ pc' = pc /\ local' = local
      /\ Publish(guard')
  BY DEF ReadStatus, outside, client
<1>2. GuardInv' /\ Near' /\ ResolverInv'
  BY <1>1 DEF SharedInv, GuardInv, Near, ResolverInv, OneMove
<1>3. SnapshotInv'
  BY <1>1, PublishInv DEF TypeOK
<1>4. \A u \in Threads : ThreadInv(u)'
  BY <1>1, Still
<1> QED BY <1>2, <1>3, <1>4 DEF SharedInv

LEMMA LoseConnectionStep ==
  ASSUME IInv, TypeOK', LoseConnection
  PROVE  IInv'
<1> USE DEF IInv
<1>1. /\ terminal' = terminal /\ moves' = moves /\ guard' = guard
      /\ resolver' = resolver /\ lock' = lock /\ pc' = pc /\ local' = local
      /\ snapshot' = snapshot
  BY DEF LoseConnection, outside
<1>2. GuardInv' /\ Near' /\ ResolverInv' /\ SnapshotInv'
  BY <1>1
     DEF SharedInv, GuardInv, Near, ResolverInv, SnapshotInv, OneMove
<1>3. \A u \in Threads : ThreadInv(u)'
  BY <1>1, Still
<1> QED BY <1>2, <1>3 DEF SharedInv

LEMMA LogInStep ==
  ASSUME IInv, TypeOK', NEW id \in Accounts \cup {None}, LogIn(id)
  PROVE  IInv'
<1> USE DEF IInv
<1>1. /\ terminal' = id /\ id # terminal /\ moves < MaxMoves
      /\ moves' = moves + 1 /\ guard' = guard /\ resolver' = resolver
      /\ snapshot' = snapshot /\ lock' = lock /\ pc' = pc /\ local' = local
  BY DEF LogIn, client
<1>2. moves \in Nat /\ MaxMoves \in Nat
  BY DEF TypeOK
<1>3. moves' # 0 /\ (OneMove => moves = 0)
  BY <1>1, <1>2 DEF OneMove
<1>4. GuardInv' /\ SnapshotInv'
  BY <1>1 DEF SharedInv, GuardInv, SnapshotInv
<1>5. Near'
  BY <1>1, <1>3 DEF SharedInv, Near, OneMove
<1>6. ResolverInv'
  BY <1>1, <1>3 DEF SharedInv, ResolverInv, OneMove
<1>7. \A u \in Threads : ThreadInv(u)'
  BY <1>1, <1>3, Still
<1> QED BY <1>4, <1>5, <1>6, <1>7 DEF SharedInv

-----------------------------------------------------------------------------
(* The theorems *)

LEMMA InitInv == Init => IInv
<1> SUFFICES ASSUME Init PROVE IInv
  OBVIOUS
<1>1. TypeOK
  BY TypeInit
<1>2. SharedInv
  BY DEF Init, SharedInv, GuardInv, Near, ResolverInv, SnapshotInv
<1>3. ASSUME NEW t \in Threads PROVE ThreadInv(t)
  BY DEF Init, ThreadInv, NamesOK, OpOK, LockOK, TrueOK, Inside, Roles
<1> QED BY <1>1, <1>2, <1>3 DEF IInv

LEMMA StepInv == IInv /\ [Next]_vars => IInv'
<1> SUFFICES ASSUME IInv, [Next]_vars PROVE IInv'
  OBVIOUS
<1>1. TypeOK'
  BY TypeStep DEF IInv
<1>2. ASSUME NEW t \in Threads, Step(t) PROVE IInv'
  <2>1. CASE Start(t)           BY <1>1, <2>1, StartStep
  <2>2. CASE Enter(t)           BY <1>1, <2>2, EnterStep
  <2>3. CASE EnterFails(t)      BY <1>1, <2>3, EnterFailsStep
  <2>4. CASE Refresh(t)         BY <1>1, <2>4, RefreshStep
  <2>5. CASE RefreshFails(t)    BY <1>1, <2>5, RefreshFailsStep
  <2>6. CASE Reconcile(t)       BY <1>1, <2>6, ReconcileStep
  <2>7. CASE ResolveSymbol(t)   BY <1>1, <2>7, ResolveSymbolStep
  <2>8. CASE Read(t)            BY <1>1, <2>8, ReadStep
  <2>9. CASE CallbackRaises(t)  BY <1>1, <2>9, CallbackRaisesStep
  <2>10. CASE Leave(t)          BY <1>1, <2>10, LeaveStep
  <2>11. CASE LeaveFails(t)     BY <1>1, <2>11, LeaveFailsStep
  <2>12. CASE InitResolver(t)   BY <1>1, <2>12, InitResolverStep
  <2>13. CASE IsResolved(t)     BY <1>1, <2>13, IsResolvedStep
  <2>14. CASE ResetClient(t)    BY <1>1, <2>14, ResetClientStep
  <2> QED BY <1>2, <2>1, <2>2, <2>3, <2>4, <2>5, <2>6, <2>7, <2>8, <2>9,
             <2>10, <2>11, <2>12, <2>13, <2>14 DEF Step
<1>3. ASSUME NEW id \in Accounts \cup {None}, LogIn(id) PROVE IInv'
  BY <1>1, <1>3, LogInStep
<1>4. CASE ReadStatus
  BY <1>1, <1>4, ReadStatusStep
<1>5. CASE LoseConnection
  BY <1>1, <1>5, LoseConnectionStep
<1>6. CASE UNCHANGED vars
  <2>1. /\ guard' = guard /\ moves' = moves /\ terminal' = terminal
        /\ resolver' = resolver /\ snapshot' = snapshot /\ lock' = lock
        /\ pc' = pc /\ local' = local
    BY <1>6 DEF vars
  <2>2. SharedInv'
    BY <2>1
       DEF IInv, SharedInv, GuardInv, Near, ResolverInv, SnapshotInv, OneMove
  <2>3. \A u \in Threads : ThreadInv(u)'
    BY <2>1, Still DEF IInv
  <2> QED BY <1>1, <2>2, <2>3 DEF IInv
<1> QED BY <1>2, <1>3, <1>4, <1>5, <1>6 DEF Next

(* The inductive invariant holds in every reachable state: the lock, the   *)
(* guard, the resolver and what the threads remember stay in step.         *)
THEOREM InvariantHolds == Spec => []IInv
<1>1. Init => IInv
  BY InitInv
<1>2. IInv /\ [Next]_vars => IInv'
  BY StepInv
<1> QED BY <1>1, <1>2, PTL DEF Spec

(* A session generation names one account (session.py,                     *)
(* _record_observation), whatever the threads, switches and failed calls,  *)
(* for what a request keeps and for what health is told; no bound on the   *)
(* logins between two observations is assumed.                             *)
THEOREM GenerationsNameAccounts == Spec => []GenerationNamesAccount
<1>1. IInv => GenerationNamesAccount
  BY DEF IInv, SharedInv, SnapshotInv, ThreadInv, NamesOK,
         GenerationNamesAccount
<1> QED BY <1>1, InvariantHolds, PTL

(* If the terminal changes at most once between two observations of the    *)
(* account, MT5Client.call returns no result that was read on another      *)
(* account than its session's, or by another account's broker name.        *)
THEOREM AcceptedReadsAreTrue ==
  ASSUME MaxMoves <= 1
  PROVE  Spec => []ReadsAreTrue
<1>1. IInv => ReadsAreTrue
  BY DEF IInv, ThreadInv, TrueOK, OneMove, ReadsAreTrue
<1> QED BY <1>1, InvariantHolds, PTL
=============================================================================
