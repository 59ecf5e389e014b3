------------------------------- MODULE MCJobs -------------------------------
(***************************************************************************)
(* Five parts that share no state with each other, one of which runs in    *)
(* each behaviour: the backfill jobs on the archive, the supervisor, the   *)
(* trade ETL, the start of the terminal in its container, and the gap      *)
(* verification of the history worker.                                     *)
(***************************************************************************)
EXTENDS Archive, Supervisor, TradeEtl, TerminalLifecycle, GapVerification, TLC

CONSTANTS j1, j2, k1, k2, l1, l2, d1, d2, d3

(* deal d2 (and order d2) has its number in both accounts *)
SharedIds == (l1 :> {d1, d2}) @@ (l2 :> {d2, d3})
OneOrder  == (l1 :> {d2}) @@ (l2 :> {d2})

VARIABLE part

vars == <<part, archiveVars, supervisorVars, etlVars, lifecycleVars, gapVars>>

(* The choices of the parts that do not run are made for them. *)
Init ==
  /\ part \in {"archive", "supervisor", "etl", "lifecycle", "gaps"}
  /\ ArchiveInit /\ SupervisorInit /\ EtlInit /\ LifecycleInit /\ GapsInit
  /\ (part = "archive" \/ login = k1) /\ (part = "etl" \/ active = l1)
  /\ (part = "gaps" \/ DOMAIN truth = {1, LastTime})

Next ==
  /\ UNCHANGED part
  /\ \/ /\ part = "archive" /\ ArchiveNext
        /\ UNCHANGED <<supervisorVars, etlVars, lifecycleVars, gapVars>>
     \/ /\ part = "supervisor" /\ SupervisorNext
        /\ UNCHANGED <<archiveVars, etlVars, lifecycleVars, gapVars>>
     \/ /\ part = "etl" /\ EtlNext
        /\ UNCHANGED <<archiveVars, supervisorVars, lifecycleVars, gapVars>>
     \/ /\ part = "lifecycle" /\ LifecycleNext
        /\ UNCHANGED <<archiveVars, supervisorVars, etlVars, gapVars>>
     \/ /\ part = "gaps" /\ GapsNext
        /\ UNCHANGED <<archiveVars, supervisorVars, etlVars, lifecycleVars>>

(* The supervisor, the container's script and the history worker go on. *)
Spec ==
  /\ Init /\ [][Next]_vars
  /\ WF_vars(/\ Next
             /\ \/ part = "supervisor" /\ Supervise
                \/ part = "lifecycle" /\ Lifecycle
                \/ part = "gaps" /\ RefreshGaps)

(* Each part keeps its type, and with it what its steps remember of the    *)
(* steps before.                                                           *)
TypeOK ==
  /\ ArchiveTypeOK /\ SupervisorTypeOK /\ EtlTypeOK
  /\ LifecycleTypeOK /\ GapsTypeOK
=============================================================================
