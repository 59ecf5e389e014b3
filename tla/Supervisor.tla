----------------------------- MODULE Supervisor -----------------------------
(***************************************************************************)
(* The supervisor of the application processes (runtime/supervisor.py): it *)
(* starts them one after another, watches them, and stops all of them when *)
(* one ends or it is told to stop itself.  The processes run, end by       *)
(* themselves, and take their time to end when they are told to, and even  *)
(* when they are killed: the supervisor waits a second for each and goes.  *)
(***************************************************************************)
EXTENDS Integers, FiniteSets

CONSTANT ChildCount  \* SERVICE_ENTRYPOINTS, in their order

ASSUME SupervisorAssumption == ChildCount \in Nat \ {0}

VARIABLES
  step,       \* where the supervisor is
  stopSignal, \* stop_signal is set
  process,    \* the process of each child
  told,       \* children sent SIGTERM, and not seen to have ended since
  result      \* what run returns, or raises

supervisorVars == <<step, stopSignal, process, told, result>>

Children == 1..ChildCount
Started  == {c \in Children : process[c] # "none"}
Running  == {c \in Children : process[c] \in {"running", "ending"}}

SupervisorTypeOK ==
  /\ step \in {"start", "watch", "terminate", "wait", "kill", "reap", "returned"}
  /\ stopSignal \in BOOLEAN
  /\ process \in [Children -> {"none", "running", "ending", "killed", "ended"}]
  /\ told \subseteq Started
  /\ result \in {"none", "child", "signal", "not started"}

SupervisorInit ==
  /\ step = "start" /\ stopSignal = FALSE
  /\ process = [c \in Children |-> "none"]
  /\ told = {} /\ result = "none"

-----------------------------------------------------------------------------
BugFailedStartReturns ==
  /\ step = "start" /\ Started # Children
  /\ LET next == Cardinality(Started) + 1 IN
       \/ process' = [process EXCEPT ![next] = "running"] /\ UNCHANGED <<step, result>>
       \/ /\ step' = "returned" /\ result' = "not started"
          /\ UNCHANGED process
  /\ UNCHANGED <<stopSignal, told>>

(* Popen of the next child, in a session of its own; when it fails, the    *)
(* children there are are shut down before the exception goes on.          *)
StartChild ==
  /\ step = "start" /\ Started # Children
  /\ LET next == Cardinality(Started) + 1 IN
       \/ process' = [process EXCEPT ![next] = "running"] /\ UNCHANGED <<step, result>>
       \/ /\ step' = "terminate" /\ result' = "not started"
          /\ UNCHANGED process
  /\ UNCHANGED <<stopSignal, told>>

AllStarted ==
  /\ step = "start" /\ Started = Children
  /\ step' = "watch"
  /\ UNCHANGED <<stopSignal, process, told, result>>

(* The loop of run: a signal first, then the children. *)
Watch ==
  /\ step = "watch"
  /\ \/ stopSignal /\ result' = "signal"
     \/ ~stopSignal /\ Running # Children /\ result' = "child"
  /\ step' = "terminate"
  /\ UNCHANGED <<stopSignal, process, told>>

(* shutdown: SIGTERM to the process group of every running child *)
Terminate ==
  /\ step = "terminate"
  /\ told' = Running
  /\ process' = [c \in Children |-> IF c \in Running THEN "ending" ELSE process[c]]
  /\ step' = "wait"
  /\ UNCHANGED <<stopSignal, result>>

(* ... until none is left, or the deadline has passed *)
AwaitEnd ==
  /\ step = "wait"
  /\ told' = told \cap Running
  /\ step' \in (IF told' = {} THEN {"kill"} ELSE {"wait", "kill"})
  /\ UNCHANGED <<stopSignal, process, result>>

(* ... and SIGKILL to the process groups of those left *)
Kill ==
  /\ step = "kill"
  /\ process' = [c \in Children |-> IF c \in told \cap Running THEN "killed" ELSE process[c]]
  /\ step' = "reap"
  /\ UNCHANGED <<stopSignal, told, result>>

(* wait(timeout=1) for every child: a TimeoutExpired is swallowed, so one  *)
(* that was killed may be there still.                                     *)
Reap ==
  /\ step = "reap" /\ step' = "returned"
  /\ UNCHANGED <<stopSignal, process, told, result>>

-----------------------------------------------------------------------------
(* SIGTERM or SIGINT to the supervisor, at any time *)
RequestStop ==
  /\ ~stopSignal /\ step # "returned"
  /\ stopSignal' = TRUE
  /\ UNCHANGED <<step, process, told, result>>

(* A child ends: told to, killed, or by itself. *)
ChildEnds(c) ==
  /\ process[c] \in {"running", "ending", "killed"}
  /\ process' = [process EXCEPT ![c] = "ended"]
  /\ UNCHANGED <<step, stopSignal, told, result>>

Supervise == StartChild \/ AllStarted \/ Watch \/ Terminate
             \/ (AwaitEnd /\ step' = "kill") \/ Kill \/ Reap

SupervisorNext ==
  \/ Supervise \/ AwaitEnd \/ RequestStop
  \/ \E c \in Children : ChildEnds(c)

(* The supervisor runs, and the deadline passes.  Nothing is promised of   *)
(* the children, nor that anyone asks to stop.                             *)
SupervisorSpec ==
  SupervisorInit /\ [][SupervisorNext]_supervisorVars /\ WF_supervisorVars(Supervise)

-----------------------------------------------------------------------------
(* Properties *)

(* A child that ends, one that cannot be started or a request to stop      *)
(* makes the supervisor return, in spite of children that do not listen,   *)
(* and not before every child has ended or was sent SIGKILL, however many  *)
(* were started, and in whatever order they end, are told to and are       *)
(* killed; and the result says "signal" only when there was one.  That a   *)
(* killed child has ended when it returns is not so.                       *)
EndIsAnswered ==
  /\ stopSignal \/ result = "not started" \/ (\E c \in Children : process[c] = "ended")
       ~> step = "returned" /\ Running = {}
  /\ [](result = "signal" => stopSignal)
=============================================================================
