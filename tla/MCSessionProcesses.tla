------------------------- MODULE MCSessionProcesses -------------------------
(***************************************************************************)
(* The processes that use the terminal, each by a client of its own: the   *)
(* execution service, with a request and the session monitor, the tick     *)
(* worker and the history worker.  One of them runs in a behaviour.        *)
(***************************************************************************)
EXTENDS MCAccountSession

VARIABLE process

Processes == {{r1, m1}, {w1}, {h1}}

(* While a symbol is missing a worker of ticks connects over and over, and *)
(* would meet the bound on generations: there is no such account for it.   *)
HasSymbols(id) == process # {h1} => id \notin Incomplete

ProcessStep(t) == t \in process /\ Step(t) /\ UNCHANGED process

ProcessInit == Init /\ process \in Processes /\ HasSymbols(terminal)

ProcessSpec ==
  /\ ProcessInit
  /\ [][\/ \E t \in Threads : ProcessStep(t)
        \/ (LoseConnection \/ ReadStatus) /\ UNCHANGED process
        \/ \E id \in Accounts \cup {None} :
             HasSymbols(id) /\ LogIn(id) /\ UNCHANGED process]_<<vars, process>>
  /\ \A t \in Threads : WF_vars(ProcessStep(t))

(* ReadsResume of AccountSession for the request and for the tick worker,  *)
(* which both make sure of the connection and of the broker's names: after *)
(* any switches, logouts and failed calls their reads are accepted again   *)
(* once the terminal stays on an account that has the symbols, unless the  *)
(* transport is lost while no read is under way: then the process keeps    *)
(* the dead connection and is cut off for good (client.py:113-122).        *)
ProcessReadsResume ==
  \A t \in {r1, w1} :
    t \in process /\ <>[](terminal \in Tradable) =>
      []<>(pc[t] = "accepted") \/ <>[]CutOff
=============================================================================
