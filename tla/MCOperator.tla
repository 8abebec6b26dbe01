------------------------------ MODULE MCOperator ------------------------------
(***************************************************************************)
(* What an operator starts and stops.  A behaviour exercises one part of   *)
(* it: some of the threads that start and stop the engine and the producer *)
(* at the same time, or the jobs of a studio.  What a part leaves out      *)
(* stays where it starts.                                                  *)
(***************************************************************************)
EXTENDS SystemControl

CONSTANTS Keys, MaxJobs

VARIABLES part, jobs, putting, queue, worker, doing, ending

Studio == INSTANCE JobRunner WITH stopping <- ending
studioVars == <<jobs, putting, queue, worker, doing, ending>>

ASSUME Studio!JobsAssumption

\* The threads of the control parts: a START, a STOP and the cycler; two STARTs
\* and a STOP; both with saves and readers; the cycler with readers.
Cast == [cycle  |-> {"s1", "p1", "cycler"},
         starts |-> {"s1", "s2", "p1"},
         saved  |-> {"s1", "p1", "v1", "r1"},
         asked  |-> {"s1", "cycler", "r1"}]

OperatorInit ==
  /\ part \in DOMAIN Cast \cup {"jobs"}
  /\ ControlInit /\ Studio!JobsInit

System == ControlNext /\ \A t \in Threads \ Cast[part] : place'[t] = "idle" /\ seen'[t] = 0

OperatorNext ==
  /\ UNCHANGED part
  /\ \/ part # "jobs" /\ System /\ UNCHANGED studioVars
     \/ part = "jobs" /\ Studio!JobsNext /\ UNCHANGED controlVars

OperatorSpec ==
  /\ OperatorInit /\ [][OperatorNext]_<<part, controlVars, studioVars>>
  /\ WF_controlVars(part # "jobs" /\ Step("cycler"))
  /\ WF_studioVars(part = "jobs" /\ Studio!Worker) /\ WF_studioVars(part = "jobs" /\ Studio!PutJob)

-----------------------------------------------------------------------------
\* JobsInv: one job runs at a time, none is asked for twice and none is lost.
JobsInv == Studio!JobsInv

\* JobsEnd: every job comes to an end, unless the worker does.
JobsEnd == Studio!JobsEnd
=============================================================================
