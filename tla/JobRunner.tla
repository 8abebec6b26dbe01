------------------------------- MODULE JobRunner -------------------------------
(***************************************************************************)
(* The JobRunner of the two studios: phase jobs are submitted by requests, *)
(* one request at a time, and pulled from a queue by a single worker.  A   *)
(* job is in the table before it is in the queue.  The worker's prelude    *)
(* (directory, log file, cleaning up) and what it does after a job are not *)
(* guarded: an exception there is the end of the worker.                   *)
(***************************************************************************)
EXTENDS Naturals, Sequences, SequencesExt

CONSTANTS
  Keys,     \* what a job is about: project and phase
  MaxJobs   \* model bound: jobs ever submitted

\* What the constants must satisfy.
JobsAssumption == Keys # {} /\ MaxJobs \in Nat

Pill == 0   \* None in the queue: stop

VARIABLES
  jobs,      \* _jobs, in the order they were submitted: key and state
  putting,   \* the job in the table that is not yet in the queue, or 0
  queue,     \* _queue: numbers of jobs, or the pill
  worker,    \* where the worker is
  doing,     \* the job it works on, or 0
  stopping   \* _stop

jobsVars == <<jobs, putting, queue, worker, doing, stopping>>

Jobs == DOMAIN jobs
Active(j) == j \in Jobs /\ jobs[j].state \in {"queued", "running"}
State(j, state) == jobs' = [jobs EXCEPT ![j].state = state]

-----------------------------------------------------------------------------
\* Mutant of Refused: only a job that runs stands in the way.
RefusedRunning(k) == \E j \in Jobs : jobs[j].key = k /\ jobs[j].state = "running"

\* A second job for the same project and phase is refused while the first one
\* is queued or running.
Refused(k) == \E j \in Jobs : jobs[j].key = k /\ Active(j)

\* submit(): check and insert under the lock, then put.
Insert(k) ==
  /\ putting = 0 /\ ~stopping /\ Len(jobs) < MaxJobs
  /\ ~Refused(k)
  /\ jobs' = Append(jobs, [key |-> k, state |-> "queued"])
  /\ putting' = Len(jobs) + 1
  /\ UNCHANGED <<queue, worker, doing, stopping>>

PutJob ==
  /\ putting # 0 /\ putting' = 0
  /\ queue' = Append(queue, putting)
  /\ UNCHANGED <<jobs, worker, doing, stopping>>

\* stop(), between two requests: the flag, the pill that wakes the worker, and
\* a join that gives up after 5 s.
Stop ==
  /\ putting = 0 /\ ~stopping /\ stopping' = TRUE
  /\ queue' = Append(queue, Pill)
  /\ UNCHANGED <<jobs, putting, worker, doing>>

-----------------------------------------------------------------------------
\* The worker looks at the flag before it waits for the queue.
Wait ==
  /\ worker = "idle"
  /\ worker' = IF stopping THEN "ended" ELSE "waiting"
  /\ UNCHANGED <<jobs, putting, queue, doing, stopping>>

\* get() returns the pill, or a job: one that was in front of the pill is
\* dropped, and stays queued for ever.
Get ==
  /\ worker = "waiting" /\ queue # <<>> /\ queue' = Tail(queue)
  /\ IF Head(queue) = Pill \/ stopping
     THEN worker' = "ended" /\ UNCHANGED <<jobs, doing>>
     ELSE worker' = "prelude" /\ doing' = Head(queue) /\ State(Head(queue), "running")
  /\ UNCHANGED <<putting, stopping>>

\* The log file is open and the memory is cleaned up, or that failed.
Prelude ==
  /\ worker = "prelude" /\ worker' \in {"body", "dead"}
  /\ UNCHANGED <<jobs, putting, queue, doing, stopping>>

\* Mutant of Outcomes: a job that fails leaves the state as it is.
OutcomesDone == {"done", "running"}

Outcomes == {"done", "failed"}

\* The function of the job returns or raises.
Body ==
  /\ worker = "body" /\ worker' = "cleanup"
  /\ \E outcome \in Outcomes : State(doing, outcome)
  /\ UNCHANGED <<putting, queue, doing, stopping>>

\* The finally part; the next job may be submitted for the same key meanwhile.
Cleanup ==
  /\ worker = "cleanup" /\ worker' \in {"idle", "dead"}
  /\ doing' = 0
  /\ UNCHANGED <<jobs, putting, queue, stopping>>

-----------------------------------------------------------------------------
JobsInit ==
  /\ jobs = <<>> /\ putting = 0 /\ queue = <<>>
  /\ worker = "idle" /\ doing = 0 /\ stopping = FALSE

Worker == Wait \/ Get \/ Prelude \/ Body \/ Cleanup
Requests == (\E k \in Keys : Insert(k)) \/ PutJob \/ Stop
JobsNext == Requests \/ Worker

\* The worker is a thread and a job ends; a request that has begun is finished.
JobsFairness == WF_jobsVars(Worker) /\ WF_jobsVars(PutJob)

JobsSpec == JobsInit /\ [][JobsNext]_jobsVars /\ JobsFairness

-----------------------------------------------------------------------------
JobsTypeOK ==
  /\ putting \in {0} \cup Jobs
  /\ worker \in {"idle", "waiting", "prelude", "body", "cleanup", "ended", "dead"}
  /\ doing # 0 => worker \in {"prelude", "body", "cleanup", "dead"}

\* One job runs at a time, and it is the one the worker is at.
OneRuns == \A j \in Jobs : jobs[j].state = "running" => j = doing

\* Nobody waits for the same phase of the same project twice.
NoDuplicate == \A i, j \in Jobs : i # j /\ Active(i) /\ Active(j) => jobs[i].key # jobs[j].key

\* A job that is queued is in the queue, unless it is being submitted or the
\* worker dropped it at the end; a job in the queue is not done twice.
QueuedIsThere ==
  worker # "ended" =>
    \A j \in Jobs : (jobs[j].state = "queued" /\ j # putting) <=> j \in ToSet(queue)

JobsInv == JobsTypeOK /\ OneRuns /\ NoDuplicate /\ QueuedIsThere

\* Every job comes to an end, unless the worker died or was told to stop.
JobsEnd ==
  \A j \in 1..MaxJobs :
    Active(j) ~> ~Active(j) \/ worker = "dead" \/ stopping
=============================================================================
