------------------------------- MODULE CIRuns -------------------------------
(***************************************************************************)
(* CI runs as the server keeps them: the rows of workflow_runs and         *)
(* workflow_jobs, the detached goroutine that executes each dispatch       *)
(* (worker.CIWorker.HandleCIRun), and the HTTP requests that create,       *)
(* cancel and re-run a run. Every SQL statement is one atomic step; what a *)
(* handler does between two statements interleaves with everyone else.     *)
(*                                                                         *)
(* Nothing in the database tells one attempt of a run from the next, so    *)
(* the attempt number is a history variable: it counts how often the row   *)
(* was set to queued, and names the goroutine that this dispatch starts.   *)
(***************************************************************************)
EXTENDS Integers, FiniteSets

CONSTANTS
  Runs,         \* ids of workflow_runs rows
  Jobs,         \* names of the jobs of a workflow
  Requests,     \* concurrent HTTP requests
  Orgs,         \* organizations
  OrgOf,        \* the organization that owns a run's repository
  PlanTier,     \* plan_tier of an organization, "norow" for a personal account
  ProLimit,     \* proTierConcurrentLimit (20 in the code)
  BadWorkflow,  \* runs whose YAML has error diagnostics or no job
  MaxAttempts,  \* bound: how often a run is dispatched
  Faults        \* which of "db", "secrets", "git", "crash" may happen

ASSUME CIRunsAssumption ==
  /\ OrgOf \in [Runs -> Orgs]
  /\ PlanTier \in [Orgs -> {"norow", "free", "pro", "enterprise"}]
  /\ ProLimit \in Nat \ {0}
  /\ BadWorkflow \subseteq Runs
  /\ MaxAttempts \in Nat \ {0}
  /\ Faults \subseteq {"db", "secrets", "git", "crash"}

VARIABLES
  run,       \* the workflow_runs table
  row,       \* the workflow_jobs table: the row an executor created for a job
  pc,        \* where the goroutine of an attempt is
  task,      \* the job goroutines of an executor, then its jobResults
  fatal,     \* fatalErr of an executor is set and runCtx is cancelled
  req,       \* the HTTP requests in flight
  attempt,   \* history: how often a run was set to queued
  stopped    \* history: executors whose run was cancelled under them

vars == <<run, row, pc, task, fatal, req, attempt, stopped>>

Executors == Runs \X (1..MaxAttempts)

RunStatus == {"none", "queued", "in_progress", "completed", "failed"}
Conclusion == {"null", "success", "failure", "rate_limited", "cancelled"}
RowStatus == {"none", "in_progress", "success", "failure", "skipped", "cancelled"}
ExecutorPC == {"none", "start", "reject", "admit", "prepare", "jobs", "done", "dead"}
TaskState == {"waiting", "running", "skipping", "success", "failure", "skipped", "dropped"}

Idle == [op |-> "idle"]
RequestState == [op: {"dispatch", "cancelRun", "cancelJobs"}, run: Runs, n: 0..MaxAttempts]

Live == {"start", "reject", "admit", "prepare", "jobs"}
Ended == {"success", "failure", "skipped"}
Passed == {"success", "skipped"}

TypeOK ==
  /\ run \in [Runs -> [status: RunStatus, conclusion: Conclusion]]
  /\ row \in [Executors -> [Jobs -> RowStatus]]
  /\ pc \in [Executors -> ExecutorPC]
  /\ task \in [Executors -> [Jobs -> TaskState]]
  /\ fatal \in [Executors -> BOOLEAN]
  /\ req \in [Requests -> {Idle} \union RequestState]
  /\ attempt \in [Runs -> 0..MaxAttempts]
  /\ stopped \subseteq Executors

Init ==
  /\ run = [r \in Runs |-> [status |-> "none", conclusion |-> "null"]]
  /\ row = [e \in Executors |-> [j \in Jobs |-> "none"]]
  /\ pc = [e \in Executors |-> "none"]
  /\ task = [e \in Executors |-> [j \in Jobs |-> "waiting"]]
  /\ fatal = [e \in Executors |-> FALSE]
  /\ req = [q \in Requests |-> Idle]
  /\ attempt = [r \in Runs |-> 0]
  /\ stopped = {}

-----------------------------------------------------------------------------
(* Creating and dispatching a run. *)

\* Create assigns "queued" to the new row; the same request dispatches it next.
CreateRun(q, r) ==
  /\ req[q] = Idle
  /\ run[r].status = "none"
  /\ run' = [run EXCEPT ![r].status = "queued"]
  /\ attempt' = [attempt EXCEPT ![r] = 1]
  /\ req' = [req EXCEPT ![q] = [op |-> "dispatch", run |-> r, n |-> 1]]
  /\ UNCHANGED <<row, pc, task, fatal, stopped>>

\* Rerun resets the row whatever its state is; RerunRun checks only that it exists.
RerunReset(q, r) ==
  /\ req[q] = Idle
  /\ run[r].status # "none"
  /\ attempt[r] < MaxAttempts
  /\ run' = [run EXCEPT ![r] = [status |-> "queued", conclusion |-> "null"]]
  /\ attempt' = [attempt EXCEPT ![r] = @ + 1]
  /\ req' = [req EXCEPT ![q] = [op |-> "dispatch", run |-> r, n |-> attempt[r] + 1]]
  /\ UNCHANGED <<row, pc, task, fatal, stopped>>

\* Without a queue client a dispatch starts a goroutine on a background context.
Dispatch(q) ==
  /\ req[q] # Idle /\ req[q].op = "dispatch"
  /\ pc' = [pc EXCEPT ![<<req[q].run, req[q].n>>] = "start"]
  /\ req' = [req EXCEPT ![q] = Idle]
  /\ UNCHANGED <<run, row, task, fatal, attempt, stopped>>

\* The re-run callback returns silently when the row or the YAML cannot be read.
RedispatchFails(q) ==
  /\ "git" \in Faults
  /\ req[q] # Idle /\ req[q].op = "dispatch" /\ req[q].n > 1
  /\ req' = [req EXCEPT ![q] = Idle]
  /\ UNCHANGED <<run, row, pc, task, fatal, attempt, stopped>>

-----------------------------------------------------------------------------
(* Cancelling a run: a read, then two UPDATE statements. *)
\* Mutant of CancelCheck: the jobs are cancelled and the run is not.
CancelCheckJobsOnly(q, r) ==
  /\ req[q] = Idle
  /\ run[r].status \notin {"none", "completed"}
  /\ req' = [req EXCEPT ![q] = [op |-> "cancelJobs", run |-> r, n |-> 0]]
  /\ UNCHANGED <<run, row, pc, task, fatal, attempt, stopped>>

\* isTerminalRun knows "completed" only: a run with status "failed" passes.
CancelCheck(q, r) ==
  /\ req[q] = Idle
  /\ run[r].status \notin {"none", "completed"}
  /\ req' = [req EXCEPT ![q] = [op |-> "cancelRun", run |-> r, n |-> 0]]
  /\ UNCHANGED <<run, row, pc, task, fatal, attempt, stopped>>

CancelRunRow(q) ==
  /\ req[q] # Idle /\ req[q].op = "cancelRun"
  /\ LET r == req[q].run IN
       /\ run' = [run EXCEPT ![r] = [status |-> "completed", conclusion |-> "cancelled"]]
       /\ req' = [req EXCEPT ![q] = [op |-> "cancelJobs", run |-> r, n |-> 0]]
       /\ stopped' = stopped \union {e \in Executors : e[1] = r /\ pc[e] \in Live}
  /\ UNCHANGED <<row, pc, task, fatal, attempt>>

CancelJobRows(q) ==
  /\ req[q] # Idle /\ req[q].op = "cancelJobs"
  /\ row' = [e \in Executors |-> [j \in Jobs |->
               IF e[1] = req[q].run /\ row[e][j] = "in_progress" THEN "cancelled" ELSE row[e][j]]]
  /\ req' = [req EXCEPT ![q] = Idle]
  /\ UNCHANGED <<run, pc, task, fatal, attempt, stopped>>

\* A failed UPDATE ends the request with an error and leaves the rest undone.
CancelFails(q) ==
  /\ "db" \in Faults
  /\ req[q] # Idle /\ req[q].op \in {"cancelRun", "cancelJobs"}
  /\ req' = [req EXCEPT ![q] = Idle]
  /\ UNCHANGED <<run, row, pc, task, fatal, attempt, stopped>>

-----------------------------------------------------------------------------
(* HandleCIRun up to the start of the jobs. *)

concurrentLimitExceeded(o, running) ==
  IF PlanTier[o] \in {"norow", "free"} THEN running >= 1 ELSE running >= ProLimit

countRunning(r) ==
  Cardinality({s \in Runs \ {r} : OrgOf[s] = OrgOf[r] /\ run[s].status = "in_progress"})

\* Mutant of markRun: the WHERE clause loses the cancel guard.
markRunUnguarded(r, status, conclusion) ==
  \/ run' = [run EXCEPT ![r] = [status |-> status, conclusion |-> conclusion]]
  \/ "db" \in Faults /\ run' = run

\* markRun swallows its error, so a failing database loses the result.
markRun(r, status, conclusion) ==
  \/ run' = [run EXCEPT ![r] =
       IF @.conclusion = "cancelled" THEN @ ELSE [status |-> status, conclusion |-> conclusion]]
  \/ "db" \in Faults /\ run' = run

\* Mutants of setStatus: no cancel guard; a status no reader knows.
setStatusUnguarded(r, status) ==
  run' = [run EXCEPT ![r].status = status]

setStatusUnknown(r, status) ==
  run' = [run EXCEPT ![r].status = IF run[r].conclusion = "cancelled" THEN @ ELSE "running"]

setStatus(r, status) ==
  run' = [run EXCEPT ![r].status = IF run[r].conclusion = "cancelled" THEN @ ELSE status]

CheckLimit(e) ==
  /\ pc[e] = "start"
  /\ pc' = [pc EXCEPT ![e] =
       IF concurrentLimitExceeded(OrgOf[e[1]], countRunning(e[1])) THEN "reject" ELSE "admit"]
  /\ UNCHANGED <<run, row, task, fatal, req, attempt, stopped>>

\* Mutant of RejectRun: the handler marks the run and goes on.
RejectRunGoesOn(e) ==
  /\ pc[e] = "reject"
  /\ markRun(e[1], "failed", "rate_limited")
  /\ pc' = [pc EXCEPT ![e] = "admit"]
  /\ UNCHANGED <<row, task, fatal, req, attempt, stopped>>

\* The retryable error reaches nobody: the goroutine discards it.
RejectRun(e) ==
  /\ pc[e] = "reject"
  /\ markRun(e[1], "failed", "rate_limited")
  /\ pc' = [pc EXCEPT ![e] = "done"]
  /\ UNCHANGED <<row, task, fatal, req, attempt, stopped>>

\* The handler does not look at whether the guarded UPDATE touched the row.
AdmitRun(e) ==
  /\ pc[e] = "admit"
  /\ setStatus(e[1], "in_progress")
  /\ pc' = [pc EXCEPT ![e] = "prepare"]
  /\ UNCHANGED <<row, task, fatal, req, attempt, stopped>>

RejectWorkflow(e) ==
  /\ pc[e] = "prepare"
  /\ e[1] \in BadWorkflow
  /\ markRun(e[1], "failed", "failure")
  /\ pc' = [pc EXCEPT ![e] = "done"]
  /\ UNCHANGED <<row, task, fatal, req, attempt, stopped>>

StartJobs(e) ==
  /\ pc[e] = "prepare"
  /\ e[1] \notin BadWorkflow
  /\ pc' = [pc EXCEPT ![e] = "jobs"]
  /\ UNCHANGED <<run, row, task, fatal, req, attempt, stopped>>

\* A query of the preamble fails, or the secrets or the work directory cannot
\* be had: HandleCIRun returns the error and leaves the row as it is.
AbortPreamble(e) ==
  /\ \/ "db" \in Faults /\ pc[e] \in {"start", "admit"}
     \/ Faults \intersect {"db", "secrets"} # {} /\ pc[e] = "prepare" /\ e[1] \notin BadWorkflow
  /\ pc' = [pc EXCEPT ![e] = "done"]
  /\ UNCHANGED <<run, row, task, fatal, req, attempt, stopped>>

-----------------------------------------------------------------------------
(* The job goroutines, seen from the tables. Which job may start or be     *)
(* skipped when is the subject of module CIJobs.                           *)

StartJob(e, j) ==
  /\ pc[e] = "jobs" /\ task[e][j] = "waiting" /\ ~fatal[e]
  /\ row' = [row EXCEPT ![e][j] = "in_progress"]
  /\ task' = [task EXCEPT ![e][j] = "running"]
  /\ UNCHANGED <<run, pc, fatal, req, attempt, stopped>>

\* Complete updates a row that is in_progress, and not on a cancelled context;
\* its error is ignored, the result of the job counts all the same.
FinishJob(e, j, result) ==
  /\ pc[e] = "jobs" /\ task[e][j] = "running"
  /\ task' = [task EXCEPT ![e][j] = result]
  /\ \/ ~fatal[e] /\ row' = [row EXCEPT ![e][j] = IF @ = "in_progress" THEN result ELSE @]
     \/ (fatal[e] \/ "db" \in Faults) /\ row' = row
  /\ UNCHANGED <<run, pc, fatal, req, attempt, stopped>>

\* skipJob, which holds mu, inserts an in_progress row ...
SkipJob(e, j) ==
  /\ pc[e] = "jobs" /\ task[e][j] = "waiting"
  /\ \A k \in Jobs : task[e][k] # "skipping"
  /\ row' = [row EXCEPT ![e][j] = "in_progress"]
  /\ task' = [task EXCEPT ![e][j] = "skipping"]
  /\ UNCHANGED <<run, pc, fatal, req, attempt, stopped>>

\* ... and completes it as skipped: here a row that is no longer in_progress,
\* or a failing database, is a fatal error of the whole run.
SkipJobDone(e, j) ==
  /\ pc[e] = "jobs" /\ task[e][j] = "skipping"
  /\ task' = [task EXCEPT ![e][j] = "skipped"]
  /\ \/ /\ row[e][j] = "in_progress"
        /\ row' = [row EXCEPT ![e][j] = "skipped"]
        /\ fatal' = fatal
     \/ /\ row[e][j] # "in_progress" \/ "db" \in Faults
        /\ row' = row
        /\ fatal' = [fatal EXCEPT ![e] = TRUE]
  /\ UNCHANGED <<run, pc, req, attempt, stopped>>

\* Creating the row fails: setFatal cancels the context of every other job.
CreateJobFails(e, j) ==
  /\ "db" \in Faults
  /\ pc[e] = "jobs" /\ task[e][j] = "waiting"
  /\ task' = [task EXCEPT ![e][j] = "dropped"]
  /\ fatal' = [fatal EXCEPT ![e] = TRUE]
  /\ UNCHANGED <<run, row, pc, req, attempt, stopped>>

\* After a fatal error a job that waits does not start.
DropJob(e, j) ==
  /\ pc[e] = "jobs" /\ task[e][j] = "waiting" /\ fatal[e]
  /\ task' = [task EXCEPT ![e][j] = "dropped"]
  /\ UNCHANGED <<run, row, pc, fatal, req, attempt, stopped>>

\* Mutants of FinishRun: nothing is written; a failed job is waited for in vain.
FinishRunUnmarked(e) ==
  /\ pc[e] = "jobs" /\ ~fatal[e]
  /\ \A j \in Jobs : task[e][j] \in Ended
  /\ pc' = [pc EXCEPT ![e] = "done"]
  /\ UNCHANGED <<run, row, task, fatal, req, attempt, stopped>>

FinishRunWaits(e) ==
  /\ pc[e] = "jobs" /\ ~fatal[e]
  /\ \A j \in Jobs : task[e][j] \in Passed
  /\ markRun(e[1], "completed", "success")
  /\ pc' = [pc EXCEPT ![e] = "done"]
  /\ UNCHANGED <<row, task, fatal, req, attempt, stopped>>

\* Mutant of FinishRun: the conclusion is taken before every job has ended.
FinishRunEarly(e) ==
  /\ pc[e] = "jobs" /\ ~fatal[e]
  /\ IF \A j \in Jobs : task[e][j] # "failure"
       THEN markRun(e[1], "completed", "success")
       ELSE markRun(e[1], "failed", "failure")
  /\ pc' = [pc EXCEPT ![e] = "done"]
  /\ UNCHANGED <<row, task, fatal, req, attempt, stopped>>

FinishRun(e) ==
  /\ pc[e] = "jobs" /\ ~fatal[e]
  /\ \A j \in Jobs : task[e][j] \in Ended
  /\ IF \A j \in Jobs : task[e][j] \in Passed
       THEN markRun(e[1], "completed", "success")
       ELSE markRun(e[1], "failed", "failure")
  /\ pc' = [pc EXCEPT ![e] = "done"]
  /\ UNCHANGED <<row, task, fatal, req, attempt, stopped>>

\* fatalErr is returned without a markRun.
FinishFatal(e) ==
  /\ pc[e] = "jobs" /\ fatal[e]
  /\ \A j \in Jobs : task[e][j] \in Ended \union {"dropped"}
  /\ pc' = [pc EXCEPT ![e] = "done"]
  /\ UNCHANGED <<run, row, task, fatal, req, attempt, stopped>>

-----------------------------------------------------------------------------
\* The process stops and starts again: the goroutines and the requests are
\* gone, the rows stay, and nothing at start-up looks for unfinished runs.
Crash ==
  /\ "crash" \in Faults
  /\ pc' = [e \in Executors |-> IF pc[e] \in Live THEN "dead" ELSE pc[e]]
  /\ req' = [q \in Requests |-> Idle]
  /\ UNCHANGED <<run, row, task, fatal, attempt, stopped>>

JobStep(e, j) ==
  \/ StartJob(e, j)
  \/ \E result \in {"success", "failure"} : FinishJob(e, j, result)
  \/ SkipJob(e, j)
  \/ SkipJobDone(e, j)
  \/ CreateJobFails(e, j)
  \/ DropJob(e, j)

ExecutorStep(e) ==
  \/ CheckLimit(e)
  \/ RejectRun(e)
  \/ AdmitRun(e)
  \/ RejectWorkflow(e)
  \/ StartJobs(e)
  \/ AbortPreamble(e)
  \/ \E j \in Jobs : JobStep(e, j)
  \/ FinishRun(e)
  \/ FinishFatal(e)

RequestStep(q) ==
  \/ Dispatch(q)
  \/ RedispatchFails(q)
  \/ CancelRunRow(q)
  \/ CancelJobRows(q)
  \/ CancelFails(q)

NewRequest(q, r) ==
  \/ CreateRun(q, r)
  \/ RerunReset(q, r)
  \/ CancelCheck(q, r)

Next ==
  \/ \E q \in Requests, r \in Runs : NewRequest(q, r)
  \/ \E q \in Requests : RequestStep(q)
  \/ \E e \in Executors : ExecutorStep(e)
  \/ Crash

Spec == Init /\ [][Next]_vars

\* The Go scheduler runs every goroutine, a step ends within ciStepTimeout and
\* a request that was accepted runs to its end. Nobody has to send a request.
Fairness ==
  /\ \A q \in Requests : WF_vars(RequestStep(q))
  /\ \A e \in Executors : WF_vars(ExecutorStep(e))

FairSpec == Spec /\ Fairness
-----------------------------------------------------------------------------
(* Properties. *)

\* Status and conclusion are written by six different statements, some of them
\* by executors of earlier attempts; whatever the interleaving, the pair a
\* client reads makes sense: a finished run has the conclusion that belongs to
\* its status, a queued one has none, and a cancelled run never shows as running.
StatusAgrees ==
  \A r \in Runs :
    /\ run[r].status = "completed" => run[r].conclusion \in {"success", "cancelled"}
    /\ run[r].status = "failed" => run[r].conclusion \in {"failure", "rate_limited"}
    /\ run[r].status \in {"none", "queued"} => run[r].conclusion = "null"
    /\ run[r].conclusion = "cancelled" => run[r].status = "completed"

\* A run is green only if the executor of one of its dispatches brought every
\* job of the workflow to success or to a deliberate skip.
SuccessEarned ==
  \A r \in Runs : run[r].conclusion = "success" =>
    \E n \in 1..MaxAttempts :
      pc[<<r, n>>] = "done" /\ \A j \in Jobs : task[<<r, n>>][j] \in Passed

\* The comment on setStatus: a run the user cancelled is not resurrected. Only
\* a re-run takes the row out of cancelled; no executor step does.
CancelSticks ==
  [][\A r \in Runs : run[r].conclusion = "cancelled" =>
       run'[r] = run[r] \/ attempt'[r] > attempt[r]]_vars

\* The re-run callback gave up after the row was reset: nobody will take the run up.
Stranded(r) ==
  /\ "git" \in Faults
  /\ run[r].status = "queued"
  /\ pc[<<r, attempt[r]>>] = "none"
  /\ \A q \in Requests : req[q] # Idle => req[q].op # "dispatch" \/ req[q].run # r

\* A cancellation, overtaken by a re-run, reached the row of a job that was being
\* skipped: to the executor of the reopened run this is fatal, and it returns.
Derailed(r) == \E n \in 1..MaxAttempts : fatal[<<r, n>>]

\* Without a failing database, secret or process, somebody is always going to
\* finish a run that is queued or in progress, however re-runs, cancellations and
\* executors of earlier attempts overlap: the request that dispatches it or an
\* executor that will write its result. The exceptions are a re-run whose callback
\* could not read the workflow (main.go, SetRerunDispatcher) and a fatal skip.
ActiveRunHasOwner ==
  \A r \in Runs : run[r].status \in {"queued", "in_progress"} =>
    \/ \E q \in Requests : req[q] # Idle /\ req[q].op = "dispatch" /\ req[q].run = r
    \/ \E n \in 1..MaxAttempts : pc[<<r, n>>] \in Live
    \/ Stranded(r)
    \/ Derailed(r)

\* A result that stands (no re-run) is replaced by nothing but a cancellation.
ResultStands ==
  [][\A r \in Runs :
       /\ run[r].status \in {"completed", "failed"}
       /\ run'[r] # run[r]
       => \/ run'[r] = [status |-> "completed", conclusion |-> "cancelled"]
          \/ attempt'[r] > attempt[r]]_vars

\* The run list and the job list tell the same story: a green run shows no
\* failed and no cancelled job.
GreenRunHasNoRedJob ==
  \A r \in Runs : run[r].status = "completed" /\ run[r].conclusion = "success" =>
    \A n \in 1..MaxAttempts, j \in Jobs : row[<<r, n>>][j] \notin {"failure", "cancelled"}

\* The comment on markRun: an executor does not overwrite a run the user
\* cancelled mid-flight. An executor whose run was cancelled under it never
\* changes the row again.
CancelledExecutorIsSilent ==
  [][\A e \in stopped : pc'[e] # pc[e] => run'[e[1]] = run[e[1]]]_vars

\* Every run that was created settles: from some point on its row is completed
\* or failed for good (re-runs are bounded by MaxAttempts), or it is left to nobody as above.
EveryRunSettles ==
  \A r \in Runs : <>(run[r].status # "none") =>
    <>[](run[r].status \in {"completed", "failed"} \/ Stranded(r) \/ Derailed(r))
=============================================================================
