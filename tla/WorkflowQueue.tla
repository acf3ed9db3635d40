---------------------------- MODULE WorkflowQueue ----------------------------
(***************************************************************************)
(* The queued way of executing a workflow run: asynq tasks that schedule   *)
(* the jobs of a run (HandleWorkflowSchedule), execute one                 *)
(* (HandleWorkflowJobExec), hand one to a self-hosted runner or to act     *)
(* (HandleDispatchJob) and cancel one (HandleCancelJob), over the rows of  *)
(* workflow_jobs and of one workflow run.                                  *)
(*                                                                         *)
(* asynq delivers at least once: a task whose handler returns an error, or *)
(* whose process stops, is run again from its start until its retries are  *)
(* used up. A handler keeps nothing between two deliveries.                *)
(***************************************************************************)
EXTENDS Integers, FiniteSets

CONSTANTS
  Jobs,        \* rows of workflow_jobs of the run
  Needs,       \* the jobs a job needs; nothing for every job behind domainJobRepoAdapter
  ActJobs,     \* jobs whose runs-on labels make act run them
  Runners,     \* self-hosted runners
  Serves,      \* the jobs a runner has all labels of
  Workers,     \* worker goroutines of the asynq server
  MaxTries,    \* deliveries of a task, 1 + MaxRetry (6 in the code)
  Requests,    \* tasks other parts of the system may enqueue: kind, job, number
  MaxRequests, \* bound: how many of them they do enqueue
  MaxFaults    \* bound: handlers that fail at some step or whose process stops

ASSUME WorkflowQueueAssumption ==
  /\ Needs \in [Jobs -> SUBSET Jobs]
  /\ ActJobs \subseteq Jobs
  /\ Serves \in [Runners -> SUBSET Jobs]
  /\ MaxTries \in Nat \ {0}
  /\ Requests \subseteq {"dispatch", "cancel"} \X Jobs \X Nat
  /\ MaxRequests \in Nat
  /\ MaxFaults \in Nat

VARIABLES
  run,        \* the row of workflow_runs
  job,        \* the rows of workflow_jobs
  online,     \* runners whose last heartbeat said online
  queue,      \* how often a task waits in redis
  worker,     \* what a worker goroutine is doing
  asked,      \* history: the requests that were enqueued
  faults,     \* history: how many handlers failed or stopped
  succeeded,  \* history: jobs that were completed with success
  acquired,   \* history: how often a job was given to a runner
  excuse      \* history: why the row of the run may be wrong in the end

vars == <<run, job, online, queue, worker, asked, faults, succeeded, acquired, excuse>>
\* What only a few actions write.
envVars == <<online, asked, faults>>
histVars == <<succeeded, acquired, excuse>>

JobStatus == {"queued", "in_progress", "completed", "failed", "cancelled"}
JobConclusion == {"", "success", "failure", "timed_out"}
RunConclusion == {"", "success", "failure", "cancelled"}
Nobody == "nobody"

Task == [kind: {"schedule"}, tries: 1..MaxTries]
          \union [kind: {"exec", "dispatch", "cancel"}, job: Jobs, tries: 1..MaxTries]

ScheduleTask == [kind |-> "schedule", tries |-> 1]
JobTask(kind, j) == [kind |-> kind, job |-> j, tries |-> 1]

At == {"list", "enqueue", "progress", "conclude", "mark", "execute", "finish", "next",
       "load", "act", "complete", "find", "acquire", "cancelRow", "fail", "ack"}
Idle == [at |-> "idle"]
\* The task a worker has, and what its handler has read so far.
Busy == [at: At, task: Task, ready: SUBSET Jobs, verdict: RunConclusion,
         result: JobConclusion, lock: Nat, runner: Runners \union {Nobody}]

TypeOK ==
  /\ run \in [status: {"queued", "in_progress", "completed"}, conclusion: RunConclusion]
  /\ job \in [Jobs -> [status: JobStatus, conclusion: JobConclusion,
                       runner: Runners \union {Nobody}, lock: Nat]]
  /\ online \subseteq Runners
  /\ queue \in [Task -> Nat]
  /\ worker \in [Workers -> {Idle} \union Busy]
  /\ asked \subseteq Requests
  /\ faults \in 0..MaxFaults
  /\ succeeded \subseteq Jobs
  /\ acquired \in [Jobs -> Nat]
  /\ excuse \subseteq {"overlap", "gaveUp", "outside"}

Init ==
  /\ run = [status |-> "queued", conclusion |-> ""]
  /\ job = [j \in Jobs |-> [status |-> "queued", conclusion |-> "", runner |-> Nobody, lock |-> 0]]
  /\ online = {}
  /\ queue = [t \in Task |-> IF t = ScheduleTask THEN 1 ELSE 0]
  /\ worker = [w \in Workers |-> Idle]
  /\ asked = {}
  /\ faults = 0
  /\ succeeded = {}
  /\ acquired = [j \in Jobs |-> 0]
  /\ excuse = {}

-----------------------------------------------------------------------------
(* asynq. *)

Put(t) == queue' = [queue EXCEPT ![t] = @ + 1]

FirstStep(kind) ==
  CASE kind = "schedule" -> "list" [] kind = "exec" -> "mark"
    [] kind = "dispatch" -> "load" [] kind = "cancel" -> "cancelRow"

Begin(t) == [at |-> FirstStep(t.kind), task |-> t, ready |-> {}, verdict |-> "",
             result |-> "", lock |-> 0, runner |-> Nobody]

Deliver(w, t) ==
  /\ worker[w] = Idle
  /\ queue[t] > 0
  /\ queue' = [queue EXCEPT ![t] = @ - 1]
  /\ worker' = [worker EXCEPT ![w] = Begin(t)]
  /\ UNCHANGED <<run, job, envVars, histVars>>

\* The handler goes on; what it read is kept in `with`.
Goto(w, at) == worker' = [worker EXCEPT ![w] = [Begin(@.task) EXCEPT !.at = at]]
GotoWith(w, at, with) == worker' = [worker EXCEPT ![w] = [with EXCEPT !.at = at]]

\* The handler has returned nil: asynq removes the task.
Ack(w) ==
  /\ worker[w].at = "ack"
  /\ worker' = [worker EXCEPT ![w] = Idle]
  /\ UNCHANGED <<run, job, queue, envVars, histVars>>

\* The task waits again or, its retries used up, is archived.
Retry(w) ==
  LET t == worker[w].task IN
  /\ worker' = [worker EXCEPT ![w] = Idle]
  /\ IF t.tries < MaxTries
       THEN Put([t EXCEPT !.tries = @ + 1]) /\ UNCHANGED excuse
       ELSE excuse' = excuse \union {"gaveUp"} /\ UNCHANGED queue

\* The handler returns an error of its own.
ReturnError(w) ==
  /\ worker[w].at = "fail"
  /\ Retry(w)
  /\ UNCHANGED <<run, job, envVars, succeeded, acquired>>

\* A query, an enqueue, the secrets or the log fail, or the process stops, at
\* any point of the handler: what it did before stays done.
Fault(w) ==
  /\ faults < MaxFaults
  /\ worker[w] # Idle
  /\ faults' = faults + 1
  /\ Retry(w)
  /\ UNCHANGED <<run, job, online, asked, succeeded, acquired>>

-----------------------------------------------------------------------------
(* HandleWorkflowSchedule. *)

\* Mutant of isNeedSatisfied: the conclusion is not looked at.
isNeedSatisfiedByAnyEnd(j) == job[j].status = "completed"

isNeedSatisfied(j) == job[j].status = "completed" /\ job[j].conclusion = "success"

findReadyJobs ==
  {j \in Jobs : job[j].status = "queued" /\ \A k \in Needs[j] : isNeedSatisfied(k)}

allJobsTerminal == \A j \in Jobs : job[j].status \in {"completed", "failed", "cancelled"}

\* Mutant of computeRunConclusion: a job that timed out is forgotten.
computeRunConclusionNoTimeout ==
  IF \E j \in Jobs : job[j].status = "failed" \/ job[j].conclusion = "failure"
    THEN "failure"
    ELSE IF \E j \in Jobs : job[j].status = "cancelled" THEN "cancelled" ELSE "success"

computeRunConclusion ==
  IF \E j \in Jobs : job[j].status = "failed" \/ job[j].conclusion \in {"failure", "timed_out"}
    THEN "failure"
    ELSE IF \E j \in Jobs : job[j].status = "cancelled" THEN "cancelled" ELSE "success"

\* What the rows of this moment say: without a ready job, jobs that are still
\* in progress count as a deadlock.
Verdict == IF allJobsTerminal THEN computeRunConclusion ELSE "failure"

Scheduling(w) == worker[w].at \in {"enqueue", "progress", "conclude"}

ListJobs(w) ==
  /\ worker[w].at = "list"
  /\ IF findReadyJobs # {}
       THEN GotoWith(w, "enqueue", [worker[w] EXCEPT !.ready = findReadyJobs])
       ELSE GotoWith(w, "conclude", [worker[w] EXCEPT !.verdict = Verdict])
  /\ excuse' = IF \E v \in Workers : Scheduling(v) THEN excuse \union {"overlap"} ELSE excuse
  /\ UNCHANGED <<run, job, queue, envVars, succeeded, acquired>>

EnqueueJobExec(w, j) ==
  /\ worker[w].at = "enqueue"
  /\ j \in worker[w].ready
  /\ Put(JobTask("exec", j))
  /\ GotoWith(w, IF worker[w].ready = {j} THEN "progress" ELSE "enqueue",
              [worker[w] EXCEPT !.ready = @ \ {j}])
  /\ UNCHANGED <<run, job, envVars, histVars>>

\* Mutant of UpdateRunStatus: a status no reader knows.
UpdateRunStatusUnknown(w) ==
  /\ worker[w].at = "progress"
  /\ run' = [run EXCEPT !.status = "running"]
  /\ Goto(w, "ack")
  /\ UNCHANGED <<job, queue, envVars, histVars>>

UpdateRunStatus(w) ==
  /\ worker[w].at = "progress"
  /\ run' = [run EXCEPT !.status = "in_progress"]
  /\ Goto(w, "ack")
  /\ UNCHANGED <<job, queue, envVars, histVars>>

UpdateRunConclusion(w) ==
  /\ worker[w].at = "conclude"
  /\ run' = [status |-> "completed", conclusion |-> worker[w].verdict]
  /\ Goto(w, "ack")
  /\ UNCHANGED <<job, queue, envVars, histVars>>

-----------------------------------------------------------------------------
(* HandleWorkflowJobExec. *)

Job(w) == worker[w].task.job

\* The status the row has is not asked for before it is set to in_progress.
SetInProgress(w) ==
  /\ worker[w].at = "mark"
  /\ job' = [job EXCEPT ![Job(w)].status = "in_progress", ![Job(w)].conclusion = ""]
  /\ Goto(w, "execute")
  /\ UNCHANGED <<run, queue, envVars, histVars>>

ExecuteJob(w, result) ==
  /\ worker[w].at = "execute"
  /\ GotoWith(w, "finish", [worker[w] EXCEPT !.result = result])
  /\ UNCHANGED <<run, job, queue, envVars, histVars>>

\* Complete updates a row that is in progress and no other.
Complete(j, conclusion) ==
  /\ job[j].status = "in_progress"
  /\ job' = [job EXCEPT ![j].status = "completed", ![j].conclusion = conclusion]
  /\ succeeded' = IF conclusion = "success" THEN succeeded \union {j} ELSE succeeded

\* Mutant of FinishJob: the next schedule task is forgotten.
FinishJobSilently(w) ==
  LET j == Job(w)  result == worker[w].result IN
  /\ worker[w].at = "finish"
  /\ \/ /\ result = "failure"
        /\ job' = [job EXCEPT ![j].status = "failed", ![j].conclusion = "failure"]
        /\ UNCHANGED succeeded
     \/ result # "failure" /\ Complete(j, result)
  /\ Goto(w, "ack")
  /\ UNCHANGED <<run, queue, envVars, acquired, excuse>>

\* A failed job is written by UpdateStatus, without a condition; any other
\* result by Complete, which fails on a row that somebody else has ended.
FinishJob(w) ==
  LET j == Job(w)  result == worker[w].result IN
  /\ worker[w].at = "finish"
  /\ \/ /\ result = "failure"
        /\ job' = [job EXCEPT ![j].status = "failed", ![j].conclusion = "failure"]
        /\ Goto(w, "next")
        /\ UNCHANGED succeeded
     \/ result # "failure" /\ Complete(j, result) /\ Goto(w, "next")
     \/ /\ result # "failure" /\ job[j].status # "in_progress"
        /\ Goto(w, "fail")
        /\ UNCHANGED <<job, succeeded>>
  /\ UNCHANGED <<run, queue, envVars, acquired, excuse>>

EnqueueSchedule(w) ==
  /\ worker[w].at = "next"
  /\ Put(ScheduleTask)
  /\ Goto(w, "ack")
  /\ UNCHANGED <<run, job, envVars, histVars>>

-----------------------------------------------------------------------------
(* HandleDispatchJob and HandleCancelJob, and who enqueues them. *)

Request(r) ==
  /\ r \in Requests \ asked
  /\ Cardinality(asked) < MaxRequests
  /\ asked' = asked \union {r}
  /\ Put(JobTask(r[1], r[2]))
  /\ UNCHANGED <<run, job, worker, online, faults, histVars>>

\* The status of the row is not looked at, its lock version is kept.
DispatchLoad(w) ==
  /\ worker[w].at = "load"
  /\ IF Job(w) \in ActJobs
       THEN Goto(w, "act")
       ELSE GotoWith(w, "find", [worker[w] EXCEPT !.lock = job[Job(w)].lock])
  /\ UNCHANGED <<run, job, queue, envVars, histVars>>

ActExecute(w, result) ==
  /\ worker[w].at = "act"
  /\ GotoWith(w, "complete", [worker[w] EXCEPT !.result = result])
  /\ UNCHANGED <<run, job, queue, envVars, histVars>>

\* A failure of act is recorded and then returned: the job runs again. Nobody
\* set the row to in_progress, unless the exec handler has the job as well.
ActComplete(w) ==
  LET j == Job(w)  result == worker[w].result IN
  /\ worker[w].at = "complete"
  /\ \/ /\ Complete(j, result)
        /\ Goto(w, IF result = "success" THEN "ack" ELSE "fail")
        /\ excuse' = excuse \union {"outside"}
     \/ /\ job[j].status # "in_progress"
        /\ Goto(w, "fail")
        /\ UNCHANGED <<job, succeeded, excuse>>
  /\ UNCHANGED <<run, queue, envVars, acquired>>

\* scheduleDispatchRetry: the same payload again, as a new task.
DispatchLater(w) == Put(JobTask("dispatch", Job(w))) /\ Goto(w, "ack")

\* The oldest runner that fits; age is left out.
FindRunner(w) ==
  LET able == {r \in online : Job(w) \in Serves[r]} IN
  /\ worker[w].at = "find"
  /\ \/ able = {} /\ DispatchLater(w)
     \/ \E r \in able : GotoWith(w, "acquire", [worker[w] EXCEPT !.runner = r]) /\ UNCHANGED queue
  /\ UNCHANGED <<run, job, envVars, histVars>>

\* Mutant of mayAcquire: neither version nor queued is asked for any more.
mayAcquireAnyVersion(w) == job[Job(w)].status \in {"queued", "in_progress"}

mayAcquire(w) == job[Job(w)].status = "queued" /\ job[Job(w)].lock = worker[w].lock

AcquireForRunner(w) ==
  LET j == Job(w)  r == worker[w].runner IN
  /\ worker[w].at = "acquire"
  /\ IF mayAcquire(w)
       THEN /\ job' = [job EXCEPT ![j].status = "in_progress", ![j].runner = r, ![j].lock = @ + 1]
            /\ acquired' = [acquired EXCEPT ![j] = @ + 1]
            /\ excuse' = excuse \union {"outside"}
            /\ Goto(w, "ack")
            /\ UNCHANGED queue
       ELSE DispatchLater(w) /\ UNCHANGED <<job, acquired, excuse>>
  /\ UNCHANGED <<run, envVars, succeeded>>

\* A row that is not queued or in progress makes the task fail and come again.
CancelRow(w) ==
  LET j == Job(w) IN
  /\ worker[w].at = "cancelRow"
  /\ IF job[j].status \in {"queued", "in_progress"}
       THEN /\ job' = [job EXCEPT ![j].status = "cancelled"]
            /\ excuse' = excuse \union {"outside"}
            /\ Goto(w, "ack")
       ELSE Goto(w, "fail") /\ UNCHANGED <<job, excuse>>
  /\ UNCHANGED <<run, queue, envVars, succeeded, acquired>>

Heartbeat(r) ==
  /\ online' \in {online \union {r}, online \ {r}}
  /\ UNCHANGED <<run, job, queue, worker, asked, faults, histVars>>

-----------------------------------------------------------------------------
WorkerStep(w) ==
  \/ ListJobs(w)
  \/ \E j \in Jobs : EnqueueJobExec(w, j)
  \/ UpdateRunStatus(w)
  \/ UpdateRunConclusion(w)
  \/ SetInProgress(w)
  \/ \E result \in {"success", "failure", "timed_out"} : ExecuteJob(w, result)
  \/ FinishJob(w)
  \/ EnqueueSchedule(w)
  \/ DispatchLoad(w)
  \/ \E result \in {"success", "failure"} : ActExecute(w, result)
  \/ ActComplete(w)
  \/ FindRunner(w)
  \/ AcquireForRunner(w)
  \/ CancelRow(w)
  \/ ReturnError(w)
  \/ Ack(w)

Next ==
  \/ \E w \in Workers, t \in Task : Deliver(w, t)
  \/ \E w \in Workers : WorkerStep(w) \/ Fault(w)
  \/ \E r \in Requests : Request(r)
  \/ \E r \in Runners : Heartbeat(r)

Spec == Init /\ [][Next]_vars

-----------------------------------------------------------------------------
(* Properties. *)

\* However often tasks are repeated and rows set back to in_progress, a job is only executed
\* after each job it needs was once completed with success; and the status and the lock
\* version give a job to a runner once and never again, however it is dispatched, cancelled
\* and executed at the same time.
JobsStartRight ==
  /\ \A w \in Workers : worker[w].at = "execute" => Needs[Job(w)] \subseteq succeeded
  /\ \A j \in Jobs : acquired[j] <= 1

\* A run that shows success had every job completed with success at some time,
\* although the verdict is written some steps after the rows were read.
GreenRunEarned == run.conclusion = "success" => succeeded = Jobs

Quiet == (\A t \in Task : queue[t] = 0) /\ (\A w \in Workers : worker[w] = Idle)

\* When no task is left, the row of the run says what the rows of the jobs say,
\* unless two schedule handlers overlapped, a task ran out of retries, or the
\* dispatch or cancel handlers changed a job (they schedule nothing).
VerdictAtRest ==
  Quiet /\ excuse = {} => run = [status |-> "completed", conclusion |-> Verdict]
=============================================================================
