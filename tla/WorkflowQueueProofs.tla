------------------------ MODULE WorkflowQueueProofs -------------------------
(* Proofs about WorkflowQueue, for any jobs, runners and workers, any      *)
(* number of deliveries, requests and faults.                              *)
EXTENDS WorkflowQueue, TLAPS

-----------------------------------------------------------------------------
(* The inductive invariants, in the parts they are proved in. *)

\* A handler is at steps of its own kind of task.
StepsOfKind ==
  \A w \in Workers : worker[w] # Idle =>
    /\ worker[w].at \in {"list", "enqueue", "progress", "conclude"} => worker[w].task.kind = "schedule"
    /\ worker[w].at \in {"mark", "execute", "finish", "next"} => worker[w].task.kind = "exec"
    /\ worker[w].at \in {"load", "act", "complete", "find", "acquire"} => worker[w].task.kind = "dispatch"
    /\ worker[w].at = "cancelRow" => worker[w].task.kind = "cancel"

\* A job is completed with a result of a handler, and if that was a success it has succeeded.
CompletedWithResult ==
  /\ \A w \in Workers : worker[w].at \in {"finish", "complete"} =>
       worker[w].result \in {"success", "failure", "timed_out"}
  /\ \A j \in Jobs : job[j].status = "completed" =>
       /\ job[j].conclusion \in {"success", "failure", "timed_out"}
       /\ job[j].conclusion = "success" => j \in succeeded

Earned(j) == Needs[j] \subseteq succeeded

\* Wherever an execution of a job waits or runs, the jobs it needs have succeeded.
ExecutionsEarned ==
  /\ \A t \in Task : t.kind = "exec" /\ queue[t] > 0 => Earned(t.job)
  /\ \A w \in Workers : worker[w] # Idle =>
       /\ worker[w].task.kind = "exec" => Earned(worker[w].task.job)
       /\ \A j \in worker[w].ready : Earned(j)

\* The lock version counts how often a job was given to a runner, and no row is ever queued
\* again.
AcquiredOnce ==
  \A j \in Jobs :
    /\ acquired[j] = job[j].lock
    /\ acquired[j] <= 1
    /\ acquired[j] = 1 => job[j].status # "queued"

VerdictsEarned ==
  /\ \A w \in Workers : worker[w] # Idle /\ worker[w].verdict = "success" => succeeded = Jobs
  /\ run.conclusion = "success" => succeeded = Jobs

\* Something is left that ends in a look at all the rows.
Pending(w) ==
  /\ worker[w] # Idle
  /\ worker[w].task.kind \in {"schedule", "exec"}
  /\ worker[w].at \notin {"ack", "progress", "conclude"}

Debt ==
  \/ \E t \in Task : t.kind \in {"schedule", "exec"} /\ queue[t] > 0
  \/ \E w \in Workers : Pending(w)

\* As long as schedule handlers do not overlap, the row of the run is right or somebody is
\* going to look again, or is about to write what it should say.
RunFollows ==
  excuse = {} =>
    /\ \A v, w \in Workers : Scheduling(v) /\ Scheduling(w) => v = w
    /\ \A w \in Workers : worker[w].at = "progress" => Debt
    /\ \A w \in Workers : worker[w].at = "conclude" => Debt \/ worker[w].verdict = Verdict
    /\ \/ Debt
       \/ \E w \in Workers : worker[w].at = "conclude"
       \/ run = [status |-> "completed", conclusion |-> Verdict]

-----------------------------------------------------------------------------
(* What the parts of a step come to, field by field. *)

\* A handler keeps its task; a worker has one only while it is not idle.
Becomes(w, at, ready, verdict, result) ==
  /\ worker' \in [Workers -> {Idle} \union Busy]
  /\ worker'[w] \in Busy /\ worker'[w] # Idle
  /\ worker'[w].at = at /\ worker'[w].task = worker[w].task
  /\ worker'[w].ready = ready /\ worker'[w].verdict = verdict /\ worker'[w].result = result
  /\ \A v \in Workers \ {w} : worker'[v] = worker[v]

\* A worker that is not idle has a task.
LEMMA BusyWorker ==
  ASSUME TypeOK, NEW w \in Workers
  PROVE  /\ worker[w] # Idle <=> worker[w].at # "idle"
         /\ worker[w] # Idle => worker[w] \in Busy
BY DEF TypeOK, Idle, Busy, At

\* What a busy worker has in hand is well typed.
LEMMA BusyFields ==
  ASSUME NEW b \in Busy
  PROVE  /\ b.at \in At /\ b.task \in Task /\ b.ready \subseteq Jobs /\ b.verdict \in RunConclusion
         /\ b.result \in JobConclusion /\ b.lock \in Nat /\ b.runner \in Runners \union {Nobody}
         /\ b # Idle
BY DEF Busy, Idle, At

\* A task names a job unless it schedules.
LEMMA TaskFields ==
  ASSUME NEW t \in Task
  PROVE  /\ t.tries \in 1..MaxTries /\ t.kind \in {"schedule", "exec", "dispatch", "cancel"}
         /\ t.kind # "schedule" => t.job \in Jobs
BY DEF Task

\* The tasks that are enqueued are tasks of their kind and job.
LEMMA NewTasks ==
  /\ ScheduleTask \in Task /\ ScheduleTask.kind = "schedule"
  /\ \A j \in Jobs, kind \in {"exec", "dispatch", "cancel"} :
       JobTask(kind, j) \in Task /\ JobTask(kind, j).kind = kind /\ JobTask(kind, j).job = j
BY WorkflowQueueAssumption DEF ScheduleTask, JobTask, Task

\* A retried task is a task of the same kind and job.
LEMMA RetriedTask ==
  ASSUME NEW t \in Task, t.tries < MaxTries
  PROVE  LET u == [t EXCEPT !.tries = @ + 1] IN
         u \in Task /\ u.kind = t.kind /\ (t.kind # "schedule" => u.job = t.job)
BY WorkflowQueueAssumption DEF Task

\* A handler begins at the first step of its kind, with nothing in hand.
LEMMA BeginBusy ==
  ASSUME NEW t \in Task
  PROVE  /\ Begin(t) \in Busy /\ Begin(t).at = FirstStep(t.kind) /\ Begin(t).task = t
         /\ Begin(t).ready = {} /\ Begin(t).verdict = "" /\ Begin(t).result = ""
<1>1. FirstStep(t.kind) \in At
  BY TaskFields DEF FirstStep, At
<1>2. QED
  BY <1>1 DEF Begin, Busy, RunConclusion, JobConclusion

\* A handler that moves keeps what it has in hand.
LEMMA MovedBusy ==
  ASSUME NEW b \in Busy, NEW at \in At
  PROVE  LET c == [b EXCEPT !.at = at] IN
         /\ c \in Busy /\ c.at = at /\ c.task = b.task /\ c.ready = b.ready
         /\ c.verdict = b.verdict /\ c.result = b.result
BY DEF Busy

\* A worker that is set keeps its task.
LEMMA WorkerSet ==
  ASSUME TypeOK, NEW w \in Workers, NEW b \in Busy, worker' = [worker EXCEPT ![w] = b],
         b.task = worker[w].task
  PROVE  Becomes(w, b.at, b.ready, b.verdict, b.result)
BY BusyFields DEF TypeOK, Becomes

\* Going to a step drops what was in hand.
LEMMA GotoBecomes ==
  ASSUME TypeOK, NEW w \in Workers, worker[w] # Idle, NEW at \in At, Goto(w, at)
  PROVE  Becomes(w, at, {}, "", "")
<1> DEFINE b == Begin(worker[w].task)
           c == [b EXCEPT !.at = at]
<1>1. worker[w].task \in Task
  BY BusyWorker, BusyFields
<1>2. /\ b \in Busy /\ b.task = worker[w].task /\ b.ready = {} /\ b.verdict = "" /\ b.result = ""
  BY <1>1, BeginBusy
<1>3. worker' = [worker EXCEPT ![w] = c]
  BY DEF Goto
<1> HIDE DEF b
<1>4. /\ c \in Busy /\ c.at = at /\ c.task = worker[w].task /\ c.ready = {} /\ c.verdict = ""
      /\ c.result = ""
  BY <1>2, MovedBusy
<1> HIDE DEF c
<1>5. Becomes(w, c.at, c.ready, c.verdict, c.result)
  BY <1>3, <1>4, WorkerSet
<1>6. QED
  BY <1>4, <1>5

\* Going to a step with something in hand keeps it.
LEMMA GotoWithBecomes ==
  ASSUME TypeOK, NEW w \in Workers, NEW at \in At, NEW b \in Busy, b.task = worker[w].task,
         GotoWith(w, at, b)
  PROVE  Becomes(w, at, b.ready, b.verdict, b.result)
<1> DEFINE c == [b EXCEPT !.at = at]
<1>1. worker' = [worker EXCEPT ![w] = c]
  BY DEF GotoWith
<1>2. /\ c \in Busy /\ c.at = at /\ c.task = worker[w].task /\ c.ready = b.ready
      /\ c.verdict = b.verdict /\ c.result = b.result
  BY MovedBusy
<1> HIDE DEF c
<1>3. Becomes(w, c.at, c.ready, c.verdict, c.result)
  BY <1>1, <1>2, WorkerSet
<1>4. QED
  BY <1>2, <1>3

\* Enqueuing adds one task and nothing else.
LEMMA PutQueues ==
  ASSUME TypeOK, NEW t \in Task, Put(t)
  PROVE  /\ queue' \in [Task -> Nat]
         /\ \A u \in Task : queue'[u] > 0 <=> queue[u] > 0 \/ u = t
BY DEF TypeOK, Put

\* A handler notes one thing it has read.
LEMMA NotedBusy ==
  ASSUME NEW b \in Busy, NEW R \in SUBSET Jobs, NEW v \in RunConclusion, NEW r \in JobConclusion,
         NEW l \in Nat, NEW n \in Runners
  PROVE  /\ LET c == [b EXCEPT !.ready = R] IN
              c \in Busy /\ c.task = b.task /\ c.ready = R /\ c.verdict = b.verdict /\ c.result = b.result
         /\ LET c == [b EXCEPT !.verdict = v] IN
              c \in Busy /\ c.task = b.task /\ c.ready = b.ready /\ c.verdict = v /\ c.result = b.result
         /\ LET c == [b EXCEPT !.result = r] IN
              c \in Busy /\ c.task = b.task /\ c.ready = b.ready /\ c.verdict = b.verdict /\ c.result = r
         /\ LET c == [b EXCEPT !.lock = l] IN
              c \in Busy /\ c.task = b.task /\ c.ready = b.ready /\ c.verdict = b.verdict /\ c.result = b.result
         /\ LET c == [b EXCEPT !.runner = n] IN
              c \in Busy /\ c.task = b.task /\ c.ready = b.ready /\ c.verdict = b.verdict /\ c.result = b.result
BY DEF Busy

\* A verdict is a conclusion.
LEMMA VerdictType == Verdict \in {"success", "failure", "cancelled"}
BY DEF Verdict, computeRunConclusion

\* The reading of the rows gives jobs to enqueue or a verdict.
LEMMA ListsJobs ==
  ASSUME TypeOK, NEW w \in Workers, ListJobs(w)
  PROVE  \/ /\ findReadyJobs # {}
            /\ Becomes(w, "enqueue", findReadyJobs, worker[w].verdict, worker[w].result)
         \/ /\ findReadyJobs = {}
            /\ Becomes(w, "conclude", worker[w].ready, Verdict, worker[w].result)
<1>1. worker[w] \in Busy
  BY BusyWorker DEF ListJobs
<1>2. findReadyJobs \in SUBSET Jobs /\ Verdict \in RunConclusion
  BY VerdictType DEF findReadyJobs, RunConclusion
<1>3. CASE findReadyJobs # {}
  <2> DEFINE b == [worker[w] EXCEPT !.ready = findReadyJobs]
  <2>1. /\ b \in Busy /\ b.task = worker[w].task /\ b.ready = findReadyJobs
        /\ b.verdict = worker[w].verdict /\ b.result = worker[w].result
    BY <1>1, <1>2, NotedBusy DEF Busy
  <2>2. GotoWith(w, "enqueue", b)
    BY <1>3 DEF ListJobs
  <2> HIDE DEF b
  <2>3. QED
    BY <1>3, <2>1, <2>2, GotoWithBecomes DEF At
<1>4. CASE findReadyJobs = {}
  <2> DEFINE b == [worker[w] EXCEPT !.verdict = Verdict]
  <2>1. /\ b \in Busy /\ b.task = worker[w].task /\ b.ready = worker[w].ready
        /\ b.verdict = Verdict /\ b.result = worker[w].result
    BY <1>1, <1>2, NotedBusy DEF Busy
  <2>2. GotoWith(w, "conclude", b)
    BY <1>4 DEF ListJobs
  <2> HIDE DEF b
  <2>3. QED
    BY <1>4, <2>1, <2>2, GotoWithBecomes DEF At
<1>5. QED
  BY <1>3, <1>4

\* Ready jobs are enqueued one by one.
LEMMA EnqueuesJobExec ==
  ASSUME TypeOK, NEW w \in Workers, NEW j \in Jobs, EnqueueJobExec(w, j)
  PROVE  Becomes(w, IF worker[w].ready = {j} THEN "progress" ELSE "enqueue", worker[w].ready \ {j},
                 worker[w].verdict, worker[w].result)
<1> DEFINE b == [worker[w] EXCEPT !.ready = @ \ {j}]
           at == IF worker[w].ready = {j} THEN "progress" ELSE "enqueue"
<1>1. worker[w] \in Busy /\ worker[w].ready \in SUBSET Jobs
  BY BusyWorker, BusyFields DEF EnqueueJobExec
<1>2. /\ b \in Busy /\ b.task = worker[w].task /\ b.ready = worker[w].ready \ {j}
      /\ b.verdict = worker[w].verdict /\ b.result = worker[w].result
  BY <1>1 DEF Busy
<1>3. GotoWith(w, at, b)
  BY DEF EnqueueJobExec
<1>4. at \in At
  BY DEF At
<1> HIDE DEF b, at
<1>5. Becomes(w, at, b.ready, b.verdict, b.result)
  BY <1>2, <1>3, <1>4, GotoWithBecomes
<1>6. QED
  BY <1>2, <1>5 DEF at

\* A handler notes the result of its job.
LEMMA NotesResult ==
  ASSUME TypeOK, NEW w \in Workers, worker[w] # Idle, NEW result \in JobConclusion, NEW at \in At,
         GotoWith(w, at, [worker[w] EXCEPT !.result = result])
  PROVE  Becomes(w, at, worker[w].ready, worker[w].verdict, result)
<1> DEFINE b == [worker[w] EXCEPT !.result = result]
<1>1. /\ b \in Busy /\ b.task = worker[w].task /\ b.ready = worker[w].ready
      /\ b.verdict = worker[w].verdict /\ b.result = result
  BY BusyWorker DEF Busy
<1>2. GotoWith(w, at, b)
  OBVIOUS
<1> HIDE DEF b
<1>3. QED
  BY <1>1, <1>2, GotoWithBecomes

\* The job of a handler that has one.
LEMMA JobKnown ==
  ASSUME TypeOK, StepsOfKind, NEW w \in Workers,
         worker[w].at \in {"mark", "execute", "finish", "next", "load", "act", "complete", "find",
                           "acquire", "cancelRow"}
  PROVE  Job(w) \in Jobs /\ worker[w] # Idle /\ worker[w].task \in Task /\ worker[w].task.kind # "schedule"
<1>1. worker[w] # Idle /\ worker[w] \in Busy
  BY BusyWorker
<1>2. worker[w].task \in Task /\ worker[w].task.kind # "schedule"
  BY <1>1, BusyFields DEF StepsOfKind
<1>3. QED
  BY <1>1, <1>2, TaskFields DEF Job

\* A dispatch has act execute the job, or looks for a runner.
LEMMA LoadsDispatch ==
  ASSUME TypeOK, StepsOfKind, NEW w \in Workers, DispatchLoad(w)
  PROVE  \/ Becomes(w, "act", {}, "", "")
         \/ Becomes(w, "find", worker[w].ready, worker[w].verdict, worker[w].result)
<1>1. worker[w] \in Busy /\ worker[w] # Idle /\ Job(w) \in Jobs
  BY BusyWorker, JobKnown DEF DispatchLoad
<1>2. CASE Job(w) \in ActJobs
  BY <1>1, <1>2, GotoBecomes DEF DispatchLoad, At
<1>3. CASE Job(w) \notin ActJobs
  <2> DEFINE b == [worker[w] EXCEPT !.lock = job[Job(w)].lock]
  <2>1. job[Job(w)].lock \in Nat
    BY <1>1 DEF TypeOK
  <2>2. /\ b \in Busy /\ b.task = worker[w].task /\ b.ready = worker[w].ready
        /\ b.verdict = worker[w].verdict /\ b.result = worker[w].result
    BY <1>1, <2>1 DEF Busy
  <2>3. GotoWith(w, "find", b)
    BY <1>3 DEF DispatchLoad
  <2> HIDE DEF b
  <2>4. Becomes(w, "find", b.ready, b.verdict, b.result)
    BY <2>2, <2>3, GotoWithBecomes DEF At
  <2>5. QED
    BY <2>2, <2>4
<1>4. QED
  BY <1>2, <1>3

\* A dispatch finds a runner, or puts itself back.
LEMMA FindsRunner ==
  ASSUME TypeOK, StepsOfKind, NEW w \in Workers, FindRunner(w)
  PROVE  \/ Becomes(w, "ack", {}, "", "") /\ Put(JobTask("dispatch", Job(w)))
         \/ /\ Becomes(w, "acquire", worker[w].ready, worker[w].verdict, worker[w].result)
            /\ queue' = queue
<1>1. worker[w] \in Busy /\ worker[w] # Idle /\ Job(w) \in Jobs
  BY BusyWorker, JobKnown DEF FindRunner
<1>2. CASE DispatchLater(w)
  BY <1>1, <1>2, GotoBecomes DEF DispatchLater, At
<1>3. ASSUME NEW r \in Runners, GotoWith(w, "acquire", [worker[w] EXCEPT !.runner = r])
      PROVE  Becomes(w, "acquire", worker[w].ready, worker[w].verdict, worker[w].result)
  <2> DEFINE b == [worker[w] EXCEPT !.runner = r]
  <2>1. /\ b \in Busy /\ b.task = worker[w].task /\ b.ready = worker[w].ready
        /\ b.verdict = worker[w].verdict /\ b.result = worker[w].result
    BY <1>1 DEF Busy
  <2>2. GotoWith(w, "acquire", b)
    BY <1>3
  <2> HIDE DEF b
  <2>3. Becomes(w, "acquire", b.ready, b.verdict, b.result)
    BY <2>1, <2>2, GotoWithBecomes DEF At
  <2>4. QED
    BY <2>1, <2>3
<1>4. online \subseteq Runners
  BY DEF TypeOK
<1>5. QED
  BY <1>2, <1>3, <1>4 DEF FindRunner

\* A worker that is through with its task, one way or another.
Leaves(w) ==
  /\ worker' \in [Workers -> {Idle} \union Busy]
  /\ worker'[w] = Idle
  /\ \A v \in Workers \ {w} : worker'[v] = worker[v]

\* A handler that fails leaves its worker, and puts its task back or gives up.
LEMMA RetryLeaves ==
  ASSUME TypeOK, NEW w \in Workers, worker[w] # Idle, Retry(w)
  PROVE  /\ Leaves(w) /\ queue' \in [Task -> Nat] /\ excuse' \subseteq {"overlap", "gaveUp", "outside"}
         /\ \/ "gaveUp" \in excuse' /\ queue' = queue
            \/ /\ excuse' = excuse
               /\ \E t \in Task :
                    /\ t.kind = worker[w].task.kind
                    /\ t.kind # "schedule" => t.job = worker[w].task.job
                    /\ \A u \in Task : queue'[u] > 0 <=> queue[u] > 0 \/ u = t
<1> DEFINE t == worker[w].task
           u == [t EXCEPT !.tries = @ + 1]
<1>1. t \in Task
  BY BusyWorker, BusyFields
<1>2. Leaves(w)
  BY DEF Retry, Leaves, TypeOK
<1>3. CASE t.tries < MaxTries
  <2>1. u \in Task /\ u.kind = t.kind /\ (t.kind # "schedule" => u.job = t.job)
    BY <1>1, <1>3, RetriedTask
  <2>2. Put(u) /\ excuse' = excuse
    BY <1>3 DEF Retry
  <2> HIDE DEF t, u
  <2>3. queue' \in [Task -> Nat] /\ \A x \in Task : queue'[x] > 0 <=> queue[x] > 0 \/ x = u
    BY <2>1, <2>2, PutQueues
  <2>4. QED
    BY <1>2, <2>1, <2>2, <2>3 DEF t, TypeOK
<1>4. CASE ~(t.tries < MaxTries)
  BY <1>2, <1>4 DEF Retry, TypeOK
<1>5. QED
  BY <1>3, <1>4

\* A delivery takes a waiting task and begins its handler.
LEMMA DeliverBegins ==
  ASSUME TypeOK, NEW w \in Workers, NEW t \in Task, Deliver(w, t)
  PROVE  /\ worker' \in [Workers -> {Idle} \union Busy]
         /\ worker'[w] \in Busy /\ worker'[w] # Idle
         /\ worker'[w].at = FirstStep(t.kind) /\ worker'[w].task = t /\ worker'[w].ready = {}
         /\ worker'[w].verdict = "" /\ worker'[w].result = ""
         /\ \A v \in Workers \ {w} : worker'[v] = worker[v]
         /\ queue' \in [Task -> Nat] /\ queue[t] > 0
         /\ \A u \in Task : queue'[u] > 0 => queue[u] > 0
         /\ \A u \in Task \ {t} : queue'[u] = queue[u]
<1> DEFINE b == Begin(t)
<1>1. /\ b \in Busy /\ b.at = FirstStep(t.kind) /\ b.task = t /\ b.ready = {}
      /\ b.verdict = "" /\ b.result = ""
  BY BeginBusy
<1>2. worker' = [worker EXCEPT ![w] = b]
  BY DEF Deliver
<1> HIDE DEF b
<1>3. b # Idle
  BY <1>1, BusyFields
<1>4. /\ queue' \in [Task -> Nat] /\ queue[t] > 0
      /\ \A u \in Task : queue'[u] > 0 => queue[u] > 0
      /\ \A u \in Task \ {t} : queue'[u] = queue[u]
  BY DEF Deliver, TypeOK
<1>5. QED
  BY <1>1, <1>2, <1>3, <1>4 DEF TypeOK

-----------------------------------------------------------------------------
(* Type correctness. *)

\* Completing a job writes its row, and a success goes down in history.
LEMMA CompletesJob ==
  ASSUME TypeOK, NEW j \in Jobs, NEW conclusion \in JobConclusion, Complete(j, conclusion)
  PROVE  /\ job' \in [Jobs -> [status: JobStatus, conclusion: JobConclusion,
                               runner: Runners \union {Nobody}, lock: Nat]]
         /\ job'[j].status = "completed" /\ job'[j].conclusion = conclusion
         /\ job'[j].lock = job[j].lock
         /\ \A k \in Jobs \ {j} : job'[k] = job[k]
         /\ succeeded' \subseteq Jobs /\ succeeded \subseteq succeeded'
         /\ conclusion = "success" => j \in succeeded'
<1>1. job' = [job EXCEPT ![j] = [job[j] EXCEPT !.status = "completed", !.conclusion = conclusion]]
  BY DEF Complete, TypeOK
<1>2. job[j] \in [status: JobStatus, conclusion: JobConclusion, runner: Runners \union {Nobody}, lock: Nat]
  BY DEF TypeOK
<1>3. [job[j] EXCEPT !.status = "completed", !.conclusion = conclusion]
        \in [status: JobStatus, conclusion: JobConclusion, runner: Runners \union {Nobody}, lock: Nat]
  BY <1>2 DEF JobStatus
<1>4. succeeded' \subseteq Jobs /\ succeeded \subseteq succeeded' /\ (conclusion = "success" => j \in succeeded')
  BY DEF Complete, TypeOK
<1>5. QED
  BY <1>1, <1>2, <1>3, <1>4 DEF TypeOK

\* What a step of a handler does to the rows of the jobs.
JobRow == [status: JobStatus, conclusion: JobConclusion, runner: Runners \union {Nobody}, lock: Nat]

\* A write to a job row leaves the other rows alone.
LEMMA RowWritten ==
  ASSUME TypeOK, NEW j \in Jobs, NEW new \in JobRow, job' = [job EXCEPT ![j] = new]
  PROVE  job' \in [Jobs -> JobRow] /\ job'[j] = new /\ \A k \in Jobs \ {j} : job'[k] = job[k]
BY DEF TypeOK, JobRow

\* Before it is executed a job is marked in progress.
LEMMA MarksInProgress ==
  ASSUME TypeOK, StepsOfKind, NEW w \in Workers, SetInProgress(w)
  PROVE  /\ Job(w) \in Jobs /\ job' \in [Jobs -> JobRow]
         /\ job'[Job(w)].status = "in_progress" /\ job'[Job(w)].lock = job[Job(w)].lock
         /\ \A k \in Jobs \ {Job(w)} : job'[k] = job[k]
         /\ Becomes(w, "execute", {}, "", "")
<1> DEFINE j == Job(w)
           new == [job[j] EXCEPT !.status = "in_progress", !.conclusion = ""]
<1>1. j \in Jobs /\ worker[w] # Idle
  BY JobKnown DEF SetInProgress
<1>2. job[j] \in JobRow
  BY <1>1 DEF TypeOK, JobRow
<1>3. new \in JobRow /\ new.status = "in_progress" /\ new.lock = job[j].lock
  BY <1>2 DEF JobRow, JobStatus, JobConclusion
<1>4. job' = [job EXCEPT ![j] = new]
  BY <1>1 DEF SetInProgress, TypeOK
<1>5. Becomes(w, "execute", {}, "", "")
  BY <1>1, GotoBecomes DEF SetInProgress, At
<1> HIDE DEF new
<1>6. QED
  BY <1>1, <1>3, <1>4, <1>5, RowWritten

\* After execution a row is completed with the result, failed, or left.
LEMMA FinishesJob ==
  ASSUME TypeOK, StepsOfKind, NEW w \in Workers, FinishJob(w)
  PROVE  /\ Job(w) \in Jobs /\ job' \in [Jobs -> JobRow]
         /\ job'[Job(w)].lock = job[Job(w)].lock
         /\ \A k \in Jobs \ {Job(w)} : job'[k] = job[k]
         /\ succeeded' \subseteq Jobs /\ succeeded \subseteq succeeded'
         /\ \/ /\ Becomes(w, "next", {}, "", "")
               /\ \/ job'[Job(w)].status = "failed"
                  \/ /\ job'[Job(w)].status = "completed"
                     /\ job'[Job(w)].conclusion = worker[w].result
                     /\ worker[w].result = "success" => Job(w) \in succeeded'
            \/ Becomes(w, "fail", {}, "", "") /\ job' = job /\ succeeded' = succeeded
<1> DEFINE j == Job(w)
           result == worker[w].result
           new == [job[j] EXCEPT !.status = "failed", !.conclusion = "failure"]
<1>1. j \in Jobs /\ worker[w] # Idle /\ result \in JobConclusion
  BY JobKnown, BusyWorker, BusyFields DEF FinishJob
<1>2. job[j] \in JobRow /\ job \in [Jobs -> JobRow]
  BY <1>1 DEF TypeOK, JobRow
<1>3. CASE /\ result = "failure"
           /\ job' = [job EXCEPT ![j].status = "failed", ![j].conclusion = "failure"]
           /\ Goto(w, "next") /\ UNCHANGED succeeded
  <2>1. new \in JobRow /\ new.status = "failed" /\ new.lock = job[j].lock
    BY <1>2 DEF JobRow, JobStatus, JobConclusion
  <2>2. job' = [job EXCEPT ![j] = new]
    BY <1>1, <1>3 DEF TypeOK
  <2> HIDE DEF new
  <2>3. job' \in [Jobs -> JobRow] /\ job'[j] = new /\ \A k \in Jobs \ {j} : job'[k] = job[k]
    BY <1>1, <2>1, <2>2, RowWritten
  <2>4. Becomes(w, "next", {}, "", "")
    BY <1>1, <1>3, GotoBecomes DEF At
  <2>5. QED
    BY <1>1, <1>3, <2>1, <2>3, <2>4 DEF TypeOK
<1>4. CASE result # "failure" /\ Complete(j, result) /\ Goto(w, "next")
  <2>1. Becomes(w, "next", {}, "", "")
    BY <1>1, <1>4, GotoBecomes DEF At
  <2>2. QED
    BY <1>1, <1>4, <2>1, CompletesJob DEF JobRow
<1>5. CASE Goto(w, "fail") /\ UNCHANGED <<job, succeeded>>
  <2>1. Becomes(w, "fail", {}, "", "")
    BY <1>1, <1>5, GotoBecomes DEF At
  <2>2. QED
    BY <1>1, <1>2, <1>5, <2>1 DEF TypeOK
<1>6. QED
  BY <1>3, <1>4, <1>5 DEF FinishJob

\* After act the row is completed with its result, or left.
LEMMA ActCompletes ==
  ASSUME TypeOK, StepsOfKind, NEW w \in Workers, ActComplete(w)
  PROVE  /\ Job(w) \in Jobs /\ job' \in [Jobs -> JobRow]
         /\ job'[Job(w)].lock = job[Job(w)].lock
         /\ \A k \in Jobs \ {Job(w)} : job'[k] = job[k]
         /\ succeeded' \subseteq Jobs /\ succeeded \subseteq succeeded'
         /\ Becomes(w, "ack", {}, "", "") \/ Becomes(w, "fail", {}, "", "")
         /\ \/ /\ job'[Job(w)].status = "completed" /\ excuse' = excuse \union {"outside"}
               /\ job'[Job(w)].conclusion = worker[w].result
               /\ worker[w].result = "success" => Job(w) \in succeeded'
            \/ job' = job /\ succeeded' = succeeded /\ excuse' = excuse
<1> DEFINE j == Job(w)
           result == worker[w].result
<1>1. j \in Jobs /\ worker[w] # Idle /\ result \in JobConclusion
  BY JobKnown, BusyWorker, BusyFields DEF ActComplete
<1>2. Becomes(w, "ack", {}, "", "") \/ Becomes(w, "fail", {}, "", "")
  BY <1>1, GotoBecomes DEF ActComplete, At
<1>3. CASE Complete(j, result) /\ excuse' = excuse \union {"outside"}
  BY <1>1, <1>2, <1>3, CompletesJob DEF JobRow
<1>4. CASE UNCHANGED <<job, succeeded, excuse>>
  BY <1>1, <1>2, <1>4 DEF TypeOK, JobRow
<1>5. QED
  BY <1>3, <1>4 DEF ActComplete

\* A runner is given a queued job, whose lock version counts it.
LEMMA Acquires ==
  ASSUME TypeOK, StepsOfKind, NEW w \in Workers, AcquireForRunner(w)
  PROVE  /\ Job(w) \in Jobs /\ job' \in [Jobs -> JobRow] /\ acquired' \in [Jobs -> Nat]
         /\ Becomes(w, "ack", {}, "", "")
         /\ \/ /\ job[Job(w)].status = "queued" /\ job'[Job(w)].status = "in_progress"
               /\ job'[Job(w)].lock = job[Job(w)].lock + 1
               /\ acquired' = [acquired EXCEPT ![Job(w)] = @ + 1]
               /\ \A k \in Jobs \ {Job(w)} : job'[k] = job[k]
               /\ excuse' = excuse \union {"outside"} /\ queue' = queue
            \/ /\ job' = job /\ acquired' = acquired /\ excuse' = excuse
               /\ Put(JobTask("dispatch", Job(w)))
<1> DEFINE j == Job(w)
           r == worker[w].runner
           new == [job[j] EXCEPT !.status = "in_progress", !.runner = r, !.lock = @ + 1]
<1>1. j \in Jobs /\ worker[w] # Idle /\ r \in Runners \union {Nobody}
  BY JobKnown, BusyWorker, BusyFields DEF AcquireForRunner
<1>2. job[j] \in JobRow /\ job \in [Jobs -> JobRow] /\ acquired \in [Jobs -> Nat]
  BY <1>1 DEF TypeOK, JobRow
<1>3. Becomes(w, "ack", {}, "", "")
  BY <1>1, GotoBecomes DEF AcquireForRunner, DispatchLater, At
<1>4. CASE mayAcquire(w)
  <2>1. new \in JobRow /\ new.status = "in_progress" /\ new.lock = job[j].lock + 1
    <3> DEFINE n == job[j].lock + 1
    <3>1. n \in Nat
      BY <1>2 DEF JobRow
    <3> HIDE DEF n, r
    <3>2. [job[j] EXCEPT !.status = "in_progress", !.runner = r, !.lock = n] \in JobRow
      BY <1>1, <1>2, <3>1 DEF JobRow, JobStatus
    <3>3. new = [job[j] EXCEPT !.status = "in_progress", !.runner = r, !.lock = n]
      BY <1>2 DEF n, JobRow
    <3>4. QED
      BY <1>2, <3>2, <3>3 DEF n, JobRow
  <2>2. job' = [job EXCEPT ![j] = new]
    BY <1>1, <1>4 DEF AcquireForRunner, TypeOK
  <2> HIDE DEF new
  <2>3. job' \in [Jobs -> JobRow] /\ job'[j] = new /\ \A k \in Jobs \ {j} : job'[k] = job[k]
    BY <1>1, <2>1, <2>2, RowWritten
  <2>4. /\ acquired' = [acquired EXCEPT ![j] = @ + 1] /\ acquired' \in [Jobs -> Nat]
        /\ excuse' = excuse \union {"outside"} /\ queue' = queue /\ job[j].status = "queued"
    BY <1>2, <1>4 DEF AcquireForRunner, mayAcquire
  <2>5. job'[j].status = "in_progress" /\ job'[j].lock = job[j].lock + 1
    BY <2>1, <2>3
  <2> HIDE DEF r
  <2>6. QED
    BY <1>1, <1>3, <2>3, <2>4, <2>5
<1>5. CASE ~mayAcquire(w)
  BY <1>1, <1>2, <1>3, <1>5 DEF AcquireForRunner, DispatchLater
<1>6. QED
  BY <1>4, <1>5

\* A cancellation writes one row, or fails.
LEMMA CancelsRow ==
  ASSUME TypeOK, StepsOfKind, NEW w \in Workers, CancelRow(w)
  PROVE  /\ Job(w) \in Jobs /\ job' \in [Jobs -> JobRow]
         /\ job'[Job(w)].lock = job[Job(w)].lock
         /\ \A k \in Jobs \ {Job(w)} : job'[k] = job[k]
         /\ Becomes(w, "ack", {}, "", "") \/ Becomes(w, "fail", {}, "", "")
         /\ \/ job'[Job(w)].status = "cancelled" /\ excuse' = excuse \union {"outside"}
            \/ job' = job /\ excuse' = excuse
<1> DEFINE j == Job(w)
           new == [job[j] EXCEPT !.status = "cancelled"]
<1>1. j \in Jobs /\ worker[w] # Idle
  BY JobKnown DEF CancelRow
<1>2. job[j] \in JobRow /\ job \in [Jobs -> JobRow]
  BY <1>1 DEF TypeOK, JobRow
<1>3. Becomes(w, "ack", {}, "", "") \/ Becomes(w, "fail", {}, "", "")
  BY <1>1, GotoBecomes DEF CancelRow, At
<1>4. CASE job' = [job EXCEPT ![j].status = "cancelled"] /\ excuse' = excuse \union {"outside"}
  <2>1. new \in JobRow /\ new.status = "cancelled" /\ new.lock = job[j].lock
    BY <1>2 DEF JobRow, JobStatus
  <2>2. job' = [job EXCEPT ![j] = new]
    BY <1>1, <1>4 DEF TypeOK
  <2> HIDE DEF new
  <2>3. QED
    BY <1>1, <1>3, <1>4, <2>1, <2>2, RowWritten
<1>5. CASE UNCHANGED <<job, excuse>>
  BY <1>1, <1>2, <1>3, <1>5
<1>6. QED
  BY <1>4, <1>5 DEF CancelRow

\* Initially everything is well typed.
LEMMA InitType == Init => TypeOK /\ StepsOfKind
<1> SUFFICES ASSUME Init PROVE TypeOK /\ StepsOfKind
  OBVIOUS
<1>1. job \in [Jobs -> [status: JobStatus, conclusion: JobConclusion,
                        runner: Runners \union {Nobody}, lock: Nat]]
  BY DEF Init, JobStatus, JobConclusion
<1>2. queue \in [Task -> Nat]
  BY DEF Init
<1>3. worker \in [Workers -> {Idle} \union Busy] /\ acquired \in [Jobs -> Nat]
  BY DEF Init
<1>4. run \in [status: {"queued", "in_progress", "completed"}, conclusion: RunConclusion]
  BY DEF Init, RunConclusion
<1>5. faults \in 0..MaxFaults
  <2>1. faults = 0
    BY DEF Init
  <2>2. MaxFaults \in Nat
    BY WorkflowQueueAssumption
  <2>3. QED
    BY <2>1, <2>2
<1>6. StepsOfKind
  BY DEF Init, StepsOfKind
<1>7. QED
  BY <1>1, <1>2, <1>3, <1>4, <1>5, <1>6 DEF Init, TypeOK

\* The writes to the run keep it well typed and end the handler.
LEMMA RunType ==
  ASSUME TypeOK, NEW w \in Workers, UpdateRunStatus(w) \/ UpdateRunConclusion(w)
  PROVE  /\ run' \in [status: {"queued", "in_progress", "completed"}, conclusion: RunConclusion]
         /\ Becomes(w, "ack", {}, "", "")
<1>1. worker[w] \in Busy /\ worker[w] # Idle
  BY BusyWorker DEF UpdateRunStatus, UpdateRunConclusion
<1>2. Becomes(w, "ack", {}, "", "")
  BY <1>1, GotoBecomes DEF UpdateRunStatus, UpdateRunConclusion, At
<1>3. CASE UpdateRunStatus(w)
  BY <1>2, <1>3 DEF UpdateRunStatus, TypeOK
<1>4. CASE UpdateRunConclusion(w)
  BY <1>1, <1>2, <1>4, BusyFields DEF UpdateRunConclusion
<1>5. QED
  BY <1>3, <1>4

\* Every step of a handler leaves it at a step of the same kind of task, or without one.
LEMMA HandlerMoves ==
  ASSUME TypeOK, StepsOfKind, NEW w \in Workers, WorkerStep(w) \/ Fault(w)
  PROVE  \/ Leaves(w)
         \/ \E at \in At, ready \in SUBSET Jobs, verdict \in RunConclusion, result \in JobConclusion :
              /\ Becomes(w, at, ready, verdict, result)
              /\ at \in {"enqueue", "progress", "conclude"} => worker[w].task.kind = "schedule"
              /\ at \in {"execute", "finish", "next"} => worker[w].task.kind = "exec"
              /\ at \in {"act", "complete", "find", "acquire"} => worker[w].task.kind = "dispatch"
              /\ at \notin {"list", "mark", "load", "cancelRow"}
<1> DEFINE Kept(at) ==
      /\ at \in {"enqueue", "progress", "conclude"} => worker[w].task.kind = "schedule"
      /\ at \in {"execute", "finish", "next"} => worker[w].task.kind = "exec"
      /\ at \in {"act", "complete", "find", "acquire"} => worker[w].task.kind = "dispatch"
      /\ at \notin {"list", "mark", "load", "cancelRow"}
<1> DEFINE Moved == \E at \in At, ready \in SUBSET Jobs, verdict \in RunConclusion, result \in JobConclusion :
                      Becomes(w, at, ready, verdict, result) /\ Kept(at)
<1>1. worker[w] # Idle =>
        /\ worker[w].ready \in SUBSET Jobs /\ worker[w].verdict \in RunConclusion
        /\ worker[w].result \in JobConclusion
  BY BusyWorker, BusyFields
<1>2. "" \in RunConclusion /\ "" \in JobConclusion /\ {} \in SUBSET Jobs
  BY DEF RunConclusion, JobConclusion
<1>3. ASSUME NEW at \in At, Kept(at), Becomes(w, at, {}, "", "")
      PROVE  Moved
  BY <1>2, <1>3
<1>4. ASSUME NEW at \in At, Kept(at), worker[w] # Idle,
             NEW ready \in SUBSET Jobs, NEW verdict \in RunConclusion, NEW result \in JobConclusion,
             Becomes(w, at, ready, verdict, result)
      PROVE  Moved
  BY <1>4
<1> SUFFICES Leaves(w) \/ Moved
  OBVIOUS
<1> HIDE DEF Moved
<1>5. CASE ListJobs(w)
  <2>1. worker[w] # Idle /\ worker[w].task.kind = "schedule"
    BY <1>5, BusyWorker DEF ListJobs, StepsOfKind
  <2>2. Kept("enqueue") /\ Kept("conclude") /\ "enqueue" \in At /\ "conclude" \in At
    BY <2>1 DEF At
  <2>3. Verdict \in RunConclusion /\ findReadyJobs \in SUBSET Jobs
    BY VerdictType DEF RunConclusion, findReadyJobs
  <2>4. QED
    BY <1>1, <1>4, <1>5, <2>1, <2>2, <2>3, ListsJobs
<1>6. ASSUME NEW j \in Jobs, EnqueueJobExec(w, j)
      PROVE  Moved
  <2>1. worker[w] # Idle /\ worker[w].task.kind = "schedule"
    BY <1>6, BusyWorker DEF EnqueueJobExec, StepsOfKind
  <2>2. Kept("enqueue") /\ Kept("progress") /\ "enqueue" \in At /\ "progress" \in At
    BY <2>1 DEF At
  <2>3. worker[w].ready \ {j} \in SUBSET Jobs
    BY <1>1, <2>1
  <2>4. Becomes(w, IF worker[w].ready = {j} THEN "progress" ELSE "enqueue", worker[w].ready \ {j},
                worker[w].verdict, worker[w].result)
    BY <1>6, EnqueuesJobExec
  <2>5. QED
    BY <1>1, <1>4, <2>1, <2>2, <2>3, <2>4
<1>7. CASE UpdateRunStatus(w) \/ UpdateRunConclusion(w)
  BY <1>3, <1>7, RunType DEF At
<1>8. CASE SetInProgress(w)
  <2>1. worker[w] # Idle /\ worker[w].task.kind = "exec"
    BY <1>8, BusyWorker DEF SetInProgress, StepsOfKind
  <2>2. QED
    BY <1>3, <1>8, <2>1, MarksInProgress DEF At
<1>9. ASSUME NEW result \in {"success", "failure", "timed_out"}, ExecuteJob(w, result)
      PROVE  Moved
  <2>1. worker[w] # Idle /\ worker[w].task.kind = "exec"
    BY <1>9, BusyWorker DEF ExecuteJob, StepsOfKind
  <2>2. Kept("finish") /\ "finish" \in At /\ result \in JobConclusion
    BY <2>1 DEF At, JobConclusion
  <2>3. Becomes(w, "finish", worker[w].ready, worker[w].verdict, result)
    BY <1>9, <2>1, <2>2, NotesResult DEF ExecuteJob
  <2>4. QED
    BY <1>1, <1>4, <2>1, <2>2, <2>3
<1>10. CASE FinishJob(w)
  <2>1. worker[w] # Idle /\ worker[w].task.kind = "exec"
    BY <1>10, BusyWorker DEF FinishJob, StepsOfKind
  <2>2. Kept("next") /\ "next" \in At /\ Kept("fail") /\ "fail" \in At
    BY <2>1 DEF At
  <2>3. QED
    BY <1>3, <1>10, <2>2, FinishesJob
<1>11. CASE EnqueueSchedule(w)
  <2>1. worker[w] # Idle
    BY <1>11, BusyWorker DEF EnqueueSchedule
  <2>2. Becomes(w, "ack", {}, "", "")
    BY <1>11, <2>1, GotoBecomes DEF EnqueueSchedule, At
  <2>3. QED
    BY <1>3, <2>2 DEF At
<1>12. CASE DispatchLoad(w)
  <2>1. worker[w] # Idle /\ worker[w].task.kind = "dispatch"
    BY <1>12, BusyWorker DEF DispatchLoad, StepsOfKind
  <2>2. Kept("act") /\ "act" \in At /\ Kept("find") /\ "find" \in At
    BY <2>1 DEF At
  <2>3. CASE Becomes(w, "act", {}, "", "")
    BY <1>3, <2>2, <2>3
  <2>4. CASE Becomes(w, "find", worker[w].ready, worker[w].verdict, worker[w].result)
    BY <1>1, <1>4, <2>1, <2>2, <2>4
  <2>5. QED
    BY <1>12, <2>3, <2>4, LoadsDispatch
<1>13. ASSUME NEW result \in {"success", "failure"}, ActExecute(w, result)
      PROVE  Moved
  <2>1. worker[w] # Idle /\ worker[w].task.kind = "dispatch"
    BY <1>13, BusyWorker DEF ActExecute, StepsOfKind
  <2>2. Kept("complete") /\ "complete" \in At /\ result \in JobConclusion
    BY <2>1 DEF At, JobConclusion
  <2>3. Becomes(w, "complete", worker[w].ready, worker[w].verdict, result)
    BY <1>13, <2>1, <2>2, NotesResult DEF ActExecute
  <2>4. QED
    BY <1>1, <1>4, <2>1, <2>2, <2>3
<1>14. CASE ActComplete(w)
  BY <1>3, <1>14, ActCompletes DEF At
<1>15. CASE FindRunner(w)
  <2>1. worker[w] # Idle /\ worker[w].task.kind = "dispatch"
    BY <1>15, BusyWorker DEF FindRunner, StepsOfKind
  <2>2. Kept("ack") /\ "ack" \in At /\ Kept("acquire") /\ "acquire" \in At
    BY <2>1 DEF At
  <2>3. CASE Becomes(w, "ack", {}, "", "")
    BY <1>3, <2>2, <2>3
  <2>4. CASE Becomes(w, "acquire", worker[w].ready, worker[w].verdict, worker[w].result)
    BY <1>1, <1>4, <2>1, <2>2, <2>4
  <2>5. QED
    BY <1>15, <2>3, <2>4, FindsRunner
<1>16. CASE AcquireForRunner(w)
  BY <1>3, <1>16, Acquires DEF At
<1>17. CASE CancelRow(w)
  BY <1>3, <1>17, CancelsRow DEF At
<1>18. CASE ReturnError(w) \/ Fault(w)
  BY <1>18, BusyWorker, RetryLeaves DEF ReturnError, Fault
<1>19. CASE Ack(w)
  BY <1>19 DEF Ack, Leaves, TypeOK
<1>20. QED
  BY <1>5, <1>6, <1>7, <1>8, <1>9, <1>10, <1>11, <1>12, <1>13, <1>14, <1>15, <1>16, <1>17,
     <1>18, <1>19 DEF WorkerStep

\* Every step of a worker takes it to a step of its kind.
LEMMA MovesType ==
  ASSUME TypeOK, StepsOfKind, NEW w \in Workers, WorkerStep(w) \/ Fault(w)
  PROVE  worker' \in [Workers -> {Idle} \union Busy] /\ StepsOfKind'
<1>1. CASE Leaves(w)
  BY <1>1 DEF Leaves, StepsOfKind
<1>2. ASSUME NEW at \in At, NEW ready \in SUBSET Jobs, NEW verdict \in RunConclusion,
             NEW result \in JobConclusion, Becomes(w, at, ready, verdict, result),
             at \in {"enqueue", "progress", "conclude"} => worker[w].task.kind = "schedule",
             at \in {"execute", "finish", "next"} => worker[w].task.kind = "exec",
             at \in {"act", "complete", "find", "acquire"} => worker[w].task.kind = "dispatch",
             at \notin {"list", "mark", "load", "cancelRow"}
      PROVE  worker' \in [Workers -> {Idle} \union Busy] /\ StepsOfKind'
  BY <1>2 DEF Becomes, StepsOfKind
<1>3. QED
  BY <1>1, <1>2, HandlerMoves

\* No step of a handler touches what it does not name.
LEMMA StepType == TypeOK /\ StepsOfKind /\ [Next]_vars => TypeOK' /\ StepsOfKind'
<1> SUFFICES ASSUME TypeOK, StepsOfKind, [Next]_vars PROVE TypeOK' /\ StepsOfKind'
  OBVIOUS
<1> USE DEF envVars, histVars
<1>1. ASSUME NEW w \in Workers, NEW t \in Task, Deliver(w, t)
      PROVE  TypeOK' /\ StepsOfKind'
  <2>1. /\ worker' \in [Workers -> {Idle} \union Busy] /\ queue' \in [Task -> Nat]
        /\ worker'[w].at = FirstStep(t.kind) /\ worker'[w].task = t
        /\ \A v \in Workers \ {w} : worker'[v] = worker[v]
    BY <1>1, DeliverBegins
  <2>2. StepsOfKind'
    BY <2>1, TaskFields DEF StepsOfKind, FirstStep
  <2>3. QED
    BY <1>1, <2>1, <2>2 DEF Deliver, TypeOK
<1>2. ASSUME NEW w \in Workers, WorkerStep(w) \/ Fault(w)
      PROVE  TypeOK' /\ StepsOfKind'
  <2>1. worker' \in [Workers -> {Idle} \union Busy] /\ StepsOfKind'
    BY <1>2, MovesType
  <2>2. CASE ListJobs(w)
    BY <2>1, <2>2 DEF ListJobs, TypeOK
  <2>3. ASSUME NEW j \in Jobs, EnqueueJobExec(w, j)
        PROVE  TypeOK'
    BY <2>1, <2>3, NewTasks, PutQueues DEF EnqueueJobExec, TypeOK
  <2>4. CASE UpdateRunStatus(w) \/ UpdateRunConclusion(w)
    BY <2>1, <2>4, RunType DEF UpdateRunStatus, UpdateRunConclusion, TypeOK
  <2>5. CASE SetInProgress(w)
    BY <2>1, <2>5, MarksInProgress DEF SetInProgress, JobRow, TypeOK
  <2>6. ASSUME NEW result \in {"success", "failure", "timed_out"}, ExecuteJob(w, result)
        PROVE  TypeOK'
    BY <2>1, <2>6 DEF ExecuteJob, TypeOK
  <2>7. CASE FinishJob(w)
    BY <2>1, <2>7, FinishesJob DEF FinishJob, JobRow, TypeOK
  <2>8. CASE EnqueueSchedule(w)
    BY <2>1, <2>8, NewTasks, PutQueues DEF EnqueueSchedule, TypeOK
  <2>9. CASE DispatchLoad(w)
    BY <2>1, <2>9 DEF DispatchLoad, TypeOK
  <2>10. ASSUME NEW result \in {"success", "failure"}, ActExecute(w, result)
         PROVE  TypeOK'
    BY <2>1, <2>10 DEF ActExecute, TypeOK
  <2>11. CASE ActComplete(w)
    BY <2>1, <2>11, ActCompletes DEF ActComplete, JobRow, TypeOK
  <2>12. CASE FindRunner(w)
    <3>1. JobTask("dispatch", Job(w)) \in Task
      BY <2>12, JobKnown, NewTasks DEF FindRunner
    <3>2. queue' \in [Task -> Nat]
      BY <2>12, <3>1, FindsRunner, PutQueues DEF TypeOK
    <3>3. QED
      BY <2>1, <2>12, <3>2 DEF FindRunner, TypeOK
  <2>13. CASE AcquireForRunner(w)
    <3>1. JobTask("dispatch", Job(w)) \in Task
      BY <2>13, JobKnown, NewTasks DEF AcquireForRunner
    <3>2. /\ queue' \in [Task -> Nat] /\ job' \in [Jobs -> JobRow] /\ acquired' \in [Jobs -> Nat]
          /\ excuse' \in {excuse, excuse \union {"outside"}}
      BY <2>13, <3>1, Acquires, PutQueues DEF TypeOK
    <3>3. QED
      BY <2>1, <2>13, <3>2 DEF AcquireForRunner, JobRow, TypeOK
  <2>14. CASE CancelRow(w)
    BY <2>1, <2>14, CancelsRow DEF CancelRow, JobRow, TypeOK
  <2>15. CASE ReturnError(w)
    BY <2>1, <2>15, BusyWorker, RetryLeaves DEF ReturnError, TypeOK
  <2>16. CASE Fault(w)
    <3>1. queue' \in [Task -> Nat] /\ excuse' \subseteq {"overlap", "gaveUp", "outside"}
      BY <2>16, RetryLeaves DEF Fault
    <3>2. faults' \in 0..MaxFaults
      BY <2>16, WorkflowQueueAssumption DEF Fault, TypeOK
    <3>3. QED
      BY <2>1, <2>16, <3>1, <3>2 DEF Fault, TypeOK
  <2>17. CASE Ack(w)
    BY <2>1, <2>17 DEF Ack, TypeOK
  <2>18. QED
    BY <1>2, <2>1, <2>2, <2>3, <2>4, <2>5, <2>6, <2>7, <2>8, <2>9, <2>10, <2>11, <2>12, <2>13,
       <2>14, <2>15, <2>16, <2>17 DEF WorkerStep
<1>3. ASSUME NEW r \in Requests, Request(r)
      PROVE  TypeOK' /\ StepsOfKind'
  <2>1. JobTask(r[1], r[2]) \in Task
    BY WorkflowQueueAssumption, NewTasks
  <2>2. QED
    BY <1>3, <2>1, PutQueues DEF Request, TypeOK, StepsOfKind
<1>4. ASSUME NEW r \in Runners, Heartbeat(r)
      PROVE  TypeOK' /\ StepsOfKind'
  BY <1>4 DEF Heartbeat, TypeOK, StepsOfKind
<1>5. CASE UNCHANGED vars
  BY <1>5 DEF vars, TypeOK, StepsOfKind
<1>6. QED
  BY <1>1, <1>2, <1>3, <1>4, <1>5 DEF Next

\* Every reachable state is well typed: no handler is ever at a step of another kind of task,
\* no task is taken from the queue that is not there.
THEOREM TypeCorrect == Spec => []TypeOK
<1>1. Spec => [](TypeOK /\ StepsOfKind)
  BY InitType, StepType, PTL DEF Spec
<1>2. QED
  BY <1>1, PTL

-----------------------------------------------------------------------------
(* What a step may do, for all actions at once: to the rows of the jobs,   *)
(* to the tasks that wait and to what the handlers have read.              *)

\* A step completes a job, gives it to a runner, sets it back without queuing it, or leaves it.
LEMMA RowsOfStep ==
  ASSUME TypeOK, StepsOfKind, [Next]_vars
  PROVE  /\ succeeded \subseteq succeeded'
         /\ \A j \in Jobs :
              \/ job'[j] = job[j] /\ acquired'[j] = acquired[j]
              \/ /\ job'[j].status # "queued" /\ job'[j].lock = job[j].lock /\ acquired'[j] = acquired[j]
                 /\ job'[j].status = "completed" =>
                      \E w \in Workers :
                        /\ worker[w].at \in {"finish", "complete"}
                        /\ job'[j].conclusion = worker[w].result
                        /\ worker[w].result = "success" => j \in succeeded'
              \/ /\ job[j].status = "queued" /\ job'[j].status = "in_progress"
                 /\ job'[j].lock = job[j].lock + 1 /\ acquired'[j] = acquired[j] + 1
<1> DEFINE Kept(j) == job'[j] = job[j] /\ acquired'[j] = acquired[j]
           Ended(j) ==
             /\ job'[j].status # "queued" /\ job'[j].lock = job[j].lock /\ acquired'[j] = acquired[j]
             /\ job'[j].status = "completed" =>
                  \E w \in Workers :
                    /\ worker[w].at \in {"finish", "complete"}
                    /\ job'[j].conclusion = worker[w].result
                    /\ worker[w].result = "success" => j \in succeeded'
           Given(j) ==
             /\ job[j].status = "queued" /\ job'[j].status = "in_progress"
             /\ job'[j].lock = job[j].lock + 1 /\ acquired'[j] = acquired[j] + 1
           Good == succeeded \subseteq succeeded' /\ \A j \in Jobs : Kept(j) \/ Ended(j) \/ Given(j)
<1> SUFFICES Good
  OBVIOUS
<1> USE DEF envVars, histVars
<1>1. ASSUME UNCHANGED <<job, succeeded, acquired>>
      PROVE  Good
  BY <1>1
<1>2. ASSUME NEW w \in Workers, SetInProgress(w)
      PROVE  Good
  <2>1. /\ Job(w) \in Jobs /\ job'[Job(w)].status = "in_progress" /\ job'[Job(w)].lock = job[Job(w)].lock
        /\ \A k \in Jobs \ {Job(w)} : job'[k] = job[k]
    BY <1>2, MarksInProgress
  <2>2. UNCHANGED <<succeeded, acquired>>
    BY <1>2 DEF SetInProgress
  <2>3. QED
    BY <2>1, <2>2
<1>3. ASSUME NEW w \in Workers, FinishJob(w)
      PROVE  Good
  <2>1. acquired' = acquired /\ worker[w].at = "finish"
    BY <1>3 DEF FinishJob
  <2>2. /\ job'[Job(w)].lock = job[Job(w)].lock
        /\ \A k \in Jobs \ {Job(w)} : job'[k] = job[k]
        /\ succeeded \subseteq succeeded'
        /\ \/ job'[Job(w)].status = "failed"
           \/ /\ job'[Job(w)].status = "completed" /\ job'[Job(w)].conclusion = worker[w].result
              /\ worker[w].result = "success" => Job(w) \in succeeded'
           \/ job' = job /\ succeeded' = succeeded
    BY <1>3, FinishesJob
  <2>3. QED
    BY <2>1, <2>2
<1>4. ASSUME NEW w \in Workers, ActComplete(w)
      PROVE  Good
  <2>1. acquired' = acquired /\ worker[w].at = "complete"
    BY <1>4 DEF ActComplete
  <2>2. /\ job'[Job(w)].lock = job[Job(w)].lock
        /\ \A k \in Jobs \ {Job(w)} : job'[k] = job[k]
        /\ succeeded \subseteq succeeded'
        /\ \/ /\ job'[Job(w)].status = "completed" /\ job'[Job(w)].conclusion = worker[w].result
              /\ worker[w].result = "success" => Job(w) \in succeeded'
           \/ job' = job /\ succeeded' = succeeded
    BY <1>4, ActCompletes
  <2>3. QED
    BY <2>1, <2>2
<1>5. ASSUME NEW w \in Workers, AcquireForRunner(w)
      PROVE  Good
  <2>1. succeeded' = succeeded /\ acquired \in [Jobs -> Nat]
    BY <1>5 DEF AcquireForRunner, TypeOK
  <2>2. /\ Job(w) \in Jobs
        /\ \/ /\ job[Job(w)].status = "queued" /\ job'[Job(w)].status = "in_progress"
              /\ job'[Job(w)].lock = job[Job(w)].lock + 1
              /\ acquired' = [acquired EXCEPT ![Job(w)] = @ + 1]
              /\ \A k \in Jobs \ {Job(w)} : job'[k] = job[k]
           \/ job' = job /\ acquired' = acquired
    BY <1>5, Acquires
  <2>3. QED
    BY <2>1, <2>2
<1>6. ASSUME NEW w \in Workers, CancelRow(w)
      PROVE  Good
  <2>1. UNCHANGED <<succeeded, acquired>>
    BY <1>6 DEF CancelRow
  <2>2. /\ job'[Job(w)].lock = job[Job(w)].lock
        /\ \A k \in Jobs \ {Job(w)} : job'[k] = job[k]
        /\ job'[Job(w)].status = "cancelled" \/ job' = job
    BY <1>6, CancelsRow
  <2>3. QED
    BY <2>1, <2>2
<1>7. ASSUME NEW w \in Workers,
             \/ ListJobs(w) \/ (\E j \in Jobs : EnqueueJobExec(w, j)) \/ UpdateRunStatus(w)
             \/ UpdateRunConclusion(w) \/ (\E r \in {"success", "failure", "timed_out"} : ExecuteJob(w, r))
             \/ EnqueueSchedule(w) \/ DispatchLoad(w) \/ (\E r \in {"success", "failure"} : ActExecute(w, r))
             \/ FindRunner(w) \/ ReturnError(w) \/ Ack(w) \/ Fault(w)
      PROVE  UNCHANGED <<job, succeeded, acquired>>
  BY <1>7 DEF ListJobs, EnqueueJobExec, UpdateRunStatus, UpdateRunConclusion, ExecuteJob,
     EnqueueSchedule, DispatchLoad, ActExecute, FindRunner, ReturnError, Ack, Fault
<1>8. ASSUME \/ \E w \in Workers, t \in Task : Deliver(w, t)
             \/ \E r \in Requests : Request(r)
             \/ \E r \in Runners : Heartbeat(r)
             \/ UNCHANGED vars
      PROVE  UNCHANGED <<job, succeeded, acquired>>
  BY <1>8 DEF Deliver, Request, Heartbeat, vars
<1> HIDE DEF Good
<1>9. QED
  BY <1>1, <1>2, <1>3, <1>4, <1>5, <1>6, <1>7, <1>8 DEF Next, WorkerStep

\* A task of a job is only executed because it was, or because a handler found the job ready.
LEMMA QueueOfStep ==
  ASSUME TypeOK, StepsOfKind, [Next]_vars, NEW t \in Task, queue'[t] > 0, t.kind = "exec"
  PROVE  \/ queue[t] > 0
         \/ \E w \in Workers :
              /\ worker[w] # Idle
              /\ (worker[w].task.kind = "exec" /\ worker[w].task.job = t.job) \/ t.job \in worker[w].ready
<1> DEFINE Known == \/ queue[t] > 0
                    \/ \E w \in Workers :
                         /\ worker[w] # Idle
                         /\ \/ worker[w].task.kind = "exec" /\ worker[w].task.job = t.job
                            \/ t.job \in worker[w].ready
<1> USE DEF envVars, histVars
<1>1. ASSUME NEW w \in Workers, NEW u \in Task, Deliver(w, u)
      PROVE  Known
  BY <1>1, DeliverBegins
<1>2. ASSUME NEW w \in Workers, NEW j \in Jobs, EnqueueJobExec(w, j)
      PROVE  Known
  <2>1. Put(JobTask("exec", j)) /\ j \in worker[w].ready /\ worker[w] # Idle
    BY <1>2, BusyWorker DEF EnqueueJobExec
  <2>2. JobTask("exec", j) \in Task /\ JobTask("exec", j).job = j
    BY NewTasks
  <2>3. queue[t] > 0 \/ t = JobTask("exec", j)
    BY <2>1, <2>2, PutQueues
  <2>4. QED
    BY <2>1, <2>2, <2>3
<1>3. ASSUME NEW u \in Task, u.kind # "exec", Put(u)
      PROVE  Known
  BY <1>3, PutQueues
<1>4. ASSUME NEW w \in Workers, ReturnError(w) \/ Fault(w)
      PROVE  Known
  <2>1. worker[w] # Idle /\ Retry(w)
    BY <1>4, BusyWorker DEF ReturnError, Fault
  <2>2. \/ queue' = queue
        \/ \E u \in Task :
             /\ u.kind = worker[w].task.kind
             /\ u.kind # "schedule" => u.job = worker[w].task.job
             /\ \A x \in Task : queue'[x] > 0 <=> queue[x] > 0 \/ x = u
    BY <2>1, RetryLeaves
  <2>3. QED
    BY <2>1, <2>2
<1>5. ASSUME NEW w \in Workers, EnqueueSchedule(w)
      PROVE  Known
  BY <1>3, <1>5, NewTasks DEF EnqueueSchedule
<1>6. ASSUME NEW w \in Workers, FindRunner(w) \/ AcquireForRunner(w)
      PROVE  Known
  <2>1. Job(w) \in Jobs
    BY <1>6, JobKnown DEF FindRunner, AcquireForRunner
  <2>2. queue' = queue \/ Put(JobTask("dispatch", Job(w)))
    BY <1>6, FindsRunner, Acquires
  <2>3. QED
    BY <1>3, <2>1, <2>2, NewTasks
<1>7. ASSUME NEW r \in Requests, Request(r)
      PROVE  Known
  BY <1>3, <1>7, WorkflowQueueAssumption, NewTasks DEF Request
<1>8. ASSUME NEW w \in Workers,
             \/ ListJobs(w) \/ UpdateRunStatus(w) \/ UpdateRunConclusion(w) \/ SetInProgress(w)
             \/ (\E r \in {"success", "failure", "timed_out"} : ExecuteJob(w, r)) \/ FinishJob(w)
             \/ DispatchLoad(w) \/ (\E r \in {"success", "failure"} : ActExecute(w, r))
             \/ ActComplete(w) \/ CancelRow(w) \/ Ack(w)
      PROVE  queue' = queue
  BY <1>8 DEF ListJobs, UpdateRunStatus, UpdateRunConclusion, SetInProgress, ExecuteJob, FinishJob,
     DispatchLoad, ActExecute, ActComplete, CancelRow, Ack
<1>9. ASSUME queue' = queue
      PROVE  Known
  BY <1>9
<1>10. ASSUME (\E r \in Runners : Heartbeat(r)) \/ UNCHANGED vars
       PROVE  queue' = queue
  BY <1>10 DEF Heartbeat, vars
<1> HIDE DEF Known
<1>11. Known
  BY <1>1, <1>2, <1>4, <1>5, <1>6, <1>7, <1>8, <1>9, <1>10 DEF Next, WorkerStep
<1>12. QED
  BY <1>11 DEF Known

\* A handler only ever has the ready jobs it has found, and the verdict it has computed.
LEMMA HandlerReads ==
  ASSUME TypeOK, StepsOfKind, NEW w \in Workers, WorkerStep(w) \/ Fault(w)
  PROVE  \/ Leaves(w)
         \/ \E at \in At, ready \in SUBSET Jobs, verdict \in RunConclusion, result \in JobConclusion :
              /\ Becomes(w, at, ready, verdict, result)
              /\ ready \subseteq worker[w].ready \/ ready = findReadyJobs
              /\ verdict \in {"", worker[w].verdict, Verdict}
              /\ at \in {"finish", "complete"} => result \in {"success", "failure", "timed_out"}
<1> DEFINE Moved == \E at \in At, ready \in SUBSET Jobs, verdict \in RunConclusion, result \in JobConclusion :
                      /\ Becomes(w, at, ready, verdict, result)
                      /\ ready \subseteq worker[w].ready \/ ready = findReadyJobs
                      /\ verdict \in {"", worker[w].verdict, Verdict}
                      /\ at \in {"finish", "complete"} => result \in {"success", "failure", "timed_out"}
<1>1. worker[w] # Idle =>
        /\ worker[w].ready \in SUBSET Jobs /\ worker[w].verdict \in RunConclusion
        /\ worker[w].result \in JobConclusion
  BY BusyWorker, BusyFields
<1>2. "" \in RunConclusion /\ "" \in JobConclusion /\ {} \in SUBSET Jobs
  BY DEF RunConclusion, JobConclusion
<1>3. ASSUME NEW at \in At, at \notin {"finish", "complete"}, Becomes(w, at, {}, "", "")
      PROVE  Moved
  <2>1. {} \subseteq worker[w].ready
    OBVIOUS
  <2>2. QED
    BY <1>2, <1>3, <2>1
<1>4. ASSUME NEW at \in At, NEW ready \in SUBSET Jobs, NEW verdict \in RunConclusion,
             NEW result \in JobConclusion, Becomes(w, at, ready, verdict, result),
             ready \subseteq worker[w].ready \/ ready = findReadyJobs,
             verdict \in {worker[w].verdict, Verdict},
             at \in {"finish", "complete"} => result \in {"success", "failure", "timed_out"}
      PROVE  Moved
  BY <1>4
<1> SUFFICES Leaves(w) \/ Moved
  OBVIOUS
<1> HIDE DEF Moved
<1>5. CASE ListJobs(w)
  <2>1. worker[w] # Idle
    BY <1>5, BusyWorker DEF ListJobs
  <2>2. Verdict \in RunConclusion /\ findReadyJobs \in SUBSET Jobs
    BY VerdictType DEF RunConclusion, findReadyJobs
  <2>3. CASE Becomes(w, "enqueue", findReadyJobs, worker[w].verdict, worker[w].result)
    BY <1>1, <1>4, <2>1, <2>2, <2>3 DEF At
  <2>4. CASE Becomes(w, "conclude", worker[w].ready, Verdict, worker[w].result)
    BY <1>1, <1>4, <2>1, <2>2, <2>4 DEF At
  <2>5. QED
    BY <1>5, <2>3, <2>4, ListsJobs
<1>6. ASSUME NEW j \in Jobs, EnqueueJobExec(w, j)
      PROVE  Moved
  <2> DEFINE at == IF worker[w].ready = {j} THEN "progress" ELSE "enqueue"
  <2>1. worker[w] # Idle
    BY <1>6, BusyWorker DEF EnqueueJobExec
  <2>2. worker[w].ready \ {j} \in SUBSET Jobs /\ worker[w].ready \ {j} \subseteq worker[w].ready
    BY <1>1, <2>1
  <2>3. Becomes(w, at, worker[w].ready \ {j}, worker[w].verdict, worker[w].result)
    BY <1>6, EnqueuesJobExec
  <2>4. at \in At /\ at \notin {"finish", "complete"}
    BY DEF At
  <2> HIDE DEF at
  <2>5. QED
    BY <1>1, <1>4, <2>1, <2>2, <2>3, <2>4
<1>7. CASE UpdateRunStatus(w) \/ UpdateRunConclusion(w)
  BY <1>3, <1>7, RunType DEF At
<1>8. CASE SetInProgress(w)
  BY <1>3, <1>8, MarksInProgress DEF At
<1>9. ASSUME NEW result \in {"success", "failure", "timed_out"},
             ExecuteJob(w, result) \/ (ActExecute(w, result) /\ result # "timed_out")
      PROVE  Moved
  <2>1. worker[w] # Idle /\ result \in JobConclusion
    BY <1>9, BusyWorker DEF ExecuteJob, ActExecute, JobConclusion
  <2>2. \/ Becomes(w, "finish", worker[w].ready, worker[w].verdict, result)
        \/ Becomes(w, "complete", worker[w].ready, worker[w].verdict, result)
    BY <1>9, <2>1, NotesResult DEF ExecuteJob, ActExecute, At
  <2>3. QED
    BY <1>1, <1>4, <2>1, <2>2 DEF At
<1>10. CASE FinishJob(w)
  BY <1>3, <1>10, FinishesJob DEF At
<1>11. CASE EnqueueSchedule(w)
  <2>1. worker[w] # Idle
    BY <1>11, BusyWorker DEF EnqueueSchedule
  <2>2. Becomes(w, "ack", {}, "", "")
    BY <1>11, <2>1, GotoBecomes DEF EnqueueSchedule, At
  <2>3. QED
    BY <1>3, <2>2 DEF At
<1>12. CASE DispatchLoad(w)
  <2>1. worker[w] # Idle
    BY <1>12, BusyWorker DEF DispatchLoad
  <2>2. CASE Becomes(w, "act", {}, "", "")
    BY <1>3, <2>2 DEF At
  <2>3. CASE Becomes(w, "find", worker[w].ready, worker[w].verdict, worker[w].result)
    BY <1>1, <1>4, <2>1, <2>3 DEF At
  <2>4. QED
    BY <1>12, <2>2, <2>3, LoadsDispatch
<1>13. CASE ActComplete(w)
  BY <1>3, <1>13, ActCompletes DEF At
<1>14. CASE FindRunner(w)
  <2>1. worker[w] # Idle
    BY <1>14, BusyWorker DEF FindRunner
  <2>2. CASE Becomes(w, "ack", {}, "", "")
    BY <1>3, <2>2 DEF At
  <2>3. CASE Becomes(w, "acquire", worker[w].ready, worker[w].verdict, worker[w].result)
    BY <1>1, <1>4, <2>1, <2>3 DEF At
  <2>4. QED
    BY <1>14, <2>2, <2>3, FindsRunner
<1>15. CASE AcquireForRunner(w)
  BY <1>3, <1>15, Acquires DEF At
<1>16. CASE CancelRow(w)
  BY <1>3, <1>16, CancelsRow DEF At
<1>17. CASE ReturnError(w) \/ Fault(w)
  BY <1>17, BusyWorker, RetryLeaves DEF ReturnError, Fault
<1>18. CASE Ack(w)
  BY <1>18 DEF Ack, Leaves, TypeOK
<1>19. ASSUME NEW result \in {"success", "failure"}, ActExecute(w, result)
       PROVE  Moved
  BY <1>9, <1>19
<1>20. QED
  BY <1>5, <1>6, <1>7, <1>8, <1>9, <1>10, <1>11, <1>12, <1>13, <1>14, <1>15, <1>16, <1>17,
     <1>18, <1>19 DEF WorkerStep

\* A worker keeps what it has, or its handler moves on, or it takes a task from the queue.
LEMMA WorkersOfStep ==
  ASSUME TypeOK, StepsOfKind, [Next]_vars, NEW v \in Workers, worker'[v] # Idle
  PROVE  \/ worker'[v] = worker[v]
         \/ /\ worker[v] # Idle
            /\ worker'[v].task = worker[v].task
            /\ worker'[v].ready \subseteq worker[v].ready \/ worker'[v].ready = findReadyJobs
            /\ worker'[v].verdict \in {"", worker[v].verdict, Verdict}
            /\ worker'[v].at \in {"finish", "complete"} =>
                 worker'[v].result \in {"success", "failure", "timed_out"}
         \/ /\ worker'[v].task \in Task /\ queue[worker'[v].task] > 0
            /\ worker'[v].at \notin {"finish", "complete"}
            /\ worker'[v].ready = {} /\ worker'[v].verdict = ""
<1>1. ASSUME NEW w \in Workers, NEW t \in Task, Deliver(w, t), v = w
      PROVE  /\ worker'[v].task \in Task /\ queue[worker'[v].task] > 0
             /\ worker'[v].at \notin {"finish", "complete"}
             /\ worker'[v].ready = {} /\ worker'[v].verdict = ""
  BY <1>1, DeliverBegins, TaskFields DEF FirstStep
<1>2. ASSUME NEW w \in Workers, NEW t \in Task, Deliver(w, t), v # w
      PROVE  worker'[v] = worker[v]
  BY <1>2, DeliverBegins
<1>3. ASSUME NEW w \in Workers, WorkerStep(w) \/ Fault(w), v # w
      PROVE  worker'[v] = worker[v]
  BY <1>3, HandlerReads DEF Leaves, Becomes
<1>4. ASSUME WorkerStep(v) \/ Fault(v)
      PROVE  /\ worker[v] # Idle
             /\ worker'[v].task = worker[v].task
             /\ worker'[v].ready \subseteq worker[v].ready \/ worker'[v].ready = findReadyJobs
             /\ worker'[v].verdict \in {"", worker[v].verdict, Verdict}
             /\ worker'[v].at \in {"finish", "complete"} =>
                  worker'[v].result \in {"success", "failure", "timed_out"}
  <2>1. worker[v] # Idle
    BY <1>4, BusyWorker DEF WorkerStep, Fault, ListJobs, EnqueueJobExec, UpdateRunStatus,
       UpdateRunConclusion, SetInProgress, ExecuteJob, FinishJob, EnqueueSchedule, DispatchLoad,
       ActExecute, ActComplete, FindRunner, AcquireForRunner, CancelRow, ReturnError, Ack
  <2>2. ~Leaves(v)
    BY DEF Leaves
  <2>3. QED
    BY <1>4, <2>1, <2>2, HandlerReads DEF Becomes
<1>5. ASSUME (\E r \in Requests : Request(r)) \/ (\E r \in Runners : Heartbeat(r)) \/ UNCHANGED vars
      PROVE  worker'[v] = worker[v]
  BY <1>5 DEF Request, Heartbeat, vars
<1>6. QED
  BY <1>1, <1>2, <1>3, <1>4, <1>5 DEF Next

\* The row of the run shows what it showed, or the verdict of a handler.
LEMMA RunOfStep ==
  ASSUME TypeOK, [Next]_vars
  PROVE  \/ run'.conclusion = run.conclusion
         \/ \E w \in Workers : worker[w] # Idle /\ run'.conclusion = worker[w].verdict
<1> USE DEF envVars, histVars
<1>1. ASSUME NEW w \in Workers, UpdateRunStatus(w)
      PROVE  run'.conclusion = run.conclusion
  BY <1>1 DEF UpdateRunStatus, TypeOK
<1>2. ASSUME NEW w \in Workers, UpdateRunConclusion(w)
      PROVE  worker[w] # Idle /\ run'.conclusion = worker[w].verdict
  BY <1>2, BusyWorker DEF UpdateRunConclusion
<1>3. ASSUME NEW w \in Workers,
             \/ ListJobs(w) \/ (\E j \in Jobs : EnqueueJobExec(w, j)) \/ SetInProgress(w)
             \/ (\E r \in {"success", "failure", "timed_out"} : ExecuteJob(w, r)) \/ FinishJob(w)
             \/ EnqueueSchedule(w) \/ DispatchLoad(w) \/ (\E r \in {"success", "failure"} : ActExecute(w, r))
             \/ ActComplete(w) \/ FindRunner(w) \/ AcquireForRunner(w) \/ CancelRow(w)
             \/ ReturnError(w) \/ Ack(w) \/ Fault(w)
      PROVE  run' = run
  BY <1>3 DEF ListJobs, EnqueueJobExec, SetInProgress, ExecuteJob, FinishJob, EnqueueSchedule,
     DispatchLoad, ActExecute, ActComplete, FindRunner, AcquireForRunner, CancelRow, ReturnError,
     Ack, Fault
<1>4. ASSUME \/ \E w \in Workers, t \in Task : Deliver(w, t)
             \/ \E r \in Requests : Request(r)
             \/ \E r \in Runners : Heartbeat(r)
             \/ UNCHANGED vars
      PROVE  run' = run
  BY <1>4 DEF Deliver, Request, Heartbeat, vars
<1>5. QED
  BY <1>1, <1>2, <1>3, <1>4 DEF Next, WorkerStep

-----------------------------------------------------------------------------
(* JobsStartRight and GreenRunEarned. *)

\* A job that is ready has its needs behind it.
LEMMA ReadyEarned ==
  ASSUME TypeOK, CompletedWithResult, NEW j \in findReadyJobs
  PROVE  Earned(j)
<1>1. j \in Jobs /\ \A k \in Needs[j] : isNeedSatisfied(k)
  BY DEF findReadyJobs
<1>2. Needs[j] \subseteq Jobs
  BY <1>1, WorkflowQueueAssumption
<1>3. QED
  BY <1>1, <1>2 DEF Earned, isNeedSatisfied, CompletedWithResult

\* A verdict of success over all rows is the success of all jobs: no other result counts as one.
LEMMA SuccessOfAll ==
  ASSUME TypeOK, CompletedWithResult, Verdict = "success"
  PROVE  succeeded = Jobs
<1>1. allJobsTerminal /\ computeRunConclusion = "success"
  BY DEF Verdict
<1>2. \A j \in Jobs : /\ job[j].status \notin {"failed", "cancelled"}
                      /\ job[j].conclusion \notin {"failure", "timed_out"}
  BY <1>1 DEF computeRunConclusion
<1>3. \A j \in Jobs : job[j].status = "completed"
  BY <1>1, <1>2 DEF allJobsTerminal
<1>4. \A j \in Jobs : j \in succeeded
  BY <1>2, <1>3 DEF CompletedWithResult
<1>5. QED
  BY <1>4 DEF TypeOK

\* Jobs stay completed with a result of a handler.
LEMMA ResultStep ==
  ASSUME TypeOK, StepsOfKind, CompletedWithResult, [Next]_vars
  PROVE  CompletedWithResult'
<1>1. ASSUME NEW w \in Workers, worker'[w].at \in {"finish", "complete"}
      PROVE  worker'[w].result \in {"success", "failure", "timed_out"}
  <2>1. worker'[w] # Idle
    BY <1>1 DEF Idle
  <2>2. QED
    BY <1>1, <2>1, WorkersOfStep DEF CompletedWithResult
<1>2. ASSUME NEW j \in Jobs, job'[j].status = "completed"
      PROVE  /\ job'[j].conclusion \in {"success", "failure", "timed_out"}
             /\ job'[j].conclusion = "success" => j \in succeeded'
  <2>1. CASE job'[j] = job[j]
    BY <1>2, <2>1, RowsOfStep DEF CompletedWithResult
  <2>2. ASSUME NEW w \in Workers, worker[w].at \in {"finish", "complete"},
               job'[j].conclusion = worker[w].result, worker[w].result = "success" => j \in succeeded'
        PROVE  /\ job'[j].conclusion \in {"success", "failure", "timed_out"}
               /\ job'[j].conclusion = "success" => j \in succeeded'
    BY <2>2 DEF CompletedWithResult
  <2>3. QED
    BY <1>2, <2>1, <2>2, RowsOfStep
<1>3. QED
  BY <1>1, <1>2 DEF CompletedWithResult

\* The lock version keeps counting the acquisitions.
LEMMA AcquireStep ==
  ASSUME TypeOK, StepsOfKind, AcquiredOnce, [Next]_vars
  PROVE  AcquiredOnce'
<1>1. ASSUME NEW j \in Jobs
      PROVE  /\ acquired'[j] = job'[j].lock /\ acquired'[j] <= 1
             /\ acquired'[j] = 1 => job'[j].status # "queued"
  <2>1. acquired[j] \in Nat
    BY DEF TypeOK
  <2>2. acquired[j] = job[j].lock /\ acquired[j] <= 1 /\ (acquired[j] = 1 => job[j].status # "queued")
    BY DEF AcquiredOnce
  <2>3. QED
    BY <2>1, <2>2, RowsOfStep
<1>2. QED
  BY <1>1 DEF AcquiredOnce

\* Executions stay earned, wherever they are handed on to.
LEMMA ExecutionStep ==
  ASSUME TypeOK, StepsOfKind, CompletedWithResult, ExecutionsEarned, [Next]_vars
  PROVE  ExecutionsEarned'
<1>1. \A j \in Jobs : Earned(j) => Needs[j] \subseteq succeeded'
  BY RowsOfStep DEF Earned
<1>2. ASSUME NEW t \in Task, t.kind = "exec", queue'[t] > 0
      PROVE  Needs[t.job] \subseteq succeeded'
  <2>1. t.job \in Jobs
    BY <1>2, TaskFields
  <2>2. Earned(t.job)
    BY <1>2, QueueOfStep DEF ExecutionsEarned
  <2>3. QED
    BY <1>1, <2>1, <2>2
<1>3. ASSUME NEW w \in Workers, worker'[w] # Idle
      PROVE  /\ worker'[w].task.kind = "exec" => Needs[worker'[w].task.job] \subseteq succeeded'
             /\ \A j \in worker'[w].ready : Needs[j] \subseteq succeeded'
  <2>1. worker'[w] \in Busy
    BY <1>3, StepType DEF TypeOK
  <2>2. worker'[w].task \in Task /\ worker'[w].ready \subseteq Jobs
    BY <2>1, BusyFields
  <2>3. worker'[w].task.kind = "exec" => Earned(worker'[w].task.job)
    BY <1>3, <2>2, WorkersOfStep DEF ExecutionsEarned
  <2>4. \A j \in worker'[w].ready : Earned(j)
    BY <1>3, WorkersOfStep, ReadyEarned DEF ExecutionsEarned
  <2>5. worker'[w].task.kind = "exec" => worker'[w].task.job \in Jobs
    BY <2>2, TaskFields
  <2>6. QED
    BY <1>1, <2>2, <2>3, <2>4, <2>5
<1>4. QED
  BY <1>2, <1>3 DEF ExecutionsEarned, Earned

\* Verdicts stay earned between their reading and their writing.
LEMMA VerdictStep ==
  ASSUME TypeOK, StepsOfKind, CompletedWithResult, VerdictsEarned, [Next]_vars
  PROVE  VerdictsEarned'
<1>1. succeeded' \subseteq Jobs
  BY StepType DEF TypeOK
<1>2. succeeded = Jobs => succeeded' = Jobs
  BY <1>1, RowsOfStep
<1>3. ASSUME NEW w \in Workers, worker'[w] # Idle, worker'[w].verdict = "success"
      PROVE  succeeded' = Jobs
  <2>1. (worker[w] # Idle /\ worker[w].verdict = "success") \/ Verdict = "success"
    BY <1>3, WorkersOfStep
  <2>2. QED
    BY <1>2, <2>1, SuccessOfAll DEF VerdictsEarned
<1>4. run'.conclusion = "success" => succeeded' = Jobs
  BY <1>2, RunOfStep DEF VerdictsEarned
<1>5. QED
  BY <1>3, <1>4 DEF VerdictsEarned

StartsInv == TypeOK /\ StepsOfKind /\ CompletedWithResult /\ ExecutionsEarned /\ AcquiredOnce /\ VerdictsEarned

\* All of this holds throughout.
LEMMA StartsInvariant == Spec => []StartsInv
<1>1. Init => StartsInv
  <2> SUFFICES ASSUME Init PROVE StartsInv
    OBVIOUS
  <2>1. TypeOK /\ StepsOfKind
    BY InitType
  <2>2. /\ \A w \in Workers : worker[w] = Idle
        /\ \A j \in Jobs : job[j].status = "queued" /\ job[j].lock = 0 /\ acquired[j] = 0
    BY DEF Init
  <2>3. \A t \in Task : queue[t] > 0 => t.kind # "exec"
    <3>1. ASSUME NEW t \in Task, t # ScheduleTask
          PROVE  ~(queue[t] > 0)
      <4>1. queue[t] = 0
        BY <3>1 DEF Init
      <4>2. QED
        BY <4>1
    <3>2. QED
      BY <3>1, NewTasks
  <2>4. run.conclusion # "success"
    BY DEF Init
  <2>5. \A w \in Workers : worker[w].at \notin {"finish", "complete"}
    BY <2>2 DEF Idle
  <2>6. CompletedWithResult
    BY <2>2, <2>5 DEF CompletedWithResult
  <2>7. AcquiredOnce
    BY <2>2 DEF AcquiredOnce
  <2>8. ExecutionsEarned /\ VerdictsEarned
    BY <2>2, <2>3, <2>4 DEF ExecutionsEarned, VerdictsEarned
  <2>9. QED
    BY <2>1, <2>6, <2>7, <2>8 DEF StartsInv
<1>2. StartsInv /\ [Next]_vars => StartsInv'
  BY StepType, ResultStep, ExecutionStep, AcquireStep, VerdictStep DEF StartsInv
<1>3. QED
  BY <1>1, <1>2, PTL DEF Spec

\* However often tasks are delivered again and rows set back, a job is executed only after each
\* job it needs was completed with success, and it is given to a runner at most once.
THEOREM OnlyReadyJobsRun == Spec => []JobsStartRight
<1>1. ASSUME StartsInv
      PROVE  JobsStartRight
  <2>1. ASSUME NEW w \in Workers, worker[w].at = "execute"
        PROVE  Needs[Job(w)] \subseteq succeeded
    <3>1. worker[w] # Idle
      BY <2>1 DEF Idle
    <3>2. worker[w].task.kind = "exec"
      BY <1>1, <2>1, <3>1 DEF StartsInv, StepsOfKind
    <3>3. QED
      BY <1>1, <3>1, <3>2 DEF StartsInv, ExecutionsEarned, Earned, Job
  <2>2. QED
    BY <1>1, <2>1 DEF StartsInv, AcquiredOnce, JobsStartRight
<1>2. QED
  BY <1>1, StartsInvariant, PTL

\* A run shows success only if every job was completed with success, whatever happened to the
\* rows between the reading and the writing of the verdict.
THEOREM GreenIsEarned == Spec => []GreenRunEarned
<1>1. StartsInv => GreenRunEarned
  BY DEF StartsInv, VerdictsEarned, GreenRunEarned
<1>2. QED
  BY <1>1, StartsInvariant, PTL

-----------------------------------------------------------------------------
(* VerdictAtRest. *)

\* A step that leaves somebody who is going to look again.
LEMMA DebtLeft ==
  ASSUME RunFollows, excuse = {}, Debt', \A v \in Workers : Scheduling(v)' => Scheduling(v)
  PROVE  RunFollows'
BY DEF RunFollows

\* Whoever is going to look is not the worker that moves, or stays one that is going to.
LEMMA DebtKept ==
  ASSUME NEW w \in Workers, Debt, Pending(w) => Pending(w)',
         \A v \in Workers \ {w} : worker'[v] = worker[v],
         \A t \in Task : t.kind \in {"schedule", "exec"} /\ queue[t] > 0 => queue'[t] > 0
  PROVE  Debt'
<1>1. ASSUME NEW t \in Task, t.kind \in {"schedule", "exec"}, queue[t] > 0
      PROVE  Debt'
  BY <1>1 DEF Debt
<1>2. ASSUME NEW v \in Workers, Pending(v)
      PROVE  Debt'
  <2>1. CASE v = w
    BY <1>2, <2>1 DEF Debt
  <2>2. CASE v # w
    BY <1>2, <2>2 DEF Debt, Pending
  <2>3. QED
    BY <2>1, <2>2
<1>3. QED
  BY <1>1, <1>2 DEF Debt

\* A step that has nothing to do with the rows, before a worker that is not scheduling.
LEMMA NothingSeen ==
  ASSUME RunFollows, excuse = {}, UNCHANGED <<run, job>>, NEW w \in Workers,
         Pending(w) => Pending(w)',
         ~Scheduling(w), worker'[w].at \notin {"enqueue", "progress", "conclude"},
         \A v \in Workers \ {w} : worker'[v] = worker[v],
         \A t \in Task : t.kind \in {"schedule", "exec"} /\ queue[t] > 0 => queue'[t] > 0
  PROVE  RunFollows'
<1>1. \A v \in Workers : worker'[v].at \in {"enqueue", "progress", "conclude"} => worker'[v] = worker[v]
  OBVIOUS
<1>2. \A v \in Workers : Scheduling(v) => worker'[v] = worker[v]
  OBVIOUS
<1>3. Debt => Debt'
  BY DebtKept
<1>4. Verdict' = Verdict
  BY DEF Verdict, allJobsTerminal, computeRunConclusion
<1>5. run' = run
  OBVIOUS
<1>6. \A v, x \in Workers : Scheduling(v)' /\ Scheduling(x)' => v = x
  BY <1>1 DEF RunFollows, Scheduling
<1>7. \A v \in Workers : worker'[v].at = "progress" => Debt'
  BY <1>1, <1>3 DEF RunFollows
<1>8. \A v \in Workers : worker'[v].at = "conclude" => Debt' \/ worker'[v].verdict = Verdict'
  BY <1>1, <1>3, <1>4 DEF RunFollows
<1>9. \/ Debt'
      \/ \E v \in Workers : worker'[v].at = "conclude"
      \/ run' = [status |-> "completed", conclusion |-> Verdict']
  <2>1. ASSUME NEW v \in Workers, worker[v].at = "conclude"
        PROVE  worker'[v].at = "conclude"
    BY <1>2, <2>1 DEF Scheduling
  <2>2. QED
    BY <1>3, <1>4, <1>5, <2>1 DEF RunFollows
<1>10. QED
  BY <1>6, <1>7, <1>8, <1>9 DEF RunFollows

\* What has occurred has occurred.
LEMMA ExcuseGrows ==
  ASSUME TypeOK, StepsOfKind, [Next]_vars
  PROVE  excuse \subseteq excuse'
<1> USE DEF envVars, histVars
<1>1. ASSUME NEW w \in Workers, ReturnError(w) \/ Fault(w)
      PROVE  excuse \subseteq excuse'
  BY <1>1 DEF ReturnError, Fault, Retry
<1>2. ASSUME NEW w \in Workers, ListJobs(w) \/ ActComplete(w) \/ AcquireForRunner(w) \/ CancelRow(w)
      PROVE  excuse \subseteq excuse'
  BY <1>2 DEF ListJobs, ActComplete, AcquireForRunner, CancelRow
<1>3. ASSUME NEW w \in Workers,
             \/ (\E j \in Jobs : EnqueueJobExec(w, j)) \/ UpdateRunStatus(w) \/ UpdateRunConclusion(w)
             \/ SetInProgress(w) \/ (\E r \in {"success", "failure", "timed_out"} : ExecuteJob(w, r))
             \/ FinishJob(w) \/ EnqueueSchedule(w) \/ DispatchLoad(w)
             \/ (\E r \in {"success", "failure"} : ActExecute(w, r)) \/ FindRunner(w) \/ Ack(w)
      PROVE  excuse' = excuse
  BY <1>3 DEF EnqueueJobExec, UpdateRunStatus, UpdateRunConclusion, SetInProgress, ExecuteJob,
     FinishJob, EnqueueSchedule, DispatchLoad, ActExecute, FindRunner, Ack
<1>4. ASSUME \/ \E w \in Workers, t \in Task : Deliver(w, t)
             \/ \E r \in Requests : Request(r)
             \/ \E r \in Runners : Heartbeat(r)
             \/ UNCHANGED vars
      PROVE  excuse' = excuse
  BY <1>4 DEF Deliver, Request, Heartbeat, vars
<1>5. QED
  BY <1>1, <1>2, <1>3, <1>4 DEF Next, WorkerStep

\* A handler that has read the rows owes the run what it read.
LEMMA ListStep ==
  ASSUME TypeOK, StepsOfKind, RunFollows, NEW w \in Workers, ListJobs(w), excuse = {}, excuse' = {}
  PROVE  RunFollows'
<1>1. \A v \in Workers : ~Scheduling(v)
  BY DEF ListJobs
<1>2. \A v \in Workers \ {w} : worker'[v] = worker[v]
  BY ListsJobs DEF Becomes
<1>3. \A v, x \in Workers : Scheduling(v)' /\ Scheduling(x)' => v = x
  BY <1>1, <1>2 DEF Scheduling
<1>4. \A v \in Workers : worker'[v].at \in {"progress", "conclude"} => v = w
  BY <1>1, <1>2 DEF Scheduling
<1>5. CASE Becomes(w, "enqueue", findReadyJobs, worker[w].verdict, worker[w].result)
  <2>1. worker'[w] # Idle /\ worker'[w].at = "enqueue" /\ worker'[w].task = worker[w].task
    BY <1>5 DEF Becomes
  <2>2. worker[w].task.kind = "schedule"
    BY BusyWorker DEF ListJobs, StepsOfKind
  <2>3. Debt'
    BY <2>1, <2>2 DEF Debt, Pending
  <2>4. QED
    BY <1>3, <2>3 DEF RunFollows
<1>6. CASE Becomes(w, "conclude", worker[w].ready, Verdict, worker[w].result)
  <2>1. worker'[w].at = "conclude" /\ worker'[w].verdict = Verdict
    BY <1>6 DEF Becomes
  <2>2. Verdict' = Verdict
    BY DEF ListJobs, Verdict, allJobsTerminal, computeRunConclusion
  <2>3. \A v \in Workers : worker'[v].at = "progress" => Debt'
    BY <1>4, <2>1
  <2>4. \A v \in Workers : worker'[v].at = "conclude" => Debt' \/ worker'[v].verdict = Verdict'
    BY <1>4, <2>1, <2>2
  <2>5. QED
    BY <1>3, <2>1, <2>3, <2>4 DEF RunFollows
<1>7. QED
  BY <1>5, <1>6, ListsJobs

\* A handler that writes the verdict settles the run.
LEMMA ConcludeStep ==
  ASSUME TypeOK, StepsOfKind, RunFollows, NEW w \in Workers, UpdateRunConclusion(w), excuse = {}
  PROVE  RunFollows'
<1>1. /\ worker'[w].at = "ack" /\ \A v \in Workers \ {w} : worker'[v] = worker[v]
  BY RunType DEF Becomes
<1>2. queue' = queue /\ job' = job /\ Scheduling(w) /\ worker[w].at = "conclude"
  BY DEF UpdateRunConclusion, Scheduling
<1>3. \A v \in Workers : ~Scheduling(v)'
  BY <1>1, <1>2 DEF RunFollows, Scheduling
<1>4. CASE Debt
  <2>1. ~Pending(w)
    BY <1>2 DEF Pending
  <2>2. Debt'
    BY <1>1, <1>2, <1>4, <2>1, DebtKept
  <2>3. QED
    BY <1>3, <2>2 DEF RunFollows
<1>5. CASE worker[w].verdict = Verdict
  <2>1. Verdict' = Verdict
    BY <1>2 DEF Verdict, allJobsTerminal, computeRunConclusion
  <2>2. run' = [status |-> "completed", conclusion |-> Verdict']
    BY <1>5, <2>1 DEF UpdateRunConclusion
  <2>3. \A v \in Workers : worker'[v].at \notin {"progress", "conclude"}
    BY <1>3 DEF Scheduling
  <2>4. QED
    BY <1>3, <2>2, <2>3 DEF RunFollows
<1>6. QED
  BY <1>2, <1>4, <1>5 DEF RunFollows

\* The steps after which the handler of a schedule or exec task goes on to a look at the rows, or
\* has just put the task that will.
LEMMA OwingStep ==
  ASSUME TypeOK, StepsOfKind, RunFollows, NEW w \in Workers, excuse = {},
         \/ \E j \in Jobs : EnqueueJobExec(w, j)
         \/ SetInProgress(w) \/ (\E r \in {"success", "failure", "timed_out"} : ExecuteJob(w, r))
         \/ FinishJob(w) \/ EnqueueSchedule(w)
  PROVE  RunFollows'
<1>1. worker[w] # Idle
  BY BusyWorker DEF EnqueueJobExec, SetInProgress, ExecuteJob, FinishJob, EnqueueSchedule
<1>2. ASSUME NEW j \in Jobs, EnqueueJobExec(w, j)
      PROVE  RunFollows'
  <2>1. \A v \in Workers \ {w} : worker'[v] = worker[v]
    BY <1>2, EnqueuesJobExec DEF Becomes
  <2>2. Scheduling(w)
    BY <1>2 DEF EnqueueJobExec, Scheduling
  <2>3. \A v \in Workers : Scheduling(v)' => Scheduling(v)
    BY <2>1, <2>2 DEF Scheduling
  <2>4. JobTask("exec", j) \in Task /\ JobTask("exec", j).kind = "exec"
    BY NewTasks
  <2>5. queue'[JobTask("exec", j)] > 0
    BY <1>2, <2>4, PutQueues DEF EnqueueJobExec
  <2>6. Debt'
    BY <2>4, <2>5 DEF Debt
  <2>7. QED
    BY <2>3, <2>6, DebtLeft
<1>3. ASSUME SetInProgress(w) \/ (\E r \in {"success", "failure", "timed_out"} : ExecuteJob(w, r))
             \/ FinishJob(w)
      PROVE  RunFollows'
  <2>1. worker[w].task.kind = "exec"
    BY <1>1, <1>3 DEF SetInProgress, ExecuteJob, FinishJob, StepsOfKind
  <2>2. /\ worker'[w].at \in {"execute", "finish", "next", "fail"} /\ worker'[w] # Idle
        /\ worker'[w].task = worker[w].task
        /\ \A v \in Workers \ {w} : worker'[v] = worker[v]
    <3>1. CASE SetInProgress(w)
      BY <3>1, MarksInProgress DEF Becomes
    <3>2. ASSUME NEW r \in {"success", "failure", "timed_out"}, ExecuteJob(w, r)
          PROVE  Becomes(w, "finish", worker[w].ready, worker[w].verdict, r)
      <4>1. r \in JobConclusion
        BY DEF JobConclusion
      <4>2. QED
        BY <1>1, <3>2, <4>1, NotesResult DEF ExecuteJob, At
    <3>3. CASE FinishJob(w)
      BY <3>3, FinishesJob DEF Becomes
    <3>4. QED
      BY <1>3, <3>1, <3>2, <3>3 DEF Becomes
  <2>3. Debt'
    BY <2>1, <2>2 DEF Debt, Pending
  <2>4. \A v \in Workers : Scheduling(v)' => Scheduling(v)
    BY <2>2 DEF Scheduling
  <2>5. QED
    BY <2>3, <2>4, DebtLeft
<1>4. CASE EnqueueSchedule(w)
  <2>1. Becomes(w, "ack", {}, "", "")
    BY <1>1, <1>4, GotoBecomes DEF EnqueueSchedule, At
  <2>2. \A v \in Workers : Scheduling(v)' => Scheduling(v)
    BY <2>1 DEF Becomes, Scheduling
  <2>3. ScheduleTask \in Task /\ ScheduleTask.kind = "schedule"
    BY NewTasks
  <2>4. queue'[ScheduleTask] > 0
    BY <1>4, <2>3, PutQueues DEF EnqueueSchedule
  <2>5. Debt'
    BY <2>3, <2>4 DEF Debt
  <2>6. QED
    BY <2>2, <2>5, DebtLeft
<1>5. QED
  BY <1>2, <1>3, <1>4

\* A worker that loses its task gives it back, unless it gave up.
LEMMA RetryStep ==
  ASSUME TypeOK, StepsOfKind, RunFollows, NEW w \in Workers, worker[w] # Idle, Retry(w),
         UNCHANGED <<run, job>>, excuse = {}, excuse' = {}
  PROVE  RunFollows'
<1>1. Leaves(w)
  BY RetryLeaves
<1>2. PICK u \in Task : /\ u.kind = worker[w].task.kind
                        /\ \A x \in Task : queue'[x] > 0 <=> queue[x] > 0 \/ x = u
  BY RetryLeaves
<1>3. /\ worker'[w].at = "idle"
      /\ \A v \in Workers \ {w} : worker'[v] = worker[v]
  BY <1>1 DEF Leaves, Idle
<1>4. CASE u.kind \in {"schedule", "exec"}
  <2>1. Debt'
    BY <1>2, <1>4 DEF Debt
  <2>2. \A v \in Workers : Scheduling(v)' => Scheduling(v)
    BY <1>3 DEF Scheduling
  <2>3. QED
    BY <2>1, <2>2, DebtLeft
<1>5. CASE u.kind \notin {"schedule", "exec"}
  <2>1. ~Pending(w) /\ ~Scheduling(w)
    BY <1>2, <1>5 DEF Pending, Scheduling, StepsOfKind
  <2>2. QED
    BY <1>2, <1>3, <2>1, NothingSeen
<1>6. QED
  BY <1>4, <1>5

\* The handlers of dispatch and cancel tasks: while there is no excuse they change no row.
LEMMA OtherStep ==
  ASSUME TypeOK, StepsOfKind, RunFollows, NEW w \in Workers, excuse = {}, excuse' = {},
         \/ DispatchLoad(w) \/ (\E r \in {"success", "failure"} : ActExecute(w, r)) \/ ActComplete(w)
         \/ FindRunner(w) \/ AcquireForRunner(w) \/ CancelRow(w)
  PROVE  RunFollows'
<1> USE DEF envVars, histVars
<1>1. /\ worker[w].at \in {"load", "act", "complete", "find", "acquire", "cancelRow"}
      /\ run' = run
  BY DEF DispatchLoad, ActExecute, ActComplete, FindRunner, AcquireForRunner, CancelRow
<1>2. worker[w] # Idle /\ worker[w].task.kind \notin {"schedule", "exec"} /\ Job(w) \in Jobs
  BY <1>1, BusyWorker, JobKnown DEF StepsOfKind
<1>3. ~Pending(w) /\ ~Scheduling(w)
  BY <1>1, <1>2 DEF Pending, Scheduling
<1>4. JobTask("dispatch", Job(w)) \in Task
  BY <1>2, NewTasks
<1>5. "outside" \notin excuse'
  OBVIOUS
<1>6. job' = job
  <2>1. CASE ActComplete(w)
    BY <1>5, <2>1, ActCompletes
  <2>2. CASE AcquireForRunner(w)
    BY <1>5, <2>2, Acquires
  <2>3. CASE CancelRow(w)
    BY <1>5, <2>3, CancelsRow
  <2>4. QED
    BY <2>1, <2>2, <2>3 DEF DispatchLoad, ActExecute, FindRunner
<1>7. \A t \in Task : queue[t] > 0 => queue'[t] > 0
  <2>1. queue' = queue \/ Put(JobTask("dispatch", Job(w)))
    <3>1. CASE FindRunner(w)
      BY <3>1, FindsRunner
    <3>2. CASE AcquireForRunner(w)
      BY <3>2, Acquires
    <3>3. QED
      BY <3>1, <3>2 DEF DispatchLoad, ActExecute, ActComplete, CancelRow
  <2>2. QED
    BY <1>4, <2>1, PutQueues
<1>8. /\ worker'[w].at \notin {"enqueue", "progress", "conclude"}
      /\ \A v \in Workers \ {w} : worker'[v] = worker[v]
  <2>1. \/ Leaves(w)
        \/ \E at \in At, ready \in SUBSET Jobs, verdict \in RunConclusion, result \in JobConclusion :
             /\ Becomes(w, at, ready, verdict, result)
             /\ at \in {"enqueue", "progress", "conclude"} => worker[w].task.kind = "schedule"
    BY HandlerMoves DEF WorkerStep
  <2>2. CASE Leaves(w)
    BY <2>2 DEF Leaves, Idle
  <2>3. QED
    BY <1>2, <2>1, <2>2 DEF Becomes
<1>9. QED
  BY <1>1, <1>3, <1>6, <1>7, <1>8, NothingSeen

\* As long as nothing in excuse occurs the run is right, or owed a look.
LEMMA FollowsStep ==
  ASSUME TypeOK, StepsOfKind, RunFollows, [Next]_vars
  PROVE  RunFollows'
<1> SUFFICES ASSUME excuse' = {} PROVE RunFollows'
  BY DEF RunFollows
<1>0. excuse = {}
  BY ExcuseGrows
<1> USE DEF envVars, histVars
<1>1. ASSUME NEW w \in Workers, NEW t \in Task, Deliver(w, t)
      PROVE  RunFollows'
  <2>1. /\ worker'[w] # Idle /\ worker'[w].at = FirstStep(t.kind) /\ worker'[w].task = t
        /\ \A v \in Workers \ {w} : worker'[v] = worker[v]
        /\ \A u \in Task \ {t} : queue'[u] = queue[u]
    BY <1>1, DeliverBegins
  <2>2. worker[w] = Idle /\ UNCHANGED <<run, job>>
    BY <1>1 DEF Deliver
  <2>3. ~Pending(w) /\ ~Scheduling(w)
    BY <2>2 DEF Pending, Scheduling, Idle
  <2>4. worker'[w].at \notin {"enqueue", "progress", "conclude"}
    BY <2>1, TaskFields DEF FirstStep
  <2>5. CASE t.kind \in {"schedule", "exec"}
    <3>1. worker'[w].at \in {"list", "mark"}
      BY <2>1, <2>5 DEF FirstStep
    <3>2. Debt'
      BY <2>1, <2>5, <3>1 DEF Debt, Pending
    <3>3. \A v \in Workers : Scheduling(v)' => Scheduling(v)
      BY <2>1, <2>4 DEF Scheduling
    <3>4. QED
      BY <1>0, <3>2, <3>3, DebtLeft
  <2>6. CASE t.kind \notin {"schedule", "exec"}
    <3>1. \A u \in Task : u.kind \in {"schedule", "exec"} /\ queue[u] > 0 => queue'[u] > 0
      BY <2>1, <2>6
    <3>2. QED
      BY <1>0, <2>1, <2>2, <2>3, <2>4, <3>1, NothingSeen
  <2>7. QED
    BY <2>5, <2>6
<1>2. ASSUME NEW w \in Workers, UpdateRunStatus(w)
      PROVE  RunFollows'
  <2>1. /\ worker'[w].at = "ack" /\ \A v \in Workers \ {w} : worker'[v] = worker[v]
    BY <1>2, RunType DEF Becomes
  <2>2. queue' = queue /\ worker[w].at = "progress"
    BY <1>2 DEF UpdateRunStatus
  <2>3. Debt /\ ~Pending(w)
    BY <1>0, <2>2 DEF RunFollows, Pending
  <2>4. Debt'
    BY <2>1, <2>2, <2>3, DebtKept
  <2>5. \A v \in Workers : Scheduling(v)' => Scheduling(v)
    BY <2>1 DEF Scheduling
  <2>6. QED
    BY <1>0, <2>4, <2>5, DebtLeft
<1>3. ASSUME NEW w \in Workers, Ack(w)
      PROVE  RunFollows'
  <2>1. worker'[w] = Idle /\ \A v \in Workers \ {w} : worker'[v] = worker[v]
    BY <1>3 DEF Ack, TypeOK
  <2>2. UNCHANGED <<run, job, queue>> /\ worker[w].at = "ack"
    BY <1>3 DEF Ack
  <2>3. ~Pending(w) /\ ~Scheduling(w) /\ worker'[w].at = "idle"
    BY <2>1, <2>2 DEF Pending, Scheduling, Idle
  <2>4. QED
    BY <1>0, <2>1, <2>2, <2>3, NothingSeen
<1>4. ASSUME NEW w \in Workers, ReturnError(w) \/ Fault(w)
      PROVE  RunFollows'
  <2>1. Retry(w) /\ UNCHANGED <<run, job>> /\ worker[w] # Idle
    BY <1>4, BusyWorker DEF ReturnError, Fault
  <2>2. QED
    BY <1>0, <2>1, RetryStep
<1>5. ASSUME NEW w \in Workers, WorkerStep(w)
      PROVE  RunFollows'
  BY <1>0, <1>2, <1>3, <1>4, <1>5, ListStep, ConcludeStep, OwingStep, OtherStep DEF WorkerStep
<1>6. ASSUME UNCHANGED <<run, job, worker>>,
             \A t \in Task : t.kind \in {"schedule", "exec"} /\ queue[t] > 0 => queue'[t] > 0
      PROVE  RunFollows'
  <2>1. Debt => Debt'
    BY <1>6 DEF Debt, Pending
  <2>2. Verdict' = Verdict
    BY <1>6 DEF Verdict, allJobsTerminal, computeRunConclusion
  <2>3. QED
    BY <1>0, <1>6, <2>1, <2>2 DEF RunFollows, Scheduling
<1>7. ASSUME NEW r \in Requests, Request(r)
      PROVE  RunFollows'
  <2>1. JobTask(r[1], r[2]) \in Task
    BY WorkflowQueueAssumption, NewTasks
  <2>2. \A t \in Task : queue[t] > 0 => queue'[t] > 0
    BY <1>7, <2>1, PutQueues DEF Request
  <2>3. QED
    BY <1>6, <1>7, <2>2 DEF Request
<1>8. ASSUME NEW r \in Runners, Heartbeat(r)
      PROVE  RunFollows'
  BY <1>6, <1>8 DEF Heartbeat
<1>9. CASE UNCHANGED vars
  BY <1>6, <1>9 DEF vars
<1>10. QED
  BY <1>1, <1>4, <1>5, <1>7, <1>8, <1>9 DEF Next

\* When the queue has come to rest, the row of the run says what the rows of its jobs say: every
\* way for it not to is one of the three reasons noted in `excuse`.
THEOREM VerdictSettles == Spec => []VerdictAtRest
<1>1. Init => RunFollows
  <2> SUFFICES ASSUME Init PROVE RunFollows
    OBVIOUS
  <2>1. queue[ScheduleTask] = 1
    BY NewTasks DEF Init
  <2>2. Debt
    BY <2>1, NewTasks DEF Debt
  <2>3. \A w \in Workers : ~Scheduling(w)
    BY DEF Init, Idle, Scheduling
  <2>4. QED
    BY <2>2, <2>3 DEF RunFollows
<1>2. Spec => [](TypeOK /\ StepsOfKind /\ RunFollows)
  BY <1>1, InitType, StepType, FollowsStep, PTL DEF Spec
<1>3. ASSUME RunFollows, Quiet, excuse = {}
      PROVE  run = [status |-> "completed", conclusion |-> Verdict]
  <2>1. ~Debt
    BY <1>3 DEF Quiet, Debt, Pending
  <2>2. \A w \in Workers : worker[w].at # "conclude"
    BY <1>3 DEF Quiet, Idle
  <2>3. QED
    BY <1>3, <2>1, <2>2 DEF RunFollows
<1>4. RunFollows => VerdictAtRest
  BY <1>3 DEF VerdictAtRest
<1>5. QED
  BY <1>2, <1>4, PTL
=============================================================================
