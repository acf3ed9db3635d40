# A TLA+ model of open-git

open-git is a self-hosted Git forge: a Go server (`src/backend`) that keeps
repositories on disk, everything else in PostgreSQL, and runs CI workflows in
its own process; and a Next.js front end that only talks to the server's API.
These modules model the parts of the server in which several actors write the
same rows, branches, directories and objects: CI runs and their jobs, pull
requests with their merges and background checks, the queued workers (workflow
scheduler, runner dispatch, import, verification, artifact cleanup), and the
request handlers that take several statements over one database.

All paths below are relative to `src/backend/internal` unless they start with
`src/`.

## Contents

1. The system: parts, interaction, what is hard
2. The modules
3. The runs
4. The proofs
5. What the model found
6. Behaviour worth knowing
7. Abstractions and what is left out
8. Plan

## 1. The system

### Who runs when

* The HTTP server (echo): one goroutine per request. SSH sessions and the git
  smart protocol call the real `git` program for pushes and clones.
* CI: `ci.Trigger` creates a row in `workflow_runs` and `ci.Dispatcher` starts
  one detached goroutine per dispatch, `worker.CIWorker.HandleCIRun`
  (`src/backend/cmd/server/main.go:1083-1088`); nothing is queued and nothing
  survives a restart. Inside it, one goroutine per job of the workflow.
* asynq over Redis, only if a Redis address is configured: ten task goroutines
  that handle the mergeable check of a pull request, MCP verification and the
  hourly artifact cleanup. asynq delivers at least once and retries.
* PostgreSQL: most handlers run single statements outside any transaction.

Four workers are complete and tested but no binary starts them: the workflow
scheduler (`infrastructure/queue/workflow_*_handler.go`), the runner
dispatcher, the webhook worker and the GitHub importer (`worker/`).

### Parts

| Part | State it keeps | Operations | What is hard | What makes it correct |
|---|---|---|---|---|
| CI runs | `workflow_runs` (status, conclusion), `workflow_jobs` | created by a push or by hand, executed, cancelled, re-run | several executors and requests write one row; every write is a statement of its own; the process may stop | status and conclusion belong together; green is earned; a cancellation stays; every run ends |
| CI jobs of a run | goroutines, `done` channels, `jobResults` under `mu`, semaphore, run context | wait for needs, skip, take a slot, execute each matrix instance, record, close | order of closing, locking and cancelling; half-failed matrix | needs hold, slots come back, the verdict is that of the jobs, the handler returns |
| Pull requests | `pull_requests` rows, `pr_reviews`, branch heads on disk | create, edit, review, merge (merge, squash, rebase) | rows are read, held and written back whole; branches are set without comparing | a merged row was really merged, had its reviews, its green head; branches lose nothing |
| Mergeable check | the task's memory, the base branch it borrows | trial merge on the real base, restore, save | a stop, a push or a merge between trial and restore | it leaves the base as it was |
| Git merge | trees | three-way merge of root trees | deletions, fast-forwards, repeated merges | symmetric, order-independent, repeatable |
| Git transport | branch heads | push, clone, create and delete branches | a push against a merge; which pushes start runs (the SSH server has no push listener, `main.go:1193`) | a push is atomic and reported once |
| Workflow scheduler, runner dispatch (not wired) | run and job rows, asynq tasks | schedule ready jobs, execute, complete | duplicate delivery, retries | each job runs once, the run's conclusion is that of its jobs |
| Runners | runners, one-time tokens | register, heartbeat, delete | token used before runner exists | one token, one runner |
| GitHub import (worker not wired) | `import_jobs`, checkpoints per phase | create, run phases, cancel, retry | cancel against a running worker; resume | a completed import is whole, nothing is imported twice, every import ends |
| Webhooks (worker not wired) | `webhook_deliveries` | trigger, ping, redeliver, deliver with retries | a row created twice under one id | every delivery is attempted and its row says how it went |
| Artifacts | rows and objects in MinIO | create, complete, delete, hourly cleanup | two stores that fail separately | no object that no row names, expired ones go away |
| OAuth, tokens, sessions | codes with a lifetime (memory or Redis), tokens, authorizations | authorize, exchange, revoke | a code used twice; three writes in a row | a code gives at most one token, a token is visible to its user |
| Rate limits | token buckets in memory, per process | count, refuse | | no more than the rate per client |
| Repositories | rows, bare repositories on disk | create, rename, delete | a row and a directory written one after the other, cleaned up on error | a repository has its own directory where git looks for it |
| Organizations | organization, memberships, roles | create, invite, remove, delete | decisions on roles read earlier | an organization has an owner |
| Issues, labels, milestones | rows with a number per repository | create, edit, delete | numbers by MAX + 1, connections held in transactions | numbers are unique, a creation gets one |
| MCP verification | runs (one active per organization), checks | request, execute with retries, delete | enqueue or the last retry fails | the active run ends |
| Workflow parser, expressions | none | YAML to jobs, needs, matrix; `if:` | cycles, unknown needs, include and exclude | an accepted graph is acyclic; a matrix loses nothing |
| Secrets, security, audit, compat, perf, docs, preferences | rows | single-statement reads and writes | little | |
| Database, wiring, GraphQL, front end | none of their own | | | |

The same list, with files and the reason for whatever is not modelled, is in
`PROJECT.json` under `components`; what can go wrong in each part, line by
line, is under `hazards`.

### How they interact

A push moves a branch and, if it comes over HTTP, creates CI runs for it. A merge of a
pull request reads the runs of the head commit (branch protection), the reviews,
and sets the base branch, but starts no run. Creating a pull request enqueues
its mergeable check, which merges into the real base branch and sets it back.
So pushes, merges and checks meet on branch heads, and requests and executors
meet on run and job rows; neither is guarded by a lock or, apart from the
`cancelled` guard of `setStatus` and `markRun`, by a condition in the SQL.

The queued workers meet their own second delivery, each other, and the requests
that cancel, retry or delete what they work on. Verifications and the artifact
cleanup share the goroutines of one asynq server. Transactions exist in name:
no repository takes the transaction out of the context
(`infrastructure/database/tx.go`, `TxFromContext`, has no caller), so that the
statements inside `RunInTransaction` run outside it, on a connection of their
own. PostgreSQL checks the `REFERENCES` clauses of the schema; the SQLite
connection is opened without the pragma that would.

## 2. The modules

```
CIRuns ──── CIRunsProofs            rows of runs, executors, requests
   ▲  └──── MCCIRuns
   │ INSTANCE (refinement mapping)
CIJobsRefinement ── MCCIJobs
   │ EXTENDS    └── CIJobsProofs
CIJobs ──── WorkflowFile            goroutines of one executor; parsing of the graph and matrix
Expression ── JobSteps ── JobStepsChecks (extended by MCCIJobs)
                                    conditions, and the steps they let run

PullRequests ── PullRequestsProofs  rows, branches, checks, merges
   └────────── MCPullRequests
TreeMerge                           threeWayMergeTrees, with its theorems

WorkflowQueue ── MCWorkflowQueue    scheduler, job execution, runner dispatch, over asynq
   └─────────── WorkflowQueueProofs
ImportJobs ───── MCImportJobs       one GitHub import
   └─────────── ImportJobsProofs

TaskServer ───── MCTaskServer       one pool of worker goroutines
   │     └────── TaskServerProofs
   ├ McpVerification                  verification runs
   └ Artifacts                        rows, objects, hourly cleanup

Handlers ─────── MCHandlers         requests over one database
   │     └────── HandlersProofs
   ├ OAuthGrants                      codes, tokens, authorizations
   ├ OrgMembers                       roles of one organization
   ├ Numbering                        numbers of issues, pull requests, milestones
   ├ Repositories                     rows and directories
   └ Database (extended by the four)  the two databases
```

In every module a variable marked "history" in its comment is not state of the
code; it only lets a property speak of the past.

### CIRuns

One row per run, one executor per dispatch, a few concurrent HTTP requests.
An executor is named by run and attempt, `<<r, n>>`; the attempt is a history
variable, for the code has no such thing (that is why its executors get into
each other's way).

| Model | Code |
|---|---|
| `run[r]` | `workflow_runs.status`, `.conclusion` |
| `row[e][j]` | `workflow_jobs` row the executor created for job `j` |
| `pc[e]`, `task[e]`, `fatal[e]` | where `HandleCIRun` and its job goroutines are |
| `req[q]` | a request between two of its statements |
| `CreateRun`, `Dispatch` | `infrastructure/ci/trigger.go` `createAndDispatch` |
| `CancelCheck`, `CancelRunRow`, `CancelJobRows`, `CancelFails` | `CancelRunUsecase.Execute`, repository `Cancel` |
| `RerunReset`, `RedispatchFails` | repository `Rerun`, `Trigger.Redispatch` |
| `CheckLimit`, `RejectRun`, `AdmitRun` | plan tier, `countRunning`, `markRun`, `setStatus` |
| `RejectWorkflow`, `StartJobs`, `AbortPreamble` | parsing, secrets, checkout |
| `StartJob`, `FinishJob`, `SkipJob`, `SkipJobDone`, `CreateJobFails`, `DropJob` | the job goroutines |
| `FinishRun`, `FinishFatal` | the end of `HandleCIRun` |
| `Crash` | the server process stops |

Every SQL statement is one action. `Faults` says what may fail: `"db"`, which
also stands for a statement that fails because the request's context was
cancelled; `"secrets"`; `"git"`, the re-read of a workflow file by a re-run;
`"crash"`.

### CIJobs and CIJobsRefinement

The goroutines of one executor at the grain of channels and locks: a job waits
for `done` of its needs or for the run context, looks whether the context is
alive, is gated by needs and `if:`, takes a slot of the semaphore, creates,
executes and completes each matrix instance, records its result under `mu`,
gives its slot back and closes its channel. The run comes with one of `Files`,
which `WorkflowFile` must accept. `fate` chooses once what the steps
of an instance would come to, so that "the result does not depend on the
schedule" can be said at all.

`CIJobsRefinement` maps this state to that of `CIRuns` and states
`ImplementsExecutor`: every step of the goroutines of a run without a matrix is
a step `CIRuns` lets an executor take, or invisible to it.

### WorkflowFile

`buildDAG` and `expandMatrix` of `infrastructure/workflow/parser.go` as pure
operators over a file that YAML has been decoded from: a record of needs and
matrix per job and of the jobs whose `if:` does not hold. `MCCIJobs` compares
them with reference definitions over all small inputs, in two named
assumptions that TLC evaluates: `OrderCorrect` (a file is refused exactly for
an unknown or circular need, and every job comes after its needs; all 4096
graphs of three jobs and one unknown name) and `MatrixCorrect` (the product is
complete and without duplicates, exclude removes all it matches, include loses
nothing; all matrices of two keys with two values, with one include and one
exclude row).

### Expression and JobSteps

`Expression` is `infrastructure/workflow/expression.go` over tokens
(`ParseExpression`, with its four levels of left-associative operators) and
`expression_eval.go` (`EvaluateCondition`: truth, loose equality, order, short
circuits, the status functions). `JobSteps` is `runJobSteps`: which steps of an
instance run and whether it fails. Both are pure, and `JobStepsChecks` compares
them with what they should compute, in assumptions TLC evaluates in
`CIJobsRun`:

* `PrecedenceCorrect`: a tree written with just the parentheses its precedences
  ask for is read back as that tree; all trees of two levels, and some of three.
* `NothingDropped`: an expression that gets no diagnostic is read to its end, in
  order; all sequences of up to four tokens, alone and as arguments of a call.
* `ComparisonsAgree`, `ConditionsEvaluate`: equality is symmetric, an order is
  not both ways; evaluation fails only for a function without meaning, and not
  where `&&` or `||` is already decided.
* `StepsCorrect`: an instance fails exactly if a step that ran failed or a
  condition could not be evaluated; a step without a condition runs exactly as
  one with `success()` does; `failure()` takes what `success()` leaves; all jobs
  of up to three steps, with seven conditions.
* `OnlyTheSpanCounts`: see section 6.

The instances of `CIJobs` evaluate a job's condition by the same operators: at
the level of jobs the status is never set, so a job with `if: failure()` is
always skipped.

### PullRequests

A commit is the set of changes it contains; a branch is the commit it points
to; a merge is a union, unless the two sides clash. (`TreeMerge` justifies the
union.) A squash or rebase makes another commit with the same content; content
is what the properties tell apart.

| Model | Code |
|---|---|
| `ref[b]` | branch heads on disk |
| `row[p]` | `pull_requests`: state, merge commit, mergeable |
| `approvals[p]`, `green` | approving reviews; commits whose runs succeeded |
| `check[p]` | the asynq task of the mergeable check, with the copies it holds |
| `req[q]` | a merge or edit request with the copies it holds |
| `landed[b]` | history: what was pushed to or merged into a branch |
| `MergeLoad` ... `MergeRecord` | `MergePRUsecase.Execute`: load, reviews, checks, resolve, write base, write head (rebase), record |
| `EditLoad`, `EditSave` | `UpdatePullRequest`, which writes the whole row back |
| `CheckLoad` ... `CheckSave`, `CheckFails` | `HandlePRMergeableCheck` and asynq's retry |
| `Push`, `ChecksPass`, `CreatePR`, `Approve`, `Crash` | the environment |

### TreeMerge

`threeWayMergeTrees` of `infrastructure/git/git_service.go`, name by name. It
has no state: it is a function with four theorems. Only root trees are merged,
so a name may be a whole directory, and two changes below one directory
conflict, as in the code.

### WorkflowQueue

The queued way of executing a run: `HandleWorkflowSchedule`,
`HandleWorkflowJobExec`, `HandleDispatchJob` and `HandleCancelJob` as asynq
tasks over the rows of one run and its jobs. `queue[t]` counts how often a task
waits in Redis, `worker[w]` is where a worker goroutine is and what it has
read. A handler that returns an error, or whose process stops (`Fault`), is
delivered again from its start until its retries are used up. `ListJobs` reads
the rows and decides; `EnqueueJobExec`, `UpdateRunStatus` and
`UpdateRunConclusion` act on that reading later; `AcquireForRunner` is the one
`UPDATE` guarded by status and lock version. `excuse` records what the final
property does not survive: overlapping schedule handlers, exhausted retries,
and the dispatch and cancel handlers, which schedule nothing.

### ImportJobs

One import: `CreateImportJobUsecase`, `CancelImportJobUsecase`,
`RetryImportJobUsecase`, and `ImporterWorker.HandleGitHubImport` phase by phase
(mirror, repository row, issues and pull requests page by page, comments) with
its checkpoints. The state has the row, the checkpoints, and everything the
phases leave behind: the clone on disk, the repository row, inserted rows,
comments. Two payload kinds: the worker's test payload, and the one the wired
enqueuer makes, which names no source.

### TaskServer: McpVerification and Artifacts

`McpVerification`: `RunVerificationUsecase` (monthly limit, unique index on the
active run, create, enqueue), the worker (start, checks, insert, finish), its
retries, `DeleteVerificationUsecase`. `Artifacts`: presigned upload, complete,
delete, and the cleanup worker with its loop over batches. `TaskServer` puts
both on `Concurrency` goroutines; a delivery needs a free one. Losing or
failing calls are bounded by `MaxFaults`, shared by both.

### Handlers: OAuthGrants, OrgMembers, Numbering, Repositories

Every request is one call of one handler, one statement per step; `enforced`
says whether the database checks references, as PostgreSQL does and SQLite, as
opened here, does not. Handlers of different areas share no row, so the
requests of one behaviour are all of one `area`.

| Module | Code |
|---|---|
| `OAuthGrants`: `Authorize`, `GetDel`, `CheckClient`, `IssueToken`, `UpsertAuthorization` | authorize and token usecases, the in-memory code store |
| `StartRevocation`, `RevokeTokens`, `DeleteAuthorization`; `GetApp`, `DeleteApp` | `handler/oauth_app_handler.go` |
| `OrgMembers`: `CheckCaller`, `ReadTarget`, `EnsureNotLastOwner`, `AddMember`, `UpdateRole`, `RemoveMember`; `Ask`, `AddFirstOwner`, `DeleteOrg` | the usecases of `usecase/org` |
| `Numbering`: `RunInTransaction`, `NextNumber`, `Insert`, `Conflict`, `InsertAuditLog`, `Commit` | creation of issues and pull requests, with its connection and retries |
| `StartCreation` of a milestone, `GetMilestone`, `DeleteMilestone` | creation without transaction, retry or unique key; deletion |
| `Repositories`: `GetByOwnerAndName`, `InsertRepository`, `InitDirectory`, `UndoRow`, `UndoDirectory` | `CreateRepositoryUsecase.Execute` for users and organizations |
| `GetOwned`, `UpdateName`, `DeleteRepository` | `handler/repository_handler.go` |

## 3. The runs

| Run | Instance | Shows | States |
|---|---|---|---|
| `CIRunsOnce` | 2 runs of one free organization, one with a broken workflow, 2 jobs, 2 requests, 1 attempt, all faults | type, `StatusAgrees`, `SuccessEarned`, `GreenRunHasNoRedJob`, `CancelSticks`, `ResultStands`, `CancelledExecutorIsSilent` | 112 k |
| `CIRunsLive` | 1 run, 1 job, 2 attempts, 3 requests, re-runs that cannot read the workflow, fairness | `ActiveRunHasOwner`, `EveryRunSettles` | 63 k |
| `CIJobsRun` | 3 jobs in 6 graphs, 2 of which are refused, a matrix of 2, a false `if:`, 2 slots, failing database, users who cancel rows, fairness | the jobs' properties, `HandlerReturns`, `ImplementsExecutor` | 406 k |
| `PRConcurrent` | 1 pull request, 2 rebase requests, pushes, a check with a retry, every fault | type, `MergeIsReal`, `MergeWasApproved` | 4.9 M |
| `PRSerial` | 2 clashing pull requests, 1 request, 2 checks, merge and rebase, failing database, branches held exclusively | `BranchesAsLanded`, `MergesGreenHead`, `MergedIntoBase` | 894 k |
| `WorkflowQueueRun` | a job that needs another, 2 workers, 1 runner, 1 retry, 1 fault, 1 request from outside | type, `JobsStartRight`, `GreenRunEarned`, `VerdictAtRest` | 492 k |
| `ImportJobsRun` | 2 pages of issues, 1 of pull requests, 2 workers, retries by asynq and user, 2 faults, fairness | type, `CompletedIsWhole`, `CommentsOnce`, `EveryImportSettles` | 351 k |
| `TaskServerRun` | 2 verifications, 1 artifact, 1 worker goroutine, 2 faults, fairness | type, `CompletedHasChecks`, `NoObjectLeft`, `EveryVerificationSettles`, `ExpiredGoes` | 585 k |
| `HandlersRun` | 3 requests, 2 users, both databases | type, `GrantsAccounted`, `OwnerRemains`, `NumbersAllocated`, `RepositoryServed` | 182 k |
| `CIRunsStaleExecutor`, `PRCheckCrash`, `RepositoryLost` | | each violates one property: section 5 | |

Why the bounds are enough. Two actors on one row are what most of these races
need; a third only repeats the second, except where the race itself has three
parts: a cancel between re-run and executor (`CIRunsLive`), a pool that several
creations use up, a revocation between two exchanges (`HandlersRun`); there
are three. Two attempts make an old and a new executor. Two slots for three
jobs make one of them queue for the semaphore; a job that needs another beside
a free one gives a goroutine to wait for, one to overtake, and one to be torn
down in the middle. Two tries make one retry. Two pull requests against one
base that clash give both answers of the trial merge and a merge that
invalidates the other one. A pool of three connections and two attempts, in
place of 25 and 5, are used up by three requests. Where a property holds for
all constants, section 4 says so, and the run is a check of the same formula
before its proof.

`PRSerial` checks `SerialSpec`, the specification with the step condition
`Exclusive` added: a branch that an
actor has read in order to write it, or in order to rely on it, is not touched
by another. The code has no such lock. The run shows that everything else about
merging, its order, its error paths and retries, is right, and so that the lost
updates of sections 5 and 6 come from the missing exclusion and nothing else.
`CIRunsOnce` and `PRConcurrent` make no such assumption.

Many properties have the form "unless ...": the exceptions are what the code
does not survive, each named by a state or a history variable, and each is
reachable in the run. What the property then says is that there is no other.

Symmetry is used over requests, users, names, workers and jobs, which no
definition tells apart, and never in a run with a liveness property. Runs
switch deadlock checking off where the system may stop: every run over, every
bounded counter used up.

Bounds: `MaxAttempts` (dispatches of a run), `MaxReviews`, `MaxTries` and
`McpTries` (asynq's retries; 5 for the mergeable check, 25 by default),
`MaxFaults`, `MaxRequests`, `MonthlyLimit`, `BatchSize`, `PageSize` (1000 in
`ListByOrg`), `MaxCombos` (256), and the number of `Changes`, each pushed at
most once. No run lets an edit close or reopen a pull request (`EditStates` is
empty); the theorems do.

### Fairness

`CIRuns`: weak fairness of every request that has begun and of every executor.
The Go scheduler runs every goroutine, steps end within `ciStepTimeout`, and
HTTP handlers run to their end; nobody has to send a request, and nothing fair
is assumed of faults. `CIJobs`: weak fairness of every job goroutine and of the
handler. A `select` that could take a slot keeps that choice while the slot
stays free, and as jobs are finitely many and each takes it once, weak fairness
is enough where strong fairness would usually be needed. `ImportJobs`: weak
fairness of workers that have a task and of deliveries. `TaskServer`: weak
fairness of requests and handlers, and of the timeout that ends a cleanup which
spins; strong fairness of each kind of delivery, for a waiting task is enabled
only while a goroutine is free, and the waiting list in Redis is first in,
first out. `WorkflowQueue` states safety only: a dispatch task for a job that
is no longer queued puts itself back for ever, so that nothing ever comes to
rest by fairness. Pull requests and handlers state safety only.

## 4. The proofs

Every invariant and every action property a passing run checks is also a
theorem, and so is the refinement of `CIRuns` by `CIJobs`. The theorems hold
for any number of runs, jobs, requests, pull requests, branches, workers, users
and faults, and for every value of the bounds. They assume what the named
assumption of each module says, which are the types of its constants and:

* `CIJobsAssumption`: finitely many jobs, at least one slot, and at least one
  combination for each job. `HandleCIRun` iterates over a slice of jobs; a
  matrix that comes to nothing is replaced by one empty combination
  (`ci_worker.go:502-505`), as `CombosOf` has it. That the product of a matrix
  is finite is an assumption because its cardinality is the outcome of
  `expandMatrix`, a fold over data that the prover does not evaluate; the check
  of `MatrixCorrect` evaluates it.
* `NumberingAssumption`, `OrgMembersAssumption`: finitely many requests and
  users, a pool of at least one connection, at least one attempt. Connections
  and owners are counted, and only finite sets can be.

Four groups have a hypothesis of their own, in the statement:

| Theorem | Hypothesis | Why |
|---|---|---|
| `CIRunsProofs!SilentWithoutRerun`, `ResultStandsWithoutRerun`, `GreenRunShowsNoRedJob` | `MaxAttempts = 1` | with a re-run the old executor goes on; `CIRunsStaleExecutor` |
| `CIRunsProofs!ActiveRunsAreOwned` | `Faults \subseteq {"git"}` | a failed statement or a crash leaves a run to nobody |
| `PullRequestsProofs!Serial...` | `SerialSpec` | without exclusion updates are lost: sections 5 and 6 |
| the same | `Faults \subseteq {"db", "queue"}` | a restore that fails, or a crash before it, leaves the trial merge in the base: `PRCheckCrash` |

`CIRunsProofs`

* `TypeCorrect`.
* `StatusAlwaysAgrees`: `StatusAgrees` is inductive with `TypeOK`. The lemma
  `ExecutorWrites` says all an executor can make of a row: nothing, or
  `in_progress` with the conclusion left, or a status with its conclusion, and
  only if the row is not cancelled.
* `CancelAlwaysSticks`: an action property, from the same lemma.
* `DispatchesAreFresh`: the strengthening `DispatchInv`. Attempts are counted,
  none beyond the count was used, a dispatch in flight names one that has not
  begun, and no two name the same. Without it one cannot exclude that a
  dispatch restarts an executor whose success the row still shows.
* `SuccessAlwaysEarned`: with `DispatchInv`, an executor that is done stays
  done and keeps its results, so a green row keeps its witness.
* `SilentWithoutRerun`: a cancelled executor never writes the row again. The
  strengthening `StoppedStaysCancelled` is that its run is still cancelled.
* `ActiveRunsAreOwned`: `OwnerInv` follows the ownership of an active run from
  hand to hand, from the request that is going to dispatch it
  (`QueuedIsDispatched`) to the executor before and after admission
  (`InProgressIsExecuted`).
* `ResultStandsWithoutRerun` and `GreenRunShowsNoRedJob`: `OnceInv` says that a
  row stays open while its one executor lives (`OpenUntilDone`), and that a red
  job row has its reason: a cancelled one belongs to a cancelled run
  (`CancelledFirst`), a failed one to a job that failed (`FailedFirst`).

`CIJobsProofs`

* `TypeCorrect`: needs `SlotsCounted`, the semaphore's count is the number of
  jobs that hold a slot, or a slot could be given back that was never taken.
* `NeedsAreHonored`: `FlowInv` ties the program counter of each job to what is
  in `results` and which channels are closed; a closed channel belongs to a job
  that is decided and does not change any more. So a job that passed its waits,
  found the context alive and read `results` under `mu` has seen final values.
* `ScheduleDoesNotDecide`: `OutcomeInv`, what a job has come to so far is what
  its instances up to now come to.
* `VerdictIsOfJobs`, `RowsAreSettled`: `VerdictInv` says what the flags of the
  run know of the jobs, and `RowsInv` what the rows of instances behind, at and
  before the current one can be (`CombosInv`: instances come one by one).
* `ExecutorImplemented`: initial states map to initial states, and one lemma
  for each action of `CIJobs` maps its step to a step of the executor of
  `CIRuns` or to a stutter. `BoardInv` has what the images' guards ask for in
  addition, such as that one job at a time is between creation and completion
  of a row under `mu`.

`PullRequestsProofs`

* `TypeCorrect`.
* `MergeAlwaysReal`: `MergeIsReal` is not inductive, as rows are written from
  copies; `RealInv` adds that a copy in flight that says `merged` is a copy of
  a row that has a merge commit, and merge commits are never erased.
* `MergeAlwaysApproved`: `ApprovedInv` adds that a request past the review count
  belongs to a pull request with enough approvals; approvals only grow.
* `SerialBranchesAsLanded`, `SerialMergesGreenHead`, `SerialMergedIntoBase`:
  `SerialInv` says what each holder of a branch has in hand: a check that is
  going to restore holds all that has landed on the base (`SavedOf`), a merge
  that is going to write holds what the branches are (`ResolvedOf`) and a head
  with successful runs (`GreenOf`), and a branch nobody has borrowed is what
  has landed on it (`LandedAt`). `HeldStill` and `BorrowedStill` are where
  exclusion is used: nobody moves a branch, or lands on one, under its holder.
  `CreatedFirst`, which needs no exclusion, excludes that creating a pull
  request enqueues a check over one that is at work.

`TreeMerge`

* `MergeSymmetric`, `FastForwardAgrees`, `MergeTwiceIsOnce`,
  `MergeOrderIrrelevant`, for all trees: the reasons why a branch may be taken
  for the set of its changes. `MergeTwiceIsOnce` also says exactly when a
  second merge leaves a nameless entry.

`WorkflowQueueProofs`

* `TypeCorrect`, with `StepsOfKind`: handlers are at steps of their own task.
* `OnlyReadyJobsRun`: `ExecutionsEarned`, wherever an execution of a job waits
  in the queue, is being decided on or runs, its needs have succeeded;
  `AcquiredOnce`, the lock version counts the acquisitions.
* `GreenIsEarned`: `VerdictsEarned`, a handler about to write success has read
  every job as successful, and a success once true of a job stays in history.
* `VerdictSettles`: `RunFollows`. As long as schedule handlers do not overlap
  and nothing in `excuse` has occurred, the run's row is right, or somebody owes
  it a look (`Debt`): a schedule task that waits, a handler that has read and is
  about to write, or a job whose completion will enqueue one.

`TaskServerProofs`

* `TypeCorrect` and `ChecksOfCompleted`: `ChecksCounted`, a delivery inserts
  checks once and after it was counted; `EnqueuedOnce`, a run waits for one
  request, which alone enqueues its task.
* `ObjectsGoWithRows`: `RemovedFirst`, whoever is about to delete a row has
  removed its object, and an object that came back since is noted.

`HandlersProofs`. The areas share no rows; each has its own invariant and
`HandlersInv` is their conjunction.

* `TypeCorrect`.
* `GrantsAreAccounted`: `RevocationClears`, between the two statements of a
  revocation only tokens issued meanwhile live.
* `OwnerStays`: `ReadingHolds`. A request that is about to demote or remove an
  owner on a reading that no write has overtaken leaves another owner
  (`ChangeFits` ties each step to what it was decided for).
* `NumbersAreAllocated`: `NumbersAbove`, a number is greater than those seen
  when it was chosen; `AttemptsOvertaken`, each attempt that fails was
  overtaken by an insertion of its own, so that a creation that gives up was
  overtaken as often as it tried; `ConnectionsHeld`, as for the semaphore. That
  a finite set of numbers has a maximum is `MaxBounds`, by well-foundedness of
  strict inclusion, for induction over the set is not available.
* `RepositoriesAreServed`: `PathsKept`, nobody else is in the middle of making
  or removing a directory at the path of a creation that shares it with none.

`ImportJobsProofs`

* `TypeCorrect` and `CompletedImportIsWhole`: `Progress` says what every
  checkpoint stands for, in the row and in the copies the workers work from;
  `MirrorAlone`, one worker at most writes the clone.
* `CommentsInsertedOnce`: `CommentsLeft`, the comments of an issue are left to
  the one worker whose insertion made the issue's row.

All strengthenings were also checked by TLC on the instances of section 3.

Only model-checked:
* liveness under fairness, which is beyond the prover: `EveryRunSettles`,
  `HandlerReturns`, `EveryImportSettles`, `EveryVerificationSettles`,
  `ExpiredGoes`;
* what `buildDAG`, `expandMatrix`, `ParseExpression`, `EvaluateCondition` and
  `runJobSteps` compute for every input: induction over data, and recursive
  operators the prover has no backend for;
* the absence of deadlock in `CIJobsRun`.

## 5. What the model found

Three runs end in a counterexample to something a comment or a test of the
repository says. `PROJECT.json` quotes the lines under `findings`.

* `CIRunsStaleExecutor`: cancel, then re-run. The re-run clears the conclusion
  that the cancel guard tests; the old executor, which nothing stops, writes
  its verdict into the row of the new attempt.
* `PRCheckCrash`: the server stops between trial merge and restore; the retry
  takes the merged base for the original. The change of a pull request nobody
  merged stays in the base.
* `RepositoryLost`: repositories of an organization belong, in their row, to
  the administrator who created them, but lie at `<organization>/<name>.git`.
  A second administrator who uses the name gets past the unique key; the
  directory is there, initialization fails, and the clean-up of the failed
  creation removes it. No step overlaps another.

## 6. Behaviour worth knowing

Reachable in the models, and excused by name in the properties or described as
hazards. None of it contradicts a line of the repository outright.

CI runs and jobs
* A cancel between an executor's last write and its own unconditional `UPDATE`
  turns success into cancelled (`ResultStands` allows precisely that).
* An executor goes on inserting job rows into a cancelled run.
* The second statement of a cancel, overtaken by a re-run, can hit a row that
  is being skipped; completing it fails, which is fatal, and the run stays in
  progress (`Derailed`). A re-run whose workflow file cannot be read leaves the
  row queued (`Stranded`). Runs in progress at a crash stay so and count
  against the plan.
* The plan limit is counted and the run marked in two statements: runs started
  together both pass (`ci_worker.go:287`).
* An include row that matches a combination is added as a copy and the original
  stays; a matrix with only `include` keeps one empty combination; exclude is
  applied after include; a job whose matrix comes to nothing runs once without
  it (`ci_worker.go:502-505`).

* What stands around the first `${{ }}` of a condition is ignored:
  `!${{ failure() }}` means `failure()` (`expression_eval.go:413-420`). A literal
  has no quotes left when it is evaluated: `'true'` is a truth value and `'1'` a
  number. `hashFiles` and `fromJSON` parse and do not evaluate: a step whose
  condition needs one fails its job. A step with a condition that names no
  status function runs although the job has failed; a job whose condition is
  `failure()` never runs.

Pull requests and trees
* Two merges into one base that overlap are both recorded, one is lost
  (`git_service.go:770`). An edit that read the row before a merge writes
  `open` back (`pull_request_repository.go:152`).
* A name deleted by both sides leaves a nameless tree entry.

Queued workflows (not wired)
* Overlapping schedule handlers can leave a run in progress for ever, or mark a
  run failed as deadlocked while its jobs still run.
* A second delivery sets a completed job back to in progress and runs it again.

Import (worker not wired)
* The enqueuer's payload names no source: the task is dropped and the row stays
  queued. As wired, the check of the target name refuses every import, for the
  look-up answers a free name without an error.
* A stop between creating the repository and saving the checkpoint, or in the
  middle of the mirror, leaves what the next attempt refuses to go on from. A
  stop between an issue's row and its comments loses the comments.
* A cancelled import is set running, and in the end completed, by its worker.

Verifications and artifacts
* An enqueue or last delivery that fails leaves the run active, and the unique
  index refuses all later ones of the organization. Deleting rows lowers the
  month's count.
* Full batches that cannot be deleted are listed again at once: the cleanup
  spins until its timeout of 30 minutes and holds a worker goroutine. A hundred
  artifacts that can never be deleted could starve the others. Artifacts whose
  upload was never completed are not cleaned; an upload by a URL that is still
  valid may come after the deletion.
* Migration 028 recreates tables "identically to migration 022" without their
  indexes.

OAuth and organizations
* On PostgreSQL the row of an authorization names the user by a decimal number
  where the key expects a UUID: every exchange fails after its token was
  issued. On SQLite deleting an application leaves its tokens, which the
  comment at `oauth_app_handler.go:293` expects to go. A code exchanged in the
  middle of a revocation leaves a live token without an authorization.
* Two owners who demote or remove each other leave an organization without an
  owner; so does a creation that fails between its two rows. `ListByOrg`
  returns 1000 memberships with owners last, so that in a larger organization
  the removal of an owner is refused. On PostgreSQL an organization with
  members cannot be deleted; on SQLite its memberships stay.

Issues, pull requests, milestones
* The transaction around a creation contains nothing and holds a connection
  while each statement takes another: as many creations at once as the pool has
  connections wait for each other until the 30 seconds of the timeout
  middleware. Recording a merge uses the same pattern.
* Two milestones created at the same time get one number; a deleted one's
  number is used again, and its issues keep its id.

Repositories
* A rename changes the row and not the directory: git no longer finds the
  repository, which pull requests and CI still reach by `git_path`; creating a
  repository of the old name then removes that directory.
* Deleting leaves the directory: the next creation of the name fails and
  thereby removes it, the one after that succeeds; another repository renamed
  to the name serves the old contents.
* Two creations of one path that overlap while one is being undone can cost the
  other its directory.

## 7. Abstractions and what is left out

* `CIJobs` takes what the steps of an instance come to as one choice; `JobSteps`
  has how it comes about, without shells, environments and logs. `Expression`
  has tokens: the characters of a literal or a name, the functions of text and
  the interpolation of scripts are left out, and a numeral has one digit. Malformed payloads (`ci_worker.go:275-282`) are not built by the
  wired dispatcher. Logs and their line counts are left out. In `CIJobsRun`
  the order in which ready jobs and matrix keys are taken is any order.
* `Merge` resolves base and head in two reads; the model takes them as one.
  Force pushes, branch creation and deletion are left out; a push is the
  compare-and-swap git makes of it.
* The state of an edit is one of `EditStates`, a subset of open and closed; the
  handler accepts any string. Reviews are not dismissed. Branch protection is
  fixed. A missing pull request, access checks and audit entries are left out.
* `WorkflowQueue`: labels are one match or none, the age order of runners and
  the priority of queues are left out; an acknowledged task is gone.
* `ImportJobs`: a page has one item, an issue one comment; labels, milestones,
  users, the phase column and the merge state of pull requests are data.
* `McpVerification`: one organization, one month; the answers of the checks do
  not matter. `Artifacts`: the content of objects and storage quotas are data.
* `OAuthGrants`: one application, one user who authorizes; scopes, redirect
  URIs and the owner's edits are left out. `OrgMembers`: one organization; a
  membership is owner or member, for the handlers refuse any other role.
* `Repositories`: initializing or removing a directory is one step; visibility
  and default branch are single writes to the row and left out.
* A SQL statement is atomic; isolation anomalies within it are not modelled.

Not modelled at all, and why:
* Webhooks: the trigger inserts the delivery row and the worker inserts the
  same id again (`worker/webhook_worker.go:192`), so that every delivery ends
  in a key conflict before anything is sent; no interleaving adds to that, and
  nothing wires the worker.
* Runner registration: one guarded `UPDATE` decides. Rate limits: buckets in
  the memory of one process, each under its mutex. (The limit of authentication
  attempts, whose comment speaks of a sliding window,
  `middleware/auth_rate_limit_middleware.go:18`, counts in fixed ones.)
* YAML decoding, encryption, audit search, performance
  summaries, documentation, presenters, GraphQL (generated), front end:
  functions or single statements without state that two actors share.

## 8. Plan

Done: all modules of section 2, and a theorem for each safety property of
section 3.

Next proofs: that the theorems of `CIRuns` hold of the goroutines, by way of
`ExecutorImplemented`; `ResultStands` and `GreenRunHasNoRedJob` with re-runs,
for runs whose executors do not overlap; `LandedAt` with git faults, for
branches no failed check has left behind; that a run is admitted beyond the
plan's limit only by overlapping admissions.

Next models: the owner's edits of an OAuth application; issue edits, which
write the whole row back; webhooks once their worker is wired.
