----------------------------- MODULE ImportJobs -----------------------------
(***************************************************************************)
(* One GitHub import: the row of import_jobs, the checkpoints of its       *)
(* phases, what the phases create (the clone on disk, the repository row,  *)
(* rows of issues and pull requests, comments), the asynq task that runs   *)
(* ImporterWorker.HandleGitHubImport, and the requests that create, cancel *)
(* and retry the import.                                                   *)
(*                                                                         *)
(* A failed import is retried by asynq and, as its row says failed, by the *)
(* user as well: two workers may run the same import. The phase column is  *)
(* only displayed and left out. A page of issues or pull requests has one  *)
(* item, an issue has one comment.                                         *)
(***************************************************************************)
EXTENDS Integers, FiniteSets

CONSTANTS
  Pages,       \* how many pages of issues and of pull requests GitHub has
  Payloads,    \* what the enqueuer puts in a task: "full", or "bare" without the source
  Requests,    \* concurrent HTTP requests
  MaxRequests, \* bound: cancel and retry requests
  Workers,     \* worker goroutines of the asynq server
  MaxTries,    \* deliveries of a task, 1 + MaxRetry
  MaxFaults    \* bound: operations that fail and processes that stop

ASSUME ImportJobsAssumption ==
  /\ Pages \in [{"issues", "pulls"} -> Nat]
  /\ Payloads \subseteq {"full", "bare"}
  /\ MaxRequests \in Nat
  /\ MaxTries \in Nat \ {0}
  /\ MaxFaults \in Nat

VARIABLES
  status,      \* import_jobs.status
  target,      \* import_jobs.target_repository_id is set
  checkpoint,  \* import_phase_checkpoints
  clone,       \* the repository directory on disk
  repository,  \* the repository row exists
  rows,        \* issues and pull requests that were inserted
  comments,    \* comments inserted for an issue
  queue,       \* how often a task waits in redis
  worker,      \* what a worker goroutine is doing
  request,     \* the HTTP requests in flight
  asked,       \* history: how many cancel and retry requests there were
  faults,      \* history: how many operations failed
  lost,        \* history: items whose insertion failed and was only logged
  excuse       \* history: why nobody may be left to finish the import

store == <<target, checkpoint, clone, repository, rows, comments, lost>>
vars == <<status, store, queue, worker, request, asked, faults, excuse>>

Phases == {"clone", "metadata", "issues", "pulls"}
NextPhase(phase) ==
  CASE phase = "clone" -> "metadata" [] phase = "metadata" -> "issues"
    [] phase = "issues" -> "pulls" [] phase = "pulls" -> "done"

Items == {<<phase, n>> : phase \in {"issues"}, n \in 1..Pages["issues"]}
           \union {<<phase, n>> : phase \in {"pulls"}, n \in 1..Pages["pulls"]}
Issues == {i \in Items : i[1] = "issues"}

Status == {"none", "queued", "running", "completed", "failed", "cancelled"}
Task == [payload: Payloads, tries: 1..MaxTries]
At == {"load", "start", "check", "fetch", "mirror", "create", "setTarget",
       "page", "item", "comments", "save", "mark", "fail", "ack"}
Idle == [at |-> "idle"]
Busy == [at: At, task: Task, phase: Phases \union {"done"}, page: Nat]

TypeOK ==
  /\ status \in Status
  /\ target \in BOOLEAN
  /\ checkpoint \in [Phases -> [cursor: Nat, completed: BOOLEAN]]
  /\ \A phase \in {"issues", "pulls"} : checkpoint[phase].cursor <= Pages[phase]
  /\ clone \in {"none", "partial", "whole"}
  /\ repository \in BOOLEAN
  /\ rows \subseteq Items
  /\ comments \in [Issues -> Nat]
  /\ queue \in [Task -> Nat]
  /\ worker \in [Workers -> {Idle} \union Busy]
  /\ request \in [Requests -> {"idle", "cancel", "requeue", "enqueue"}]
  /\ asked \in 0..MaxRequests
  /\ faults \in 0..MaxFaults
  /\ lost \subseteq Items
  /\ excuse \subseteq {"request", "bare", "start", "unmarked", "crash"}

Init ==
  /\ status = "none"
  /\ target = FALSE
  /\ checkpoint = [p \in Phases |-> [cursor |-> 0, completed |-> FALSE]]
  /\ clone = "none"
  /\ repository = FALSE
  /\ rows = {}
  /\ comments = [i \in Issues |-> 0]
  /\ queue = [t \in Task |-> 0]
  /\ worker = [w \in Workers |-> Idle]
  /\ request = [q \in Requests |-> "idle"]
  /\ asked = 0
  /\ faults = 0
  /\ lost = {}
  /\ excuse = {}

-----------------------------------------------------------------------------
(* The requests: a read, then writes that do not look at the row again. *)

Goes(q, to) == request' = [request EXCEPT ![q] = to]
Put(t) == queue' = [queue EXCEPT ![t] = @ + 1]

CreateImport(q) ==
  /\ request[q] = "idle"
  /\ status = "none"
  /\ status' = "queued"
  /\ Goes(q, "enqueue")
  /\ UNCHANGED <<store, queue, worker, asked, faults, excuse>>

EnqueueGitHubImport(q) ==
  /\ request[q] = "enqueue"
  /\ \E p \in Payloads : Put([payload |-> p, tries |-> 1])
  /\ Goes(q, "idle")
  /\ UNCHANGED <<status, store, worker, asked, faults, excuse>>

NewRequest(q, to) ==
  /\ request[q] = "idle"
  /\ asked < MaxRequests
  /\ asked' = asked + 1
  /\ Goes(q, to)
  /\ UNCHANGED <<status, store, queue, worker, faults, excuse>>

CancelRead(q) == status \in {"queued", "running"} /\ NewRequest(q, "cancel")

CancelWrite(q) ==
  /\ request[q] = "cancel"
  /\ status' = "cancelled"
  /\ Goes(q, "idle")
  /\ UNCHANGED <<store, queue, worker, asked, faults, excuse>>

RetryRead(q) == status = "failed" /\ NewRequest(q, "requeue")

RetryWrite(q) ==
  /\ request[q] = "requeue"
  /\ status' = "queued"
  /\ Goes(q, "enqueue")
  /\ UNCHANGED <<store, queue, worker, asked, faults, excuse>>

\* A statement or the enqueue fails: what the request wrote before stays.
RequestFails(q) ==
  /\ faults < MaxFaults
  /\ request[q] # "idle"
  /\ faults' = faults + 1
  /\ excuse' = IF request[q] = "enqueue" THEN excuse \union {"request"} ELSE excuse
  /\ Goes(q, "idle")
  /\ UNCHANGED <<status, store, queue, worker, asked>>

-----------------------------------------------------------------------------
(* asynq. *)

Deliver(w, t) ==
  /\ worker[w] = Idle
  /\ queue[t] > 0
  /\ queue' = [queue EXCEPT ![t] = @ - 1]
  /\ worker' = [worker EXCEPT ![w] = [at |-> "load", task |-> t, phase |-> "clone", page |-> 0]]
  /\ UNCHANGED <<status, store, request, asked, faults, excuse>>

Goto(w, at) == worker' = [worker EXCEPT ![w].at = at]

Retry(w) ==
  LET t == worker[w].task IN
  /\ worker' = [worker EXCEPT ![w] = Idle]
  /\ IF t.tries < MaxTries THEN Put([t EXCEPT !.tries = @ + 1]) ELSE UNCHANGED queue

LastTry(w) == worker[w].task.tries = MaxTries

Ack(w) ==
  /\ worker[w].at = "ack"
  /\ worker' = [worker EXCEPT ![w] = Idle]
  /\ UNCHANGED <<status, store, queue, request, asked, faults, excuse>>

\* The process stops; asynq finds the task and delivers it again.
Crash(w) ==
  /\ faults < MaxFaults
  /\ worker[w] # Idle
  /\ faults' = faults + 1
  /\ Retry(w)
  /\ excuse' = IF LastTry(w) THEN excuse \union {"crash"} ELSE excuse
  /\ UNCHANGED <<status, store, request, asked>>

-----------------------------------------------------------------------------
(* HandleGitHubImport up to the phases. *)

\* Without source the payload is rejected with SkipRetry, the row stays queued.
LoadJob(w) ==
  /\ worker[w].at = "load"
  /\ IF worker[w].task.payload = "full"
       THEN Goto(w, "start") /\ UNCHANGED excuse
       ELSE worker' = [worker EXCEPT ![w] = Idle] /\ excuse' = excuse \union {"bare"}
  /\ UNCHANGED <<status, store, queue, request, asked, faults>>

\* Whatever the row says, cancelled included, the import runs now.
StartImport(w) ==
  /\ worker[w].at = "start"
  /\ status' = "running"
  /\ Goto(w, "check")
  /\ UNCHANGED <<store, queue, request, asked, faults, excuse>>

\* These errors are returned without failImport.
StartFails(w) ==
  /\ faults < MaxFaults
  /\ worker[w].at \in {"load", "start"}
  /\ faults' = faults + 1
  /\ Retry(w)
  /\ excuse' = IF LastTry(w) THEN excuse \union {"start"} ELSE excuse
  /\ UNCHANGED <<status, store, request, asked>>

-----------------------------------------------------------------------------
(* runPhase. *)

\* Mutant of resumePageFromCheckpoint: one page too far.
resumePageTooFar(phase) == IF checkpoint[phase].cursor = 0 THEN 1 ELSE checkpoint[phase].cursor + 2

resumePageFromCheckpoint(phase) == checkpoint[phase].cursor + 1

FirstStep(phase) ==
  CASE phase = "clone" -> "fetch" [] phase = "metadata" -> "create"
    [] phase \in {"issues", "pulls"} -> "page"

\* A completed phase is skipped, another one goes on where its cursor stands.
CheckPhase(w) ==
  LET phase == worker[w].phase IN
  /\ worker[w].at = "check" /\ phase # "done"
  /\ worker' = [worker EXCEPT ![w] =
       IF checkpoint[phase].completed
         THEN [@ EXCEPT !.phase = NextPhase(phase)]
         ELSE [@ EXCEPT !.at = FirstStep(phase),
                        !.page = IF phase \in {"issues", "pulls"}
                                   THEN resumePageFromCheckpoint(phase) ELSE 0]]
  /\ UNCHANGED <<status, store, queue, request, asked, faults, excuse>>

MarkPhaseComplete(w) ==
  LET phase == worker[w].phase IN
  /\ worker[w].at = "mark"
  /\ checkpoint' = [checkpoint EXCEPT ![phase].completed = TRUE]
  /\ worker' = [worker EXCEPT ![w].at = "check", ![w].phase = NextPhase(phase), ![w].page = 0]
  /\ UNCHANGED <<status, target, clone, repository, rows, comments, lost,
                 queue, request, asked, faults, excuse>>

-----------------------------------------------------------------------------
(* The phases clone and metadata. *)

\* PlainClone refuses a directory that is there, be it whole or not.
CloneFetch(w) ==
  /\ worker[w].at = "fetch"
  /\ IF clone = "none"
       THEN clone' = "partial" /\ Goto(w, "mirror")
       ELSE Goto(w, "fail") /\ UNCHANGED clone
  /\ UNCHANGED <<status, target, checkpoint, repository, rows, comments, lost,
                 queue, request, asked, faults, excuse>>

CloneMirror(w) ==
  /\ worker[w].at = "mirror"
  /\ clone' = "whole"
  /\ Goto(w, "mark")
  /\ UNCHANGED <<status, target, checkpoint, repository, rows, comments, lost,
                 queue, request, asked, faults, excuse>>

\* A clone that fails removes what it wrote; a process that stops does not.
CloneFails(w) ==
  /\ faults < MaxFaults
  /\ worker[w].at = "mirror"
  /\ faults' = faults + 1
  /\ clone' = "none"
  /\ Goto(w, "fail")
  /\ UNCHANGED <<status, target, checkpoint, repository, rows, comments, lost,
                 queue, request, asked, excuse>>

\* The name is unique per owner: a repository that an earlier try created is in
\* the way of the next try.
CreateRepository(w) ==
  /\ worker[w].at = "create"
  /\ repository' = TRUE
  /\ Goto(w, IF repository THEN "fail" ELSE "setTarget")
  /\ UNCHANGED <<status, target, checkpoint, clone, rows, comments, lost,
                 queue, request, asked, faults, excuse>>

SetTargetRepository(w) ==
  /\ worker[w].at = "setTarget"
  /\ target' = TRUE
  /\ Goto(w, "mark")
  /\ UNCHANGED <<status, checkpoint, clone, repository, rows, comments, lost,
                 queue, request, asked, faults, excuse>>

-----------------------------------------------------------------------------
(* The phases issues and pulls: a page at a time, then the checkpoint. *)

Item(w) == <<worker[w].phase, worker[w].page>>

FetchPage(w) ==
  /\ worker[w].at = "page"
  /\ Goto(w, IF worker[w].page > Pages[worker[w].phase] THEN "mark" ELSE "item")
  /\ UNCHANGED <<status, store, queue, request, asked, faults, excuse>>

\* Mutant of ImportIssue: the conflict of a number is taken for success.
ImportIssueAgain(w) ==
  /\ worker[w].at = "item" /\ worker[w].phase = "issues"
  /\ rows' = rows \union {Item(w)}
  /\ Goto(w, "comments")
  /\ UNCHANGED <<status, target, checkpoint, clone, repository, comments, lost,
                 queue, request, asked, faults, excuse>>

\* A number that is taken fails the insert, which is only logged: the comments
\* of the issue are not looked at either.
ImportIssue(w) ==
  /\ worker[w].at = "item" /\ worker[w].phase = "issues"
  /\ rows' = rows \union {Item(w)}
  /\ Goto(w, IF Item(w) \in rows THEN "save" ELSE "comments")
  /\ UNCHANGED <<status, target, checkpoint, clone, repository, comments, lost,
                 queue, request, asked, faults, excuse>>

ImportPullRequest(w) ==
  /\ worker[w].at = "item" /\ worker[w].phase = "pulls"
  /\ rows' = rows \union {Item(w)}
  /\ Goto(w, "save")
  /\ UNCHANGED <<status, target, checkpoint, clone, repository, comments, lost,
                 queue, request, asked, faults, excuse>>

\* Any other error of one item is logged as well.
ItemFails(w) ==
  /\ faults < MaxFaults
  /\ worker[w].at \in {"item", "comments"}
  /\ faults' = faults + 1
  /\ lost' = IF worker[w].at = "item" THEN lost \union {Item(w)} ELSE lost
  /\ Goto(w, "save")
  /\ UNCHANGED <<status, target, checkpoint, clone, repository, rows, comments,
                 queue, request, asked, excuse>>

ImportComments(w) ==
  /\ worker[w].at = "comments"
  /\ comments' = [comments EXCEPT ![Item(w)] = @ + 1]
  /\ Goto(w, "save")
  /\ UNCHANGED <<status, target, checkpoint, clone, repository, rows, lost,
                 queue, request, asked, faults, excuse>>

\* Mutant of SaveCheckpoint: the cursor is the next page to fetch.
SaveCheckpointNext(w) ==
  LET phase == worker[w].phase  page == worker[w].page IN
  /\ worker[w].at = "save"
  /\ checkpoint' = [checkpoint EXCEPT ![phase] = [cursor |-> page + 1, completed |-> FALSE]]
  /\ worker' = [worker EXCEPT ![w].at = "page", ![w].page = page + 1]
  /\ UNCHANGED <<status, target, clone, repository, rows, comments, lost,
                 queue, request, asked, faults, excuse>>

\* The checkpoint is written as not completed, even if another worker has
\* completed the phase. A page that is not full is the last one.
SaveCheckpoint(w) ==
  LET phase == worker[w].phase  page == worker[w].page IN
  /\ worker[w].at = "save"
  /\ checkpoint' = [checkpoint EXCEPT ![phase] = [cursor |-> page, completed |-> FALSE]]
  /\ worker' = [worker EXCEPT ![w].at = IF page = Pages[phase] THEN "mark" ELSE "page",
                              ![w].page = page + 1]
  /\ UNCHANGED <<status, target, clone, repository, rows, comments, lost,
                 queue, request, asked, faults, excuse>>

-----------------------------------------------------------------------------
(* The end. *)

\* Mutant of CompleteImport: the phase is set to done and the status is not.
CompleteImportUnmarked(w) ==
  /\ worker[w].at = "check" /\ worker[w].phase = "done"
  /\ Goto(w, "ack")
  /\ UNCHANGED <<status, store, queue, request, asked, faults, excuse>>

CompleteImport(w) ==
  /\ worker[w].at = "check" /\ worker[w].phase = "done"
  /\ status' = "completed"
  /\ Goto(w, "ack")
  /\ UNCHANGED <<store, queue, request, asked, faults, excuse>>

\* A query, a fetch or a checkpoint fails: the phase returns its error.
PhaseFails(w) ==
  /\ faults < MaxFaults
  /\ worker[w].at \in {"check", "fetch", "create", "setTarget", "page", "save", "mark"}
  /\ faults' = faults + 1
  /\ Goto(w, "fail")
  /\ UNCHANGED <<status, store, queue, request, asked, excuse>>

\* The row says failed, and asynq tries again all the same.
failImport(w) ==
  /\ worker[w].at = "fail"
  /\ status' = "failed"
  /\ Retry(w)
  /\ UNCHANGED <<store, request, asked, faults, excuse>>

\* An error of that very statement is ignored.
failImportIgnored(w) ==
  /\ faults < MaxFaults
  /\ worker[w].at = "fail"
  /\ faults' = faults + 1
  /\ Retry(w)
  /\ excuse' = IF LastTry(w) THEN excuse \union {"unmarked"} ELSE excuse
  /\ UNCHANGED <<status, store, request, asked>>

-----------------------------------------------------------------------------
WorkerStep(w) ==
  \/ LoadJob(w)
  \/ StartImport(w)
  \/ CheckPhase(w)
  \/ MarkPhaseComplete(w)
  \/ CloneFetch(w)
  \/ CloneMirror(w)
  \/ CreateRepository(w)
  \/ SetTargetRepository(w)
  \/ FetchPage(w)
  \/ ImportIssue(w)
  \/ ImportPullRequest(w)
  \/ ImportComments(w)
  \/ SaveCheckpoint(w)
  \/ CompleteImport(w)
  \/ failImport(w)
  \/ Ack(w)

WorkerFault(w) ==
  \/ Crash(w)
  \/ StartFails(w)
  \/ CloneFails(w)
  \/ ItemFails(w)
  \/ PhaseFails(w)
  \/ failImportIgnored(w)

RequestStep(q) ==
  \/ EnqueueGitHubImport(q)
  \/ CancelWrite(q)
  \/ RetryWrite(q)

Next ==
  \/ \E q \in Requests : CreateImport(q) \/ CancelRead(q) \/ RetryRead(q)
  \/ \E q \in Requests : RequestStep(q) \/ RequestFails(q)
  \/ \E w \in Workers, t \in Task : Deliver(w, t)
  \/ \E w \in Workers : WorkerStep(w) \/ WorkerFault(w)

Spec == Init /\ [][Next]_vars

\* A request that has begun and a handler run to their end, and asynq gives a
\* task that waits to a worker.
Fairness ==
  /\ \A q \in Requests : WF_vars(RequestStep(q))
  /\ \A w \in Workers : WF_vars(WorkerStep(w))
  /\ WF_vars(\E w \in Workers, t \in Task : Deliver(w, t))

FairSpec == Spec /\ Fairness
-----------------------------------------------------------------------------
(* Properties. *)

\* However often the import was interrupted, repeated and run twice at a time,
\* a completed one has its whole clone, its repository and every issue and pull
\* request, except those whose own insertion failed.
CompletedIsWhole ==
  status = "completed" => clone = "whole" /\ repository /\ target /\ Items \subseteq rows \union lost

\* Comments have no key of their own; still no retry and no second worker
\* inserts them a second time.
CommentsOnce == \A i \in Issues : comments[i] <= 1

\* Every import ends for good: whoever starts it, fails or stops in between, somebody
\* goes on with it, unless an enqueue failed, the payload named no source, or the last
\* try ended without a chance to write the row.
EveryImportSettles ==
  <>(status # "none") => <>[](status \in {"completed", "failed", "cancelled"} \/ excuse # {})
=============================================================================
