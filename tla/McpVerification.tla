--------------------------- MODULE McpVerification ---------------------------
(***************************************************************************)
(* MCP verification of one organization: RunVerificationUsecase creates a  *)
(* run and its asynq task, MCPVerificationWorker performs the checks and   *)
(* records them, DeleteVerificationUsecase deletes a run at any time.      *)
(*                                                                         *)
(* What a check answers does not change what is written when; only whether *)
(* the checks were recorded is kept. The audit entry of a request comes    *)
(* after all its effects and is left out. Runs are those of one month.     *)
(***************************************************************************)
EXTENDS Integers, FiniteSets

CONSTANTS
  Runs,          \* ids of verification runs
  McpRequests,   \* concurrent HTTP requests to run a verification
  MonthlyLimit,  \* freePlanMonthlyRunLimit
  McpTries,      \* deliveries of a task, 1 + MaxRetry
  MaxFaults      \* bound: operations that fail and processes that stop

ASSUME McpAssumption == MonthlyLimit \in Nat /\ McpTries \in Nat \ {0} /\ MaxFaults \in Nat

VARIABLES
  status,    \* mcp_verification_runs.status
  checks,    \* how often checks were recorded for the run
  task,      \* the asynq task of a run: does it wait, and which delivery is it
  handler,   \* what the worker goroutine that has the task is doing
  request,   \* the requests in flight
  faults,    \* history: how many operations failed
  orphaned   \* history: runs left active by a request or task that is gone

mcpVars == <<status, checks, task, handler, request, orphaned>>

Active == {"queued", "running"}
ActiveRuns == {r \in Runs : status[r] \in Active}
Rows == {r \in Runs : status[r] \notin {"none", "deleted"}}

McpTypeOK ==
  /\ status \in [Runs -> Active \union {"none", "completed", "errored", "deleted"}]
  /\ checks \in [Runs -> 0..McpTries]
  /\ task \in [Runs -> [waiting: BOOLEAN, tries: 0..McpTries]]
  /\ handler \in [Runs -> {"idle", "start", "record", "panic", "finish", "ack"}]
  /\ request \in [McpRequests -> {"idle", "create"} \X {"none"}
                                   \union {"enqueue"} \X Runs]
  /\ faults \in 0..MaxFaults
  /\ orphaned \subseteq Runs

McpInit ==
  /\ status = [r \in Runs |-> "none"]
  /\ checks = [r \in Runs |-> 0]
  /\ task = [r \in Runs |-> [waiting |-> FALSE, tries |-> 0]]
  /\ handler = [r \in Runs |-> "idle"]
  /\ request = [q \in McpRequests |-> <<"idle", "none">>]
  /\ faults = 0
  /\ orphaned = {}

-----------------------------------------------------------------------------
(* RunVerificationUsecase.Execute: queries, an insert, an enqueue. *)

Asks(q, to) == request' = [request EXCEPT ![q] = <<to, "none">>]

\* GetActiveRun and CountRunsThisMonth; the unique index looks at the former again.
CheckLimits(q) ==
  /\ request[q][1] = "idle"
  /\ ActiveRuns = {}
  /\ Cardinality(Rows) < MonthlyLimit
  /\ Asks(q, "create")
  /\ UNCHANGED <<status, checks, task, handler, faults, orphaned>>

\* uidx_mcp_runs_org_active admits one active run: the request that lost the race
\* fails. (Bound: so does a request for which no id is left.)
CreateRun(q) ==
  /\ request[q][1] = "create"
  /\ \/ /\ ActiveRuns = {}
        /\ \E r \in Runs :
             /\ status[r] = "none"
             /\ status' = [status EXCEPT ![r] = "queued"]
             /\ request' = [request EXCEPT ![q] = <<"enqueue", r>>]
     \/ /\ ActiveRuns # {} \/ \A r \in Runs : status[r] # "none"
        /\ Asks(q, "idle")
        /\ UNCHANGED status
  /\ UNCHANGED <<checks, task, handler, faults, orphaned>>

EnqueueMCPVerification(q) ==
  /\ request[q][1] = "enqueue"
  /\ task' = [task EXCEPT ![request[q][2]] = [waiting |-> TRUE, tries |-> 1]]
  /\ Asks(q, "idle")
  /\ UNCHANGED <<status, checks, handler, faults, orphaned>>

\* The row stays queued, and nobody will look at it.
EnqueueFails(q) ==
  /\ faults < MaxFaults
  /\ request[q][1] = "enqueue"
  /\ faults' = faults + 1
  /\ orphaned' = orphaned \union {request[q][2]}
  /\ Asks(q, "idle")
  /\ UNCHANGED <<status, checks, task, handler>>

\* The checks go with the row; an active run is not spared.
DeleteRun(r) ==
  /\ r \in Rows
  /\ status' = [status EXCEPT ![r] = "deleted"]
  /\ checks' = [checks EXCEPT ![r] = 0]
  /\ UNCHANGED <<task, handler, request, faults, orphaned>>

-----------------------------------------------------------------------------
(* MCPVerificationWorker.HandleMCPVerification, and asynq around it. *)

DeliverVerification(r) ==
  /\ task[r].waiting /\ handler[r] = "idle"
  /\ task' = [task EXCEPT ![r].waiting = FALSE]
  /\ handler' = [handler EXCEPT ![r] = "start"]
  /\ UNCHANGED <<status, checks, request, faults, orphaned>>

Becomes(r, at) == handler' = [handler EXCEPT ![r] = at]

\* Mutant of RetryVerification: the retry after the last one.
RetryVerificationOffByOne(r, row) ==
  /\ Becomes(r, "idle")
  /\ IF task[r].tries <= McpTries
       THEN /\ task' = [task EXCEPT ![r] = [waiting |-> TRUE, tries |-> @.tries + 1]]
            /\ UNCHANGED orphaned
       ELSE /\ orphaned' = IF row \in Active THEN orphaned \union {r} ELSE orphaned
            /\ UNCHANGED task

\* The handler returns an error, or its process stops, with the row as given.
RetryVerification(r, row) ==
  /\ Becomes(r, "idle")
  /\ IF task[r].tries < McpTries
       THEN /\ task' = [task EXCEPT ![r] = [waiting |-> TRUE, tries |-> @.tries + 1]]
            /\ UNCHANGED orphaned
       ELSE /\ orphaned' = IF row \in Active THEN orphaned \union {r} ELSE orphaned
            /\ UNCHANGED task

\* GetRunByID and the first UpdateRun, which decides again what the read has
\* decided: a deleted run fails, and so does one beside which another is active.
\* A run that is over is started again.
StartRun(r) ==
  /\ handler[r] = "start"
  /\ IF status[r] = "deleted" \/ ActiveRuns \ {r} # {}
       THEN RetryVerification(r, status[r]) /\ UNCHANGED status
       ELSE /\ status' = [status EXCEPT ![r] = "running"]
            /\ Becomes(r, "record")
            /\ UNCHANGED <<task, orphaned>>
  /\ UNCHANGED <<checks, request, faults>>

\* Mutant of BatchCreateChecks: only the foreign key error is returned.
BatchCreateChecksIgnored(r) ==
  /\ handler[r] = "record"
  /\ IF status[r] = "deleted"
       THEN RetryVerification(r, status[r]) /\ UNCHANGED <<checks, faults>>
       ELSE /\ \/ checks' = [checks EXCEPT ![r] = @ + 1] /\ UNCHANGED faults
               \/ faults < MaxFaults /\ faults' = faults + 1 /\ UNCHANGED checks
            /\ Becomes(r, "finish")
            /\ UNCHANGED <<task, orphaned>>
  /\ UNCHANGED <<status, request>>

\* One transaction. Every delivery records checks of its own.
BatchCreateChecks(r) ==
  /\ handler[r] = "record"
  /\ IF status[r] = "deleted"
       THEN RetryVerification(r, status[r]) /\ UNCHANGED checks
       ELSE /\ checks' = [checks EXCEPT ![r] = @ + 1]
            /\ Becomes(r, "finish")
            /\ UNCHANGED <<task, orphaned>>
  /\ UNCHANGED <<status, request, faults>>

\* Mutant of FinishRun: the final UpdateRun is left out.
FinishRunUnmarked(r) ==
  /\ handler[r] = "finish"
  /\ Becomes(r, "ack")
  /\ UNCHANGED <<status, checks, task, request, faults, orphaned>>

FinishRun(r) ==
  /\ handler[r] = "finish"
  /\ IF status[r] = "deleted"
       THEN RetryVerification(r, status[r]) /\ UNCHANGED status
       ELSE /\ status' = [status EXCEPT ![r] = "completed"]
            /\ Becomes(r, "ack")
            /\ UNCHANGED <<task, orphaned>>
  /\ UNCHANGED <<checks, request, faults>>

AckVerification(r) ==
  /\ handler[r] = "ack"
  /\ Becomes(r, "idle")
  /\ UNCHANGED <<status, checks, task, request, faults, orphaned>>

\* An error of the database leaves the row as it is.
VerificationFails(r) ==
  /\ faults < MaxFaults
  /\ handler[r] \in {"start", "record", "finish"}
  /\ faults' = faults + 1
  /\ RetryVerification(r, status[r])
  /\ UNCHANGED <<status, checks, request>>

Panic(r) ==
  /\ faults < MaxFaults
  /\ handler[r] = "record"
  /\ faults' = faults + 1
  /\ Becomes(r, "panic")
  /\ UNCHANGED <<status, checks, task, request, orphaned>>

\* The recover: the row says errored, and asynq tries again all the same.
RecoverPanic(r) ==
  LET row == IF status[r] = "deleted" THEN "deleted" ELSE "errored" IN
  /\ handler[r] = "panic"
  /\ status' = [status EXCEPT ![r] = row]
  /\ RetryVerification(r, row)
  /\ UNCHANGED <<checks, request, faults>>

\* The process of the worker stops; asynq finds the task and delivers it again.
WorkerStops(r) ==
  /\ faults < MaxFaults
  /\ handler[r] # "idle"
  /\ faults' = faults + 1
  /\ RetryVerification(r, status[r])
  /\ UNCHANGED <<status, checks, request>>

-----------------------------------------------------------------------------
McpRequestStep(q) == CreateRun(q) \/ EnqueueMCPVerification(q)

McpHandlerStep(r) ==
  \/ StartRun(r)
  \/ BatchCreateChecks(r)
  \/ FinishRun(r)
  \/ RecoverPanic(r)
  \/ AckVerification(r)

McpFault(r) == VerificationFails(r) \/ Panic(r) \/ WorkerStops(r)

\* Everything but DeliverVerification, which needs a free worker.
McpNext ==
  \/ \E q \in McpRequests : CheckLimits(q) \/ McpRequestStep(q) \/ EnqueueFails(q)
  \/ \E r \in Runs : DeleteRun(r) \/ McpHandlerStep(r) \/ McpFault(r)
-----------------------------------------------------------------------------
(* Properties. *)

\* A completed run has its checks, at most one set for each delivery, whatever
\* failed between recording them and writing the row.
CompletedHasChecks ==
  \A r \in Runs : status[r] = "completed" => checks[r] \in 1..task[r].tries

\* The organization is not blocked for ever by a run nobody works on, unless
\* its enqueue failed or its last delivery ended without writing the row.
EveryVerificationSettles ==
  <>[](ActiveRuns \subseteq orphaned)
=============================================================================
