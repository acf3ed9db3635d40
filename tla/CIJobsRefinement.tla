-------------------------- MODULE CIJobsRefinement --------------------------
(***************************************************************************)
(* The goroutines of CIJobs are an executor of CIRuns: module CIRuns knows *)
(* of a job only its row and whether it waits, runs or has ended. A run of *)
(* one organization stands for all, and one without a matrix.              *)
(***************************************************************************)
EXTENDS CIJobs

Exec == <<"run", 1>>

\* What an executor of CIRuns takes a job goroutine to be doing.
TaskOf(j) ==
  CASE pc[j] \in {"needs", "alive", "gate", "skip", "acquire", "next"} -> "waiting"
    [] pc[j] = "skipDone" -> "skipping"
    [] pc[j] = "exec" -> "running"
    [] pc[j] = "result" -> IF failed[j] THEN "failure" ELSE "success"
    [] OTHER -> IF results[j] = "none" \/ (results[j] = "skipped" /\ row[<<j, 1>>] = "none")
                  THEN "dropped" ELSE results[j]

RunRow ==
  CASE verdict = "success" -> [status |-> "completed", conclusion |-> "success"]
    [] verdict = "failure" -> [status |-> "failed", conclusion |-> "failure"]
    [] OTHER -> [status |-> "in_progress", conclusion |-> "null"]

Board == INSTANCE CIRuns WITH
  Runs <- {"run"}, Requests <- {}, Orgs <- {"org"},
  OrgOf <- [r \in {"run"} |-> "org"], PlanTier <- [o \in {"org"} |-> "pro"],
  ProLimit <- 1, BadWorkflow <- {}, MaxAttempts <- 1,
  run <- [r \in {"run"} |-> RunRow],
  row <- [e \in {Exec} |-> [j \in Jobs |-> row[<<j, 1>>]]],
  pc <- [e \in {Exec} |-> IF verdict = "none" THEN "jobs" ELSE "done"],
  task <- [e \in {Exec} |-> [j \in Jobs |-> TaskOf(j)]],
  fatal <- [e \in {Exec} |-> cancelled],
  req <- [q \in {} |-> {}],
  attempt <- [r \in {"run"} |-> 1],
  stopped <- {}

NoMatrices == \A j \in Jobs : Combos[j] = 1

\* Every step of the goroutines of a run without a matrix is a step CIRuns allows its
\* executor, or leaves what CIRuns sees of it alone; the only other step is the user's
\* cancellation.
ImplementsExecutor == [][NoMatrices => Board!ExecutorStep(Exec) \/ UserCancelsRows]_(Board!vars)
=============================================================================
