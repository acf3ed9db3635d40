------------------------------- MODULE CIJobs -------------------------------
(***************************************************************************)
(* The jobs of one CI run inside CIWorker.HandleCIRun: a goroutine per job *)
(* that waits on the done channels of its needs, skips or executes, and    *)
(* closes its own channel; the mutex mu over the shared maps; the          *)
(* semaphore that bounds running jobs; the run context that the first      *)
(* fatal error cancels; and the handler that waits for all of them.        *)
(*                                                                         *)
(* ImplementsExecutor, at the end, says that this is what module CIRuns    *)
(* takes the executor of one attempt to be.                                *)
(***************************************************************************)
EXTENDS WorkflowFile

CONSTANTS
  Jobs,       \* ids of the workflow's jobs
  Files,      \* the workflow files a run may come with
  Parallel,   \* maxParallelJobsPerRun (8 in the code)
  Faults      \* {"db"} when creating or completing a job row may fail

\* needs and ifFalse (jobs whose if: is false or does not evaluate) of a decoded file, and
\* the matrices, each of which comes to one combination at least, and to finitely many.
ASSUME CIJobsAssumption ==
  /\ IsFiniteSet(Jobs)
  /\ \A file \in Files :
       /\ DOMAIN file.needs = Jobs /\ DOMAIN file.matrix = Jobs /\ file.ifFalse \subseteq Jobs
       /\ \A j \in Jobs : CombosOf(file.matrix[j]) \in Nat \ {0}
  /\ Parallel \in Nat \ {0}
  /\ Faults \subseteq {"db"}

VARIABLES
  ir,         \* the parsed workflow file
  fate,       \* what the steps of an instance would come to: chosen once
  pc,         \* where the goroutine of a job is
  combo,      \* the matrix combination a job is at
  failed,     \* logicalFailed of a job
  closed,     \* done channels that are closed
  mu,         \* the job whose skipJob holds mu, if any
  sem,        \* slots taken from the semaphore
  cancelled,  \* fatalErr is set and runCtx cancelled
  results,    \* jobResults
  row,        \* workflow_jobs rows of the instances
  unsaved,    \* instances whose outcome the database did not take
  verdict     \* what HandleCIRun came to

vars == <<ir, fate, pc, combo, failed, closed, mu, sem, cancelled, results, row, unsaved, verdict>>

Needs == ir.needs
IfFalse == ir.ifFalse
Combos == [j \in Jobs |-> CombosOf(ir.matrix[j])]
Instances == UNION {{j} \X (1..Combos[j]) : j \in Jobs}

JobPC == {"needs", "alive", "gate", "skip", "skipDone", "acquire", "next",
          "exec", "result", "release", "close", "gone"}
Result == {"none", "success", "failure", "skipped"}
RowStatus == {"none", "in_progress", "success", "failure", "skipped", "cancelled"}

TypeOK ==
  /\ ir \in Files
  /\ fate \in [Instances -> {"success", "failure"}]
  /\ pc \in [Jobs -> JobPC]
  /\ combo \in [Jobs -> Nat] /\ \A j \in Jobs : combo[j] \in 1..Combos[j]
  /\ failed \in [Jobs -> BOOLEAN]
  /\ closed \subseteq Jobs
  /\ mu \subseteq Jobs /\ Cardinality(mu) <= 1
  /\ sem \in 0..Parallel
  /\ cancelled \in BOOLEAN
  /\ results \in [Jobs -> Result]
  /\ row \in [Instances -> RowStatus]
  /\ unsaved \subseteq Instances
  /\ verdict \in {"none", "success", "failure", "error"}

\* A file with a diagnostic fails the run before any of this.
Init ==
  /\ ir \in {file \in Files : Accepted(file)}
  /\ fate \in [Instances -> {"success", "failure"}]
  /\ pc = [j \in Jobs |-> "needs"]
  /\ combo = [j \in Jobs |-> 1]
  /\ failed = [j \in Jobs |-> FALSE]
  /\ closed = {}
  /\ mu = {}
  /\ sem = 0
  /\ cancelled = FALSE
  /\ results = [j \in Jobs |-> "none"]
  /\ row = [i \in Instances |-> "none"]
  /\ unsaved = {}
  /\ verdict = "none"

Goto(j, from, to) ==
  /\ pc[j] = from
  /\ pc' = [pc EXCEPT ![j] = to]

-----------------------------------------------------------------------------
(* Before a job executes. *)

AwaitNeeds(j) ==
  /\ Needs[j] \subseteq closed
  /\ Goto(j, "needs", "alive")
  /\ UNCHANGED <<ir, fate, combo, failed, closed, mu, sem, cancelled, results, row, unsaved, verdict>>

\* A select on a done channel and on runCtx.Done takes either when both are ready.
AwaitCancelled(j) ==
  /\ Needs[j] # {} /\ cancelled
  /\ Goto(j, "needs", "close")
  /\ UNCHANGED <<ir, fate, combo, failed, closed, mu, sem, cancelled, results, row, unsaved, verdict>>

\* Mutant of CheckAlive: runCtx is not looked at again.
CheckAliveNot(j) ==
  /\ Goto(j, "alive", "gate")
  /\ UNCHANGED <<ir, fate, combo, failed, closed, mu, sem, cancelled, results, row, unsaved, verdict>>

CheckAlive(j) ==
  /\ Goto(j, "alive", IF cancelled THEN "close" ELSE "gate")
  /\ UNCHANGED <<ir, fate, combo, failed, closed, mu, sem, cancelled, results, row, unsaved, verdict>>

\* Mutant of firstUnsatisfiedNeed: a need that was skipped counts as satisfied.
firstFailedNeed(j) == \E n \in Needs[j] : results[n] = "failure"

firstUnsatisfiedNeed(j) == \E n \in Needs[j] : results[n] # "success"

Gate(j) ==
  /\ mu = {}
  /\ Goto(j, "gate", IF firstUnsatisfiedNeed(j) \/ j \in IfFalse THEN "skip" ELSE "acquire")
  /\ UNCHANGED <<ir, fate, combo, failed, closed, mu, sem, cancelled, results, row, unsaved, verdict>>

\* skipJob: the result is noted first, then a row is inserted in_progress ...
SkipCreate(j) ==
  /\ mu = {}
  /\ results' = [results EXCEPT ![j] = "skipped"]
  /\ \/ /\ Goto(j, "skip", "skipDone")
        /\ mu' = {j}
        /\ row' = [row EXCEPT ![<<j, 1>>] = "in_progress"]
        /\ cancelled' = cancelled
     \/ /\ "db" \in Faults
        /\ Goto(j, "skip", "close")
        /\ cancelled' = TRUE
        /\ UNCHANGED <<mu, row>>
  /\ UNCHANGED <<ir, fate, combo, failed, closed, sem, unsaved, verdict>>

\* ... and completed. A row a user cancelled in between makes Complete fail,
\* and that is a fatal error.
SkipComplete(j) ==
  /\ Goto(j, "skipDone", "close")
  /\ mu' = {}
  /\ \/ /\ row[<<j, 1>>] = "in_progress"
        /\ row' = [row EXCEPT ![<<j, 1>>] = "skipped"]
        /\ cancelled' = cancelled
     \/ /\ row[<<j, 1>>] # "in_progress" \/ "db" \in Faults
        /\ row' = row
        /\ cancelled' = TRUE
  /\ UNCHANGED <<ir, fate, combo, failed, closed, sem, results, unsaved, verdict>>

\* Mutant of Acquire: the channel has no capacity limit.
AcquireUnbounded(j) ==
  /\ sem' = sem + 1
  /\ Goto(j, "acquire", "next")
  /\ UNCHANGED <<ir, fate, combo, failed, closed, mu, cancelled, results, row, unsaved, verdict>>

Acquire(j) ==
  /\ sem < Parallel
  /\ sem' = sem + 1
  /\ Goto(j, "acquire", "next")
  /\ UNCHANGED <<ir, fate, combo, failed, closed, mu, cancelled, results, row, unsaved, verdict>>

AcquireCancelled(j) ==
  /\ cancelled
  /\ Goto(j, "acquire", "close")
  /\ UNCHANGED <<ir, fate, combo, failed, closed, mu, sem, cancelled, results, row, unsaved, verdict>>

-----------------------------------------------------------------------------
(* The matrix instances of a job, one after the other. *)

CreateInstance(j) ==
  /\ ~cancelled
  /\ Goto(j, "next", "exec")
  /\ row' = [row EXCEPT ![<<j, combo[j]>>] = "in_progress"]
  /\ UNCHANGED <<ir, fate, combo, failed, closed, mu, sem, cancelled, results, unsaved, verdict>>

\* Mutant of InstanceNotCreated: the error is dropped, the context lives on.
InstanceNotCreatedSilently(j) ==
  /\ cancelled \/ "db" \in Faults
  /\ Goto(j, "next", "release")
  /\ UNCHANGED <<ir, fate, combo, failed, closed, mu, sem, cancelled, results, row, unsaved, verdict>>

\* The context is cancelled, or the insert fails and cancels it.
InstanceNotCreated(j) ==
  /\ cancelled \/ "db" \in Faults
  /\ Goto(j, "next", "release")
  /\ cancelled' = TRUE
  /\ UNCHANGED <<ir, fate, combo, failed, closed, mu, sem, results, row, unsaved, verdict>>

\* Mutants of RunInstance: the last matrix instance decides alone; only the
\* row of the last instance is completed.
RunInstanceLastDecides(j) ==
  LET i == <<j, combo[j]>> IN
  /\ pc[j] = "exec"
  /\ failed' = [failed EXCEPT ![j] = fate[i] = "failure"]
  /\ row' = [row EXCEPT ![i] = IF @ = "in_progress" /\ ~cancelled THEN fate[i] ELSE @]
  /\ IF combo[j] < Combos[j]
       THEN Goto(j, "exec", "next") /\ combo' = [combo EXCEPT ![j] = @ + 1]
       ELSE Goto(j, "exec", "result") /\ combo' = combo
  /\ UNCHANGED <<ir, fate, closed, mu, sem, cancelled, results, unsaved, verdict>>

RunInstanceLastCompletes(j) ==
  LET i == <<j, combo[j]>> IN
  /\ pc[j] = "exec"
  /\ failed' = [failed EXCEPT ![j] = @ \/ fate[i] = "failure"]
  /\ row' = [row EXCEPT ![i] = IF combo[j] = Combos[j] /\ ~cancelled THEN fate[i] ELSE @]
  /\ IF combo[j] < Combos[j]
       THEN Goto(j, "exec", "next") /\ combo' = [combo EXCEPT ![j] = @ + 1]
       ELSE Goto(j, "exec", "result") /\ combo' = combo
  /\ UNCHANGED <<ir, fate, closed, mu, sem, cancelled, results, unsaved, verdict>>

\* runJobSteps comes to the instance's fate, or to a failure when the context
\* kills its commands. Complete runs on the same context and its error is
\* ignored: the row stays in_progress.
RunInstance(j) ==
  LET i == <<j, combo[j]>> IN
  /\ pc[j] = "exec"
  /\ \E outcome \in {fate[i]} \union (IF cancelled THEN {"failure"} ELSE {}) :
       /\ failed' = [failed EXCEPT ![j] = @ \/ outcome = "failure"]
       /\ \/ /\ ~cancelled
             /\ row' = [row EXCEPT ![i] = IF @ = "in_progress" THEN outcome ELSE @]
             /\ unsaved' = unsaved
          \/ /\ cancelled \/ "db" \in Faults
             /\ unsaved' = unsaved \union {i}
             /\ row' = row
  /\ IF combo[j] < Combos[j]
       THEN Goto(j, "exec", "next") /\ combo' = [combo EXCEPT ![j] = @ + 1]
       ELSE Goto(j, "exec", "result") /\ combo' = combo
  /\ UNCHANGED <<ir, fate, closed, mu, sem, cancelled, results, verdict>>

\* Mutant of RecordResult: the slot is not given back by a job that ran.
RecordResultKeepsSlot(j) ==
  /\ mu = {}
  /\ Goto(j, "result", "close")
  /\ results' = [results EXCEPT ![j] = IF failed[j] THEN "failure" ELSE "success"]
  /\ UNCHANGED <<ir, fate, combo, failed, closed, mu, sem, cancelled, row, unsaved, verdict>>

RecordResult(j) ==
  /\ mu = {}
  /\ Goto(j, "result", "release")
  /\ results' = [results EXCEPT ![j] = IF failed[j] THEN "failure" ELSE "success"]
  /\ UNCHANGED <<ir, fate, combo, failed, closed, mu, sem, cancelled, row, unsaved, verdict>>

\* The deferred calls, last in first out: the slot, the done channel, wg.Done.
Release(j) ==
  /\ Goto(j, "release", "close")
  /\ sem' = sem - 1
  /\ UNCHANGED <<ir, fate, combo, failed, closed, mu, cancelled, results, row, unsaved, verdict>>

CloseDone(j) ==
  /\ Goto(j, "close", "gone")
  /\ closed' = closed \union {j}
  /\ UNCHANGED <<ir, fate, combo, failed, mu, sem, cancelled, results, row, unsaved, verdict>>

-----------------------------------------------------------------------------
\* wg.Wait returns: a fatal error is returned without marking the run, else
\* the conclusion is failure once a job recorded a failure.
Return ==
  /\ verdict = "none"
  /\ \A j \in Jobs : pc[j] = "gone"
  /\ verdict' = IF cancelled THEN "error"
                ELSE IF \E j \in Jobs : results[j] = "failure" THEN "failure" ELSE "success"
  /\ UNCHANGED <<ir, fate, pc, combo, failed, closed, mu, sem, cancelled, results, row, unsaved>>

\* The second statement of a cancel request, which the executor never hears of.
UserCancelsRows ==
  /\ \E i \in Instances : row[i] = "in_progress"
  /\ row' = [i \in Instances |-> IF row[i] = "in_progress" THEN "cancelled" ELSE row[i]]
  /\ UNCHANGED <<ir, fate, pc, combo, failed, closed, mu, sem, cancelled, results, unsaved, verdict>>

JobStep(j) ==
  \/ AwaitNeeds(j)
  \/ AwaitCancelled(j)
  \/ CheckAlive(j)
  \/ Gate(j)
  \/ SkipCreate(j)
  \/ SkipComplete(j)
  \/ Acquire(j)
  \/ AcquireCancelled(j)
  \/ CreateInstance(j)
  \/ InstanceNotCreated(j)
  \/ RunInstance(j)
  \/ RecordResult(j)
  \/ Release(j)
  \/ CloseDone(j)

\* HandleCIRun has returned; nothing is left to do.
Returned == verdict # "none" /\ UNCHANGED vars

Next ==
  \/ \E j \in Jobs : JobStep(j)
  \/ Return
  \/ UserCancelsRows
  \/ Returned

Spec == Init /\ [][Next]_vars

\* Goroutines run and a step ends within ciStepTimeout. Jobs are finitely many,
\* so the semaphore stays free once the others are through with it.
FairSpec ==
  /\ Spec
  /\ \A j \in Jobs : WF_vars(JobStep(j))
  /\ WF_vars(Return)

-----------------------------------------------------------------------------
(* Properties. *)

Executing == {"next", "exec", "result"}

\* A job executes only after each of its needs has recorded a success and is
\* gone, however many jobs run beside it and whatever fails meanwhile.
NeedsHonored ==
  \A j \in Jobs :
    pc[j] \in {"acquire"} \union Executing \/ results[j] \in {"success", "failure"} =>
      \A n \in Needs[j] : results[n] = "success" /\ n \in closed

\* The result of a job does not depend on the schedule: a job is skipped for
\* its own condition or a need that ran and did not succeed, never because a
\* need was torn down by a fatal error, and else it comes to what its steps
\* come to (a failure too if a fatal error killed them).
ScheduleIndependent ==
  \A j \in Jobs :
    LET barred == j \in IfFalse \/ \E n \in Needs[j] : results[n] \in {"failure", "skipped"}
        fails == \E i \in Instances : i[1] = j /\ fate[i] = "failure"
    IN /\ results[j] = "skipped" => barred
       /\ results[j] \in {"success", "failure"} => ~barred
       /\ results[j] = "success" => ~fails
       /\ results[j] = "failure" => fails \/ cancelled

\* The verdict that goes to the run's row is that of the jobs: every job was
\* decided, and a run fails exactly if the steps of a job that was to run fail.
VerdictOfJobs ==
  verdict \in {"success", "failure"} =>
    /\ \A j \in Jobs : results[j] # "none"
    /\ verdict = "failure" <=>
         \E j \in Jobs : results[j] # "skipped" /\ \E i \in Instances : i[1] = j /\ fate[i] = "failure"

\* A run that gets a verdict leaves no job row in progress behind, and none of a job that
\* was decided otherwise, but where the database refused the row's outcome.
RowsSettled ==
  verdict \in {"success", "failure"} =>
    \A i \in Instances \ unsaved :
      row[i] \in {"cancelled", fate[i]} \/ (results[i[1]] = "skipped" /\ row[i] \in {"skipped", "none"})

\* Nobody waits for ever: whatever fails or is cancelled, the handler returns.
HandlerReturns == <>(verdict # "none")
=============================================================================
