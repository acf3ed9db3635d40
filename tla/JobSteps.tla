------------------------------ MODULE JobSteps ------------------------------
(***************************************************************************)
(* The steps of one instance of a job (runJobSteps): which of them run,    *)
(* and whether the instance fails. A step is a record of its condition     *)
(* (tokens), what it does and whether that works.                          *)
(***************************************************************************)
EXTENDS Expression

\* An action other than checkout and an image is skipped, as is a step with nothing to do.
Actions == {"script", "checkout", "image", "other", "nothing"}
Works == {"script", "checkout", "image"}

\* The contexts of a step: a job is never cancelled here, only its failure is known.
StepContext(entries, failed) == [entries |-> entries, failed |-> failed, cancelled |-> FALSE]

\* With a condition a step runs if it holds, without one as long as nothing has failed.
Runs(step, entries, failed) ==
  IF step.cond = << >> THEN Bool(~failed)
  ELSE EvaluateCondition(step.cond, StepContext(entries, failed))

\* The instance so far: whether it has failed, and the steps that have run.
StepOf(steps, entries, job, i) ==
  LET runs == Runs(steps[i], entries, job.failed)
  IN  CASE runs = Failure -> [job EXCEPT !.failed = TRUE]
        [] runs = Bool(FALSE) -> job
        [] OTHER -> [failed |-> job.failed \/ (steps[i].does \in Works /\ ~steps[i].works),
                     ran |-> job.ran \union {i}]

runJobSteps(steps, entries) ==
  FoldLeft(LAMBDA job, i : StepOf(steps, entries, job, i), [failed |-> FALSE, ran |-> {}],
           [i \in DOMAIN steps |-> i])
=============================================================================
