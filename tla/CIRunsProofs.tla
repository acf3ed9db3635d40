---------------------------- MODULE CIRunsProofs ----------------------------
(* Proofs about CIRuns, for any number of runs, jobs, requests and attempts. *)
EXTENDS CIRuns, TLAPS

-----------------------------------------------------------------------------
(* Type correctness. *)

\* A step of an executor keeps every row and control state in its range.
LEMMA ExecutorStepType ==
  ASSUME TypeOK, NEW e \in Executors, ExecutorStep(e)
  PROVE  TypeOK'
<1>1. e[1] \in Runs
  BY DEF Executors
<1>2. ASSUME NEW r \in Runs, NEW s \in RunStatus, NEW c \in Conclusion, markRun(r, s, c)
      PROVE  run' \in [Runs -> [status: RunStatus, conclusion: Conclusion]]
  <2>1. run[r] \in [status: RunStatus, conclusion: Conclusion]
    BY DEF TypeOK
  <2>2. [status |-> s, conclusion |-> c] \in [status: RunStatus, conclusion: Conclusion]
    OBVIOUS
  <2>3. run \in [Runs -> [status: RunStatus, conclusion: Conclusion]]
    BY DEF TypeOK
  <2>4. QED
    BY <1>2, <2>1, <2>2, <2>3 DEF markRun
<1>3. CASE CheckLimit(e)
  BY <1>3 DEF CheckLimit, TypeOK, ExecutorPC
<1>4. CASE RejectRun(e)
  BY <1>1, <1>2, <1>4 DEF RejectRun, TypeOK, ExecutorPC, RunStatus, Conclusion
<1>5. CASE AdmitRun(e)
  BY <1>1, <1>5 DEF AdmitRun, setStatus, TypeOK, ExecutorPC, RunStatus
<1>6. CASE RejectWorkflow(e)
  BY <1>1, <1>2, <1>6 DEF RejectWorkflow, TypeOK, ExecutorPC, RunStatus, Conclusion
<1>7. CASE StartJobs(e)
  BY <1>7 DEF StartJobs, TypeOK, ExecutorPC
<1>8. CASE AbortPreamble(e)
  BY <1>8 DEF AbortPreamble, TypeOK, ExecutorPC
<1>9. ASSUME NEW j \in Jobs, JobStep(e, j)
      PROVE  TypeOK'
  <2>1. CASE StartJob(e, j)
    BY <2>1 DEF StartJob, TypeOK, RowStatus, TaskState
  <2>2. ASSUME NEW result \in {"success", "failure"}, FinishJob(e, j, result)
        PROVE  TypeOK'
    <3>1. row[e] \in [Jobs -> RowStatus] /\ task[e] \in [Jobs -> TaskState]
      BY DEF TypeOK
    <3>2. task' \in [Executors -> [Jobs -> TaskState]]
      BY <2>2, <3>1 DEF FinishJob, TypeOK, TaskState
    <3>3. row' \in [Executors -> [Jobs -> RowStatus]]
      <4>1. (IF row[e][j] = "in_progress" THEN result ELSE row[e][j]) \in RowStatus
        BY <2>2, <3>1 DEF RowStatus
      <4>2. CASE row' = row
        BY <4>2 DEF TypeOK
      <4>3. CASE row' # row
        <5> DEFINE v == IF row[e][j] = "in_progress" THEN result ELSE row[e][j]
        <5>1. row' = [row EXCEPT ![e] = [row[e] EXCEPT ![j] = v]]
          BY <2>2, <4>3 DEF FinishJob
        <5>2. [row[e] EXCEPT ![j] = v] \in [Jobs -> RowStatus]
          BY <3>1, <4>1
        <5> HIDE DEF v
        <5>3. QED
          BY <5>1, <5>2 DEF TypeOK
      <4>4. QED
        BY <4>2, <4>3
    <3>4. QED
      BY <2>2, <3>2, <3>3 DEF FinishJob, TypeOK
  <2>3. CASE SkipJob(e, j)
    BY <2>3 DEF SkipJob, TypeOK, RowStatus, TaskState
  <2>4. CASE SkipJobDone(e, j)
    <3>1. row[e] \in [Jobs -> RowStatus] /\ task[e] \in [Jobs -> TaskState]
      BY DEF TypeOK
    <3>2. task' \in [Executors -> [Jobs -> TaskState]]
      BY <2>4, <3>1 DEF SkipJobDone, TypeOK, TaskState
    <3>3. row' \in [Executors -> [Jobs -> RowStatus]]
      BY <2>4, <3>1 DEF SkipJobDone, TypeOK, RowStatus
    <3>4. fatal' \in [Executors -> BOOLEAN]
      BY <2>4 DEF SkipJobDone, TypeOK
    <3>5. QED
      BY <2>4, <3>2, <3>3, <3>4 DEF SkipJobDone, TypeOK
  <2>5. CASE CreateJobFails(e, j)
    BY <2>5 DEF CreateJobFails, TypeOK, TaskState
  <2>6. CASE DropJob(e, j)
    BY <2>6 DEF DropJob, TypeOK, TaskState
  <2>7. QED
    BY <1>9, <2>1, <2>2, <2>3, <2>4, <2>5, <2>6 DEF JobStep
<1>10. CASE FinishRun(e)
  BY <1>1, <1>2, <1>10 DEF FinishRun, TypeOK, ExecutorPC, RunStatus, Conclusion
<1>11. CASE FinishFatal(e)
  BY <1>11 DEF FinishFatal, TypeOK, ExecutorPC
<1>12. QED
  BY <1>3, <1>4, <1>5, <1>6, <1>7, <1>8, <1>9, <1>10, <1>11 DEF ExecutorStep

\* A step of a request keeps every row and control state in its range.
LEMMA RequestStepType ==
  ASSUME TypeOK, NEW q \in Requests, RequestStep(q)
  PROVE  TypeOK'
<1>1. CASE Dispatch(q)
  BY <1>1 DEF Dispatch, TypeOK, ExecutorPC
<1>2. CASE RedispatchFails(q)
  BY <1>2 DEF RedispatchFails, TypeOK
<1>3. CASE CancelRunRow(q)
  <2>1. req[q] \in RequestState
    BY <1>3 DEF CancelRunRow, TypeOK
  <2>2. req[q].run \in Runs
    BY <2>1 DEF RequestState
  <2>3. [op |-> "cancelJobs", run |-> req[q].run, n |-> 0] \in RequestState
    BY <2>2, CIRunsAssumption DEF RequestState
  <2>4. QED
    BY <1>3, <2>2, <2>3 DEF CancelRunRow, TypeOK, RunStatus, Conclusion
<1>4. CASE CancelJobRows(q)
  BY <1>4 DEF CancelJobRows, TypeOK, RowStatus
<1>5. CASE CancelFails(q)
  BY <1>5 DEF CancelFails, TypeOK
<1>6. QED
  BY <1>1, <1>2, <1>3, <1>4, <1>5 DEF RequestStep

\* Every step keeps every row and control state in its range.
LEMMA StepType == TypeOK /\ [Next]_vars => TypeOK'
<1> SUFFICES ASSUME TypeOK, [Next]_vars PROVE TypeOK'
  OBVIOUS
<1>1. ASSUME NEW q \in Requests, NEW r \in Runs, CreateRun(q, r)
      PROVE  TypeOK'
  <2>1. run' \in [Runs -> [status: RunStatus, conclusion: Conclusion]]
    BY <1>1 DEF CreateRun, TypeOK, RunStatus
  <2>2. attempt' \in [Runs -> 0..MaxAttempts]
    BY <1>1, CIRunsAssumption DEF CreateRun, TypeOK
  <2>3. req' \in [Requests -> {Idle} \union RequestState]
    BY <1>1, CIRunsAssumption DEF CreateRun, TypeOK, RequestState
  <2>4. QED
    BY <1>1, <2>1, <2>2, <2>3 DEF CreateRun, TypeOK
<1>2. ASSUME NEW q \in Requests, NEW r \in Runs, RerunReset(q, r)
      PROVE  TypeOK'
  BY <1>2, CIRunsAssumption DEF RerunReset, TypeOK, RunStatus, Conclusion, RequestState
<1>3. ASSUME NEW q \in Requests, NEW r \in Runs, CancelCheck(q, r)
      PROVE  TypeOK'
  BY <1>3, CIRunsAssumption DEF CancelCheck, TypeOK, RequestState
<1>4. CASE Crash
  BY <1>4 DEF Crash, TypeOK, ExecutorPC
<1>5. CASE UNCHANGED vars
  BY <1>5 DEF vars, TypeOK
<1>6. QED
  BY <1>1, <1>2, <1>3, <1>4, <1>5, RequestStepType, ExecutorStepType DEF Next, NewRequest

\* Every reachable state is well typed: no statement writes a status or a
\* conclusion outside the known ones, no executor leaves its control states.
THEOREM TypeCorrect == Spec => []TypeOK
<1>1. Init => TypeOK
  BY CIRunsAssumption DEF Init, TypeOK, RunStatus, Conclusion, RowStatus, ExecutorPC, TaskState
<1>2. QED
  BY <1>1, StepType, PTL DEF Spec

-----------------------------------------------------------------------------
(* What a step of an executor may do to the row of its run. *)

Row(status, conclusion) == [status |-> status, conclusion |-> conclusion]

\* Every write of an executor is guarded by the conclusion, touches the row of
\* its own run only, and a success is written by an executor all of whose jobs passed.
LEMMA ExecutorWrites ==
  ASSUME TypeOK, NEW e \in Executors, ExecutorStep(e)
  PROVE  \/ run' = run
         \/ /\ run[e[1]].conclusion # "cancelled"
            /\ \/ run' = [run EXCEPT ![e[1]] = Row("in_progress", run[e[1]].conclusion)]
               \/ run' = [run EXCEPT ![e[1]] = Row("failed", "rate_limited")]
               \/ run' = [run EXCEPT ![e[1]] = Row("failed", "failure")]
               \/ /\ run' = [run EXCEPT ![e[1]] = Row("completed", "success")]
                  /\ \A j \in Jobs : task[e][j] \in Passed
                  /\ pc'[e] = "done"
                  /\ UNCHANGED task
<1>1. e[1] \in Runs /\ run[e[1]] \in [status: RunStatus, conclusion: Conclusion]
  BY DEF Executors, TypeOK
<1>2. ASSUME NEW s, NEW c, markRun(e[1], s, c)
      PROVE  \/ run' = run
             \/ run[e[1]].conclusion # "cancelled" /\ run' = [run EXCEPT ![e[1]] = Row(s, c)]
  <2>1. CASE run[e[1]].conclusion = "cancelled"
    <3>1. run' = run \/ run' = [run EXCEPT ![e[1]] = run[e[1]]]
      BY <1>2, <2>1 DEF markRun
    <3>2. QED
      BY <1>1, <3>1 DEF TypeOK
  <2>2. CASE run[e[1]].conclusion # "cancelled"
    BY <1>2, <2>2 DEF markRun, Row
  <2>3. QED
    BY <2>1, <2>2
<1>3. CASE CheckLimit(e) \/ StartJobs(e) \/ AbortPreamble(e) \/ FinishFatal(e)
  BY <1>3 DEF CheckLimit, StartJobs, AbortPreamble, FinishFatal
<1>4. CASE RejectRun(e)
  BY <1>2, <1>4 DEF RejectRun
<1>5. CASE AdmitRun(e)
  <2>1. CASE run[e[1]].conclusion = "cancelled"
    <3>1. run' = [run EXCEPT ![e[1]].status = run[e[1]].status]
      BY <1>5, <2>1 DEF AdmitRun, setStatus
    <3>2. QED
      BY <1>1, <3>1 DEF TypeOK
  <2>2. CASE run[e[1]].conclusion # "cancelled"
    <3>1. run' = [run EXCEPT ![e[1]].status = "in_progress"]
      BY <1>5, <2>2 DEF AdmitRun, setStatus
    <3>2. [run[e[1]] EXCEPT !.status = "in_progress"] = Row("in_progress", run[e[1]].conclusion)
      BY <1>1 DEF Row
    <3>3. QED
      BY <2>2, <3>1, <3>2
  <2>3. QED
    BY <2>1, <2>2
<1>6. CASE RejectWorkflow(e)
  BY <1>2, <1>6 DEF RejectWorkflow
<1>7. ASSUME NEW j \in Jobs, JobStep(e, j)
      PROVE  run' = run
  BY <1>7 DEF JobStep, StartJob, FinishJob, SkipJob, SkipJobDone, CreateJobFails, DropJob
<1>8. CASE FinishRun(e)
  <2>1. pc'[e] = "done" /\ UNCHANGED task
    BY <1>8 DEF FinishRun, TypeOK
  <2>2. CASE \A j \in Jobs : task[e][j] \in Passed
    <3>1. markRun(e[1], "completed", "success")
      BY <1>8, <2>2 DEF FinishRun
    <3>2. QED
      BY <1>2, <2>1, <2>2, <3>1
  <2>3. CASE ~(\A j \in Jobs : task[e][j] \in Passed)
    <3>1. markRun(e[1], "failed", "failure")
      BY <1>8, <2>3 DEF FinishRun
    <3>2. QED
      BY <1>2, <3>1
  <2>4. QED
    BY <2>2, <2>3
<1>9. QED
  BY <1>3, <1>4, <1>5, <1>6, <1>7, <1>8 DEF ExecutorStep

-----------------------------------------------------------------------------
(* Status and conclusion agree. *)

\* StatusAgrees, for one row.
Agrees(x) ==
  /\ x.status = "completed" => x.conclusion \in {"success", "cancelled"}
  /\ x.status = "failed" => x.conclusion \in {"failure", "rate_limited"}
  /\ x.status \in {"none", "queued"} => x.conclusion = "null"
  /\ x.conclusion = "cancelled" => x.status = "completed"

\* No step separates the status of a row from its conclusion.
LEMMA StatusStep == TypeOK /\ StatusAgrees /\ [Next]_vars => StatusAgrees'
<1> SUFFICES ASSUME TypeOK, StatusAgrees, [Next]_vars
             PROVE  \A r \in Runs : Agrees(run'[r])
  BY DEF StatusAgrees, Agrees
<1>1. run \in [Runs -> [status: RunStatus, conclusion: Conclusion]] /\ \A r \in Runs : Agrees(run[r])
  BY DEF TypeOK, StatusAgrees, Agrees
<1>2. ASSUME NEW s \in Runs, NEW x, Agrees(x), run' = [run EXCEPT ![s] = x]
      PROVE  \A r \in Runs : Agrees(run'[r])
  BY <1>1, <1>2
<1>3. CASE run' = run
  BY <1>1, <1>3
<1>4. ASSUME NEW q \in Requests, NEW s \in Runs, NewRequest(q, s)
      PROVE  \A r \in Runs : Agrees(run'[r])
  <2>1. CASE CreateRun(q, s)
    <3>1. run[s].conclusion = "null" /\ run' = [run EXCEPT ![s].status = "queued"]
      BY <1>1, <2>1 DEF CreateRun, Agrees
    <3>2. [run[s] EXCEPT !.status = "queued"] = Row("queued", "null")
      BY <1>1, <3>1 DEF Row
    <3>3. run' = [run EXCEPT ![s] = Row("queued", "null")]
      BY <3>1, <3>2
    <3>4. QED
      BY <1>2, <3>3 DEF Agrees, Row
  <2>2. CASE RerunReset(q, s)
    <3>1. run' = [run EXCEPT ![s] = Row("queued", "null")]
      BY <2>2 DEF RerunReset, Row
    <3>2. QED
      BY <1>2, <3>1 DEF Agrees, Row
  <2>3. CASE CancelCheck(q, s)
    BY <1>3, <2>3 DEF CancelCheck
  <2>4. QED
    BY <1>4, <2>1, <2>2, <2>3 DEF NewRequest
<1>5. ASSUME NEW q \in Requests, RequestStep(q)
      PROVE  \A r \in Runs : Agrees(run'[r])
  <2>1. CASE CancelRunRow(q)
    <3>1. req[q].run \in Runs
      BY <2>1 DEF CancelRunRow, TypeOK, RequestState
    <3>2. run' = [run EXCEPT ![req[q].run] = Row("completed", "cancelled")]
      BY <2>1 DEF CancelRunRow, Row
    <3>3. QED
      BY <1>2, <3>1, <3>2 DEF Agrees, Row
  <2>2. CASE ~CancelRunRow(q)
    BY <1>3, <1>5, <2>2 DEF RequestStep, Dispatch, RedispatchFails, CancelJobRows, CancelFails
  <2>3. QED
    BY <2>1, <2>2
<1>6. ASSUME NEW e \in Executors, ExecutorStep(e)
      PROVE  \A r \in Runs : Agrees(run'[r])
  <2>1. e[1] \in Runs
    BY DEF Executors
  <2>2. CASE /\ run[e[1]].conclusion # "cancelled"
             /\ run' = [run EXCEPT ![e[1]] = Row("in_progress", run[e[1]].conclusion)]
    BY <1>2, <2>1, <2>2 DEF Agrees, Row
  <2>3. CASE \E c \in {"failure", "rate_limited"} : run' = [run EXCEPT ![e[1]] = Row("failed", c)]
    BY <1>2, <2>1, <2>3 DEF Agrees, Row
  <2>4. CASE run' = [run EXCEPT ![e[1]] = Row("completed", "success")]
    BY <1>2, <2>1, <2>4 DEF Agrees, Row
  <2>5. QED
    BY <1>3, <1>6, <2>2, <2>3, <2>4, ExecutorWrites
<1>7. CASE Crash \/ UNCHANGED vars
  BY <1>3, <1>7 DEF Crash, vars
<1>8. QED
  BY <1>4, <1>5, <1>6, <1>7 DEF Next

\* Whatever attempts and requests overlap, the status and the conclusion a
\* client reads belong together, and a cancelled run is never in progress.
THEOREM StatusAlwaysAgrees == Spec => []StatusAgrees
<1>1. Init => StatusAgrees
  BY DEF Init, StatusAgrees
<1>2. QED
  BY <1>1, StatusStep, TypeCorrect, PTL DEF Spec

-----------------------------------------------------------------------------
(* A cancelled run stays cancelled. *)

\* Only a step that counts a new attempt changes a cancelled row.
LEMMA CancelStep ==
  TypeOK /\ StatusAgrees /\ [Next]_vars =>
    [\A r \in Runs : run[r].conclusion = "cancelled" =>
       run'[r] = run[r] \/ attempt'[r] > attempt[r]]_vars
<1> SUFFICES ASSUME TypeOK, StatusAgrees, Next, NEW r \in Runs,
                    run[r].conclusion = "cancelled", run'[r] # run[r]
             PROVE  attempt'[r] > attempt[r]
  BY DEF StatusAgrees, TypeOK
<1>1. /\ run[r] = Row("completed", "cancelled")
      /\ run \in [Runs -> [status: RunStatus, conclusion: Conclusion]]
      /\ attempt \in [Runs -> 0..MaxAttempts]
  BY DEF TypeOK, StatusAgrees, Row
<1>2. ASSUME NEW q \in Requests, NEW s \in Runs, NewRequest(q, s)
      PROVE  attempt'[r] > attempt[r]
  <2>1. CASE CreateRun(q, s)
    <3>1. r # s
      BY <1>1, <2>1 DEF CreateRun, Row
    <3>2. QED
      BY <1>1, <2>1, <3>1 DEF CreateRun
  <2>2. CASE RerunReset(q, s)
    BY <1>1, <2>2, CIRunsAssumption DEF RerunReset
  <2>3. CASE CancelCheck(q, s)
    BY <2>3 DEF CancelCheck
  <2>4. QED
    BY <1>2, <2>1, <2>2, <2>3 DEF NewRequest
<1>3. ASSUME NEW q \in Requests, RequestStep(q)
      PROVE  FALSE
  <2>1. CASE CancelRunRow(q)
    <3>1. run' = [run EXCEPT ![req[q].run] = Row("completed", "cancelled")]
      BY <2>1 DEF CancelRunRow, Row
    <3>2. run'[r] = run[r]
      BY <1>1, <3>1
    <3>3. QED
      BY <3>2
  <2>2. CASE ~CancelRunRow(q)
    BY <1>3, <2>2 DEF RequestStep, Dispatch, RedispatchFails, CancelJobRows, CancelFails
  <2>3. QED
    BY <2>1, <2>2
<1>4. ASSUME NEW e \in Executors, ExecutorStep(e)
      PROVE  FALSE
  <2>1. CASE run' = run
    BY <2>1
  <2>2. CASE e[1] = r
    BY <1>4, <2>1, <2>2, ExecutorWrites
  <2>3. CASE e[1] # r
    BY <1>1, <1>4, <2>1, <2>3, ExecutorWrites
  <2>4. QED
    BY <2>2, <2>3
<1>5. QED
  BY <1>2, <1>3, <1>4 DEF Next, Crash

\* The comment on setStatus, for every number of executors and requests: only
\* a re-run takes a run out of cancelled.
THEOREM CancelAlwaysSticks == Spec => CancelSticks
<1>1. QED
  BY CancelStep, TypeCorrect, StatusAlwaysAgrees, PTL DEF Spec, CancelSticks

-----------------------------------------------------------------------------
(* A green run was earned. The conclusion "success" is written by an        *)
(* executor that is done with every job passed; it stays earned because     *)
(* nobody starts that executor again. For that, every dispatch in flight    *)
(* must name an attempt of its own that no goroutine ran yet.               *)

Pending(q) == req[q] # Idle /\ req[q].op = "dispatch"

Target(q) == <<req[q].run, req[q].n>>

Earned(r) ==
  \E n \in 1..MaxAttempts :
    pc[<<r, n>>] = "done" /\ \A j \in Jobs : task[<<r, n>>][j] \in Passed

AttemptsCounted == \A r \in Runs : run[r].status = "none" => attempt[r] = 0

FutureUnused == \A e \in Executors : e[2] > attempt[e[1]] => pc[e] = "none"

PendingFresh ==
  \A q \in Requests : Pending(q) => /\ req[q].n \in 1..attempt[req[q].run]
                                   /\ pc[Target(q)] = "none"

PendingUnique ==
  \A p, q \in Requests : Pending(p) /\ Pending(q) /\ Target(p) = Target(q) => p = q

DispatchInv == AttemptsCounted /\ FutureUnused /\ PendingFresh /\ PendingUnique

\* A step of an executor moves that executor only, and one that runs already.
LEMMA ExecutorMoves ==
  ASSUME TypeOK, NEW e \in Executors, ExecutorStep(e)
  PROVE  /\ pc[e] \in Live
         /\ UNCHANGED <<req, attempt, stopped>>
         /\ \E v \in ExecutorPC \ {"none"} : pc' = [pc EXCEPT ![e] = v]
         /\ \A f \in Executors : f # e => task'[f] = task[f]
<1> DEFINE Moves == \E v \in ExecutorPC \ {"none"} : pc' = [pc EXCEPT ![e] = v]
<1>1. ASSUME NEW j \in Jobs, JobStep(e, j)
      PROVE  /\ pc[e] = "jobs" /\ pc' = pc
             /\ UNCHANGED <<req, attempt, stopped>>
             /\ \A f \in Executors : f # e => task'[f] = task[f]
  <2>1. /\ pc[e] = "jobs" /\ pc' = pc
        /\ UNCHANGED <<req, attempt, stopped>>
        /\ \E v : task' = [task EXCEPT ![e][j] = v]
    BY <1>1 DEF JobStep, StartJob, FinishJob, SkipJob, SkipJobDone, CreateJobFails, DropJob
  <2>2. QED
    BY <2>1 DEF TypeOK
<1>2. CASE \E j \in Jobs : JobStep(e, j)
  <2>1. pc' = [pc EXCEPT ![e] = "jobs"]
    BY <1>1, <1>2 DEF TypeOK
  <2>2. QED
    BY <1>1, <1>2, <2>1 DEF Live, ExecutorPC
<1>3. CASE ~(\E j \in Jobs : JobStep(e, j))
  <2>1. pc[e] \in Live /\ UNCHANGED <<req, attempt, stopped, task>>
    BY <1>3 DEF ExecutorStep, CheckLimit, RejectRun, AdmitRun, RejectWorkflow, StartJobs,
                AbortPreamble, FinishRun, FinishFatal, Live
  <2>2. Moves
    <3>1. CASE CheckLimit(e)
      BY <3>1 DEF CheckLimit, ExecutorPC
    <3>2. CASE ~CheckLimit(e)
      BY <1>3, <3>2 DEF ExecutorStep, RejectRun, AdmitRun, RejectWorkflow, StartJobs,
                        AbortPreamble, FinishRun, FinishFatal, ExecutorPC
    <3>3. QED
      BY <3>1, <3>2
  <2>3. QED
    BY <2>1, <2>2
<1>4. QED
  BY <1>2, <1>3

\* The same for one row: what an executor may have done to it.
LEMMA ExecutorTouches ==
  ASSUME TypeOK, NEW e \in Executors, ExecutorStep(e), NEW r \in Runs, run'[r] # run[r]
  PROVE  /\ r = e[1]
         /\ run'[r].status # "none"
         /\ run'[r].conclusion = "success" /\ run[r].conclusion # "success" =>
              /\ \A j \in Jobs : task[e][j] \in Passed
              /\ pc'[e] = "done"
              /\ UNCHANGED task
<1> DEFINE EarnedNow == /\ \A j \in Jobs : task[e][j] \in Passed
                       /\ pc'[e] = "done"
                       /\ UNCHANGED task
<1>1. run \in [Runs -> [status: RunStatus, conclusion: Conclusion]] /\ e[1] \in Runs
  BY DEF TypeOK, Executors
<1>2. PICK x : /\ run' = [run EXCEPT ![e[1]] = x]
               /\ \/ x = Row("in_progress", run[e[1]].conclusion)
                  \/ x = Row("failed", "rate_limited")
                  \/ x = Row("failed", "failure")
                  \/ x = Row("completed", "success") /\ EarnedNow
  <2>1. run' # run
    OBVIOUS
  <2>2. QED
    BY <2>1, ExecutorWrites
<1>3. r = e[1] /\ run'[r] = x
  BY <1>1, <1>2
<1>4. x.status # "none" /\ (x.conclusion = "success" => run[e[1]].conclusion = "success" \/ EarnedNow)
  BY <1>2 DEF Row
<1>5. QED
  BY <1>3, <1>4

\* Counted attempts, and at most one dispatch for each, are inductive.
LEMMA DispatchStep ==
  TypeOK /\ StatusAgrees /\ DispatchInv /\ [Next]_vars => DispatchInv'
<1> SUFFICES ASSUME TypeOK, DispatchInv, [Next]_vars PROVE DispatchInv'
  OBVIOUS
<1>1. /\ run \in [Runs -> [status: RunStatus, conclusion: Conclusion]]
      /\ attempt \in [Runs -> 0..MaxAttempts]
      /\ pc \in [Executors -> ExecutorPC]
      /\ req \in [Requests -> {Idle} \union RequestState]
  BY DEF TypeOK
<1>2. ASSUME NEW q \in Requests, Pending(q)
      PROVE  /\ req[q].run \in Runs
             /\ req[q].n \in 1..MaxAttempts
             /\ Target(q) \in Executors
  <2>1. req[q] \in RequestState
    BY <1>1, <1>2 DEF Pending
  <2>2. req[q].run \in Runs /\ req[q].n \in 0..MaxAttempts
    BY <2>1 DEF RequestState
  <2>3. req[q].n \in 1..attempt[req[q].run]
    BY <1>2 DEF DispatchInv, PendingFresh
  <2>4. QED
    BY <2>2, <2>3, CIRunsAssumption DEF Target, Executors
<1>3. ASSUME NEW q \in Requests, NEW s \in Runs, attempt[s] < MaxAttempts, NEW n, n = attempt[s] + 1,
             req[q] = Idle, NEW c,
             run' = [run EXCEPT ![s] = Row("queued", c)],
             attempt' = [attempt EXCEPT ![s] = n],
             req' = [req EXCEPT ![q] = [op |-> "dispatch", run |-> s, n |-> n]],
             pc' = pc
      PROVE  DispatchInv'
  <2>1. n \in 1..MaxAttempts /\ <<s, n>> \in Executors /\ attempt[s] \in Nat
    BY <1>1, <1>3, CIRunsAssumption DEF Executors
  <2>2. pc[<<s, n>>] = "none"
    BY <1>3, <2>1 DEF DispatchInv, FutureUnused
  <2>3. AttemptsCounted'
    BY <1>1, <1>3, <2>1 DEF DispatchInv, AttemptsCounted, Row
  <2>4. FutureUnused'
    BY <1>1, <1>3, <2>1 DEF DispatchInv, FutureUnused, Executors
  <2>5. ~Pending(q) /\ Pending(q)' /\ Target(q)' = <<s, n>>
    BY <1>1, <1>3 DEF Pending, Target, Idle
  <2>6. ASSUME NEW p \in Requests, p # q
        PROVE  Pending(p)' = Pending(p) /\ Target(p)' = Target(p) /\ req'[p] = req[p]
    BY <1>1, <1>3, <2>6 DEF Pending, Target
  <2>7. PendingFresh'
    <3> SUFFICES ASSUME NEW p \in Requests, Pending(p)'
                 PROVE  req'[p].n \in 1..attempt'[req'[p].run] /\ pc'[Target(p)'] = "none"
      BY DEF PendingFresh
    <3>1. CASE p = q
      <4>1. req'[q].n = n /\ req'[q].run = s /\ attempt'[s] = n
        BY <1>1, <1>3
      <4>2. QED
        BY <1>3, <2>1, <2>2, <2>5, <3>1, <4>1
    <3>2. CASE p # q
      <4>1. Pending(p) /\ req'[p] = req[p] /\ Target(p)' = Target(p)
        BY <2>6, <3>2
      <4>2. req[p].n \in 1..attempt[req[p].run] /\ pc[Target(p)] = "none" /\ req[p].run \in Runs
        BY <1>2, <4>1 DEF DispatchInv, PendingFresh
      <4>3. attempt'[req[p].run] \in Nat /\ attempt'[req[p].run] >= attempt[req[p].run]
                /\ attempt[req[p].run] \in Nat
        BY <1>1, <1>3, <2>1, <4>2, CIRunsAssumption
      <4>4. QED
        BY <1>3, <4>1, <4>2, <4>3
    <3>3. QED
      BY <3>1, <3>2
  <2>8. PendingUnique'
    <3>1. ASSUME NEW p \in Requests, p # q, Pending(p)
          PROVE  Target(p) # <<s, n>>
      BY <1>1, <1>2, <1>3, <2>1, <3>1 DEF DispatchInv, PendingFresh, Target
    <3>2. QED
      BY <2>5, <2>6, <3>1 DEF DispatchInv, PendingUnique
  <2>9. QED
    BY <2>3, <2>4, <2>7, <2>8 DEF DispatchInv
<1>4. ASSUME UNCHANGED attempt,
             \A r \in Runs : run'[r].status = "none" => run[r].status = "none",
             \A p \in Requests : Pending(p)' => Pending(p) /\ req'[p] = req[p],
             \A e \in Executors : pc[e] = "none" => \/ pc'[e] = "none"
                                                   \/ /\ e[2] <= attempt[e[1]]
                                                      /\ \A p \in Requests : Pending(p)' => Target(p) # e
      PROVE  DispatchInv'
  <2>1. AttemptsCounted'
    BY <1>4 DEF DispatchInv, AttemptsCounted
  <2>2. FutureUnused'
    <3>1. \A e \in Executors : e[2] \in Nat /\ attempt[e[1]] \in Nat
      BY <1>1, CIRunsAssumption DEF Executors
    <3>2. QED
      BY <1>4, <3>1 DEF DispatchInv, FutureUnused
  <2>3. ASSUME NEW p \in Requests, Pending(p)'
        PROVE  Pending(p) /\ req'[p] = req[p] /\ Target(p)' = Target(p)
    BY <1>4, <2>3 DEF Target
  <2>4. PendingFresh'
    <3> SUFFICES ASSUME NEW p \in Requests, Pending(p)'
                 PROVE  req'[p].n \in 1..attempt'[req'[p].run] /\ pc'[Target(p)'] = "none"
      BY DEF PendingFresh
    <3>1. Pending(p) /\ req'[p] = req[p] /\ Target(p)' = Target(p)
      BY <2>3
    <3>2. req[p].n \in 1..attempt[req[p].run] /\ pc[Target(p)] = "none"
      BY <3>1 DEF DispatchInv, PendingFresh
    <3>3. Target(p) \in Executors
      BY <1>2, <3>1
    <3>4. QED
      BY <1>4, <3>1, <3>2, <3>3
  <2>5. PendingUnique'
    BY <2>3 DEF DispatchInv, PendingUnique
  <2>6. QED
    BY <2>1, <2>2, <2>4, <2>5 DEF DispatchInv
<1>5. ASSUME NEW q \in Requests, NEW s \in Runs, NewRequest(q, s)
      PROVE  DispatchInv'
  <2>1. CASE CreateRun(q, s)
    <3>1. attempt[s] = 0 /\ MaxAttempts \in Nat \ {0}
      BY <2>1, CIRunsAssumption DEF CreateRun, DispatchInv, AttemptsCounted
    <3>2. [run[s] EXCEPT !.status = "queued"] = Row("queued", run[s].conclusion)
      BY <1>1 DEF Row
    <3>3. run' = [run EXCEPT ![s] = Row("queued", run[s].conclusion)]
      BY <2>1, <3>2 DEF CreateRun
    <3>4. /\ attempt' = [attempt EXCEPT ![s] = attempt[s] + 1]
          /\ req' = [req EXCEPT ![q] = [op |-> "dispatch", run |-> s, n |-> attempt[s] + 1]]
          /\ req[q] = Idle /\ pc' = pc /\ attempt[s] < MaxAttempts
      BY <2>1, <3>1 DEF CreateRun
    <3>5. QED
      BY <1>3, <3>3, <3>4
  <2>2. CASE RerunReset(q, s)
    BY <1>3, <2>2 DEF RerunReset, Row
  <2>3. CASE CancelCheck(q, s)
    <3>1. \A p \in Requests : Pending(p)' => Pending(p) /\ req'[p] = req[p]
      BY <1>1, <2>3 DEF CancelCheck, Pending
    <3>2. UNCHANGED <<run, attempt, pc>>
      BY <2>3 DEF CancelCheck
    <3>3. QED
      BY <1>4, <3>1, <3>2
  <2>4. QED
    BY <1>5, <2>1, <2>2, <2>3 DEF NewRequest
<1>6. ASSUME NEW q \in Requests, RequestStep(q)
      PROVE  DispatchInv'
  <2>1. UNCHANGED attempt
    BY <1>6 DEF RequestStep, Dispatch, RedispatchFails, CancelRunRow, CancelJobRows, CancelFails
  <2>2. \A p \in Requests : Pending(p)' => p # q /\ Pending(p) /\ req'[p] = req[p]
    BY <1>1, <1>6 DEF RequestStep, Dispatch, RedispatchFails, CancelRunRow, CancelJobRows, CancelFails,
                      Pending, Idle
  <2>3. CASE Dispatch(q)
    <3>1. Pending(q) /\ pc' = [pc EXCEPT ![Target(q)] = "start"] /\ run' = run
      BY <2>3 DEF Dispatch, Pending, Target
    <3>2. req[q].n \in 1..attempt[req[q].run]
      BY <3>1 DEF DispatchInv, PendingFresh
    <3>3. attempt[req[q].run] \in Nat
      BY <1>1, <1>2, <3>1
    <3>4. Target(q)[2] <= attempt[Target(q)[1]]
      BY <3>2, <3>3 DEF Target
    <3>5. \A p \in Requests : Pending(p)' => Target(p) # Target(q)
      BY <2>2, <3>1 DEF DispatchInv, PendingUnique
    <3>6. QED
      BY <1>1, <1>4, <2>1, <2>2, <3>1, <3>4, <3>5
  <2>4. CASE CancelRunRow(q)
    <3>1. run' = [run EXCEPT ![req[q].run] = Row("completed", "cancelled")] /\ pc' = pc
      BY <2>4 DEF CancelRunRow, Row
    <3>2. \A r \in Runs : run'[r].status = "none" => run[r].status = "none"
      BY <1>1, <3>1 DEF Row
    <3>3. QED
      BY <1>4, <2>1, <2>2, <3>1, <3>2
  <2>5. CASE ~Dispatch(q) /\ ~CancelRunRow(q)
    <3>1. run' = run /\ pc' = pc
      BY <1>6, <2>5 DEF RequestStep, RedispatchFails, CancelJobRows, CancelFails
    <3>2. QED
      BY <1>4, <2>1, <2>2, <3>1
  <2>6. QED
    BY <2>3, <2>4, <2>5
<1>7. ASSUME NEW e \in Executors, ExecutorStep(e)
      PROVE  DispatchInv'
  <2>1. e[1] \in Runs /\ e[2] \in Nat /\ attempt[e[1]] \in Nat
    BY <1>1, CIRunsAssumption DEF Executors
  <2>2. PICK v \in ExecutorPC \ {"none"} : pc' = [pc EXCEPT ![e] = v]
    BY <1>7, ExecutorMoves
  <2>3. UNCHANGED <<req, attempt>> /\ pc[e] # "none"
    BY <1>7, ExecutorMoves DEF Live
  <2>4. \A f \in Executors : pc[f] = "none" => pc'[f] = "none"
    BY <1>1, <2>2, <2>3
  <2>5. \A r \in Runs : run'[r].status = "none" => run[r].status = "none"
    BY <1>7, ExecutorTouches
  <2>6. \A p \in Requests : Pending(p)' => Pending(p) /\ req'[p] = req[p]
    BY <2>3 DEF Pending
  <2>7. QED
    BY <1>4, <2>3, <2>4, <2>5, <2>6
<1>8. CASE Crash
  <2>1. \A p \in Requests : ~Pending(p)'
    BY <1>8 DEF Crash, Pending
  <2>2. UNCHANGED <<run, attempt>> /\ \A e \in Executors : pc[e] = "none" => pc'[e] = "none"
    BY <1>8 DEF Crash, Live
  <2>3. QED
    BY <1>4, <2>1, <2>2
<1>9. CASE UNCHANGED vars
  BY <1>9 DEF vars, DispatchInv, AttemptsCounted, FutureUnused, PendingFresh, PendingUnique, Pending, Target
<1>10. QED
  BY <1>5, <1>6, <1>7, <1>8, <1>9 DEF Next

\* A step that makes a row green has an executor to show for it, and none takes it away.
LEMMA EarnedStep ==
  TypeOK /\ DispatchInv /\ SuccessEarned /\ [Next]_vars => SuccessEarned'
<1> SUFFICES ASSUME TypeOK, DispatchInv, SuccessEarned, [Next]_vars, NEW r \in Runs,
                    run'[r].conclusion = "success"
             PROVE  Earned(r)'
  BY DEF SuccessEarned, Earned
<1>1. /\ run \in [Runs -> [status: RunStatus, conclusion: Conclusion]]
      /\ pc \in [Executors -> ExecutorPC]
  BY DEF TypeOK
<1>2. run[r].conclusion = "success" => Earned(r)
  BY DEF SuccessEarned, Earned
<1>3. ASSUME Earned(r),
             \A e \in Executors : pc[e] = "done" => pc'[e] = "done" /\ task'[e] = task[e]
      PROVE  Earned(r)'
  <2>1. PICK n \in 1..MaxAttempts :
          pc[<<r, n>>] = "done" /\ \A j \in Jobs : task[<<r, n>>][j] \in Passed
    BY <1>3 DEF Earned
  <2>2. <<r, n>> \in Executors
    BY DEF Executors
  <2>3. QED
    BY <1>3, <2>1, <2>2 DEF Earned
<1>4. ASSUME NEW q \in Requests, NEW s \in Runs, NewRequest(q, s)
      PROVE  Earned(r)'
  <2>1. run'[r].conclusion = run[r].conclusion
    <3>1. CASE CreateRun(q, s)
      BY <1>1, <3>1 DEF CreateRun
    <3>2. CASE RerunReset(q, s)
      BY <1>1, <3>2 DEF RerunReset
    <3>3. CASE CancelCheck(q, s)
      BY <3>3 DEF CancelCheck
    <3>4. QED
      BY <1>4, <3>1, <3>2, <3>3 DEF NewRequest
  <2>2. UNCHANGED <<pc, task>>
    BY <1>4 DEF NewRequest, CreateRun, RerunReset, CancelCheck
  <2>3. QED
    BY <1>2, <1>3, <2>1, <2>2
<1>5. ASSUME NEW q \in Requests, RequestStep(q)
      PROVE  Earned(r)'
  <2>1. run'[r].conclusion = run[r].conclusion
    <3>1. CASE CancelRunRow(q)
      BY <1>1, <3>1 DEF CancelRunRow
    <3>2. CASE ~CancelRunRow(q)
      BY <1>5, <3>2 DEF RequestStep, Dispatch, RedispatchFails, CancelJobRows, CancelFails
    <3>3. QED
      BY <3>1, <3>2
  <2>2. UNCHANGED task
    BY <1>5 DEF RequestStep, Dispatch, RedispatchFails, CancelRunRow, CancelJobRows, CancelFails
  <2>3. ASSUME NEW e \in Executors, pc[e] = "done"
        PROVE  pc'[e] = "done"
    <3>1. CASE Dispatch(q)
      <4>1. pc' = [pc EXCEPT ![Target(q)] = "start"] /\ pc[Target(q)] = "none"
        BY <3>1 DEF Dispatch, Target, Pending, DispatchInv, PendingFresh
      <4>2. QED
        BY <1>1, <2>3, <4>1
    <3>2. CASE ~Dispatch(q)
      BY <1>5, <2>3, <3>2 DEF RequestStep, RedispatchFails, CancelRunRow, CancelJobRows, CancelFails
    <3>3. QED
      BY <3>1, <3>2
  <2>4. QED
    BY <1>2, <1>3, <2>1, <2>2, <2>3
<1>6. ASSUME NEW e \in Executors, ExecutorStep(e)
      PROVE  Earned(r)'
  <2>1. e[1] \in Runs /\ e[2] \in 1..MaxAttempts /\ e = <<e[1], e[2]>>
    BY DEF Executors
  <2>2. PICK v \in ExecutorPC \ {"none"} : pc' = [pc EXCEPT ![e] = v]
    BY <1>6, ExecutorMoves
  <2>3. pc[e] # "done" /\ \A f \in Executors : f # e => task'[f] = task[f]
    BY <1>6, ExecutorMoves DEF Live
  <2>4. \A f \in Executors : pc[f] = "done" => pc'[f] = "done" /\ task'[f] = task[f]
    BY <1>1, <2>2, <2>3
  <2>5. CASE run[r].conclusion = "success"
    BY <1>2, <1>3, <2>4, <2>5
  <2>6. CASE run[r].conclusion # "success"
    <3>1. run'[r] # run[r]
      BY <2>6
    <3>2. e[1] = r
      BY <1>6, <3>1, ExecutorTouches
    <3>3. (\A j \in Jobs : task[e][j] \in Passed) /\ pc'[e] = "done" /\ UNCHANGED task
      BY <1>6, <2>6, <3>1, ExecutorTouches
    <3>4. QED
      BY <2>1, <3>2, <3>3 DEF Earned
  <2>7. QED
    BY <2>5, <2>6
<1>7. CASE Crash
  <2>1. \A e \in Executors : pc[e] = "done" => pc'[e] = "done"
    BY <1>7 DEF Crash, Live
  <2>2. UNCHANGED <<run, task>>
    BY <1>7 DEF Crash
  <2>3. QED
    BY <1>2, <1>3, <2>1, <2>2
<1>8. CASE UNCHANGED vars
  BY <1>2, <1>3, <1>8 DEF vars
<1>9. QED
  BY <1>4, <1>5, <1>6, <1>7, <1>8 DEF Next

\* Every dispatch in flight starts a goroutine of its own, for an attempt that
\* was counted and that nobody executed yet.
THEOREM DispatchesAreFresh == Spec => []DispatchInv
<1>1. Init => DispatchInv
  BY DEF Init, DispatchInv, AttemptsCounted, FutureUnused, PendingFresh, PendingUnique, Pending
<1>2. QED
  BY <1>1, DispatchStep, TypeCorrect, StatusAlwaysAgrees, PTL DEF Spec

\* A run is shown as green only if an executor brought all of its jobs to
\* success or skip, however many requests, attempts, faults and crashes overlap.
THEOREM SuccessAlwaysEarned == Spec => []SuccessEarned
<1>1. Init => SuccessEarned
  BY DEF Init, SuccessEarned
<1>2. QED
  BY <1>1, EarnedStep, TypeCorrect, DispatchesAreFresh, PTL DEF Spec

-----------------------------------------------------------------------------
(* Without re-runs a cancelled executor is silent. The run CIRunsStaleExecutor *)
(* shows that the hypothesis on MaxAttempts cannot go.                      *)

StoppedStaysCancelled ==
  \A e \in stopped : attempt[e[1]] >= 1 /\ run[e[1]].conclusion = "cancelled"

\* Without re-runs the run of a stopped executor stays cancelled.
LEMMA StoppedStep ==
  ASSUME MaxAttempts = 1
  PROVE  /\ TypeOK /\ TypeOK' /\ StatusAgrees /\ DispatchInv /\ StoppedStaysCancelled /\ [Next]_vars
         => StoppedStaysCancelled'
<1> SUFFICES ASSUME TypeOK, TypeOK', StatusAgrees, DispatchInv, StoppedStaysCancelled, [Next]_vars,
                    NEW e \in stopped'
             PROVE  attempt'[e[1]] >= 1 /\ run'[e[1]].conclusion = "cancelled"
  BY DEF StoppedStaysCancelled
<1>1. /\ e \in Executors /\ e[1] \in Runs /\ e[2] \in 1..MaxAttempts
      /\ attempt[e[1]] \in 0..1 /\ attempt'[e[1]] \in 0..1
  BY DEF TypeOK, Executors
<1>2. CASE e \in stopped
  <2>1. attempt[e[1]] >= 1 /\ run[e[1]].conclusion = "cancelled"
    BY <1>2 DEF StoppedStaysCancelled
  <2>2. run'[e[1]] = run[e[1]] \/ attempt'[e[1]] > attempt[e[1]]
    BY <1>1, <2>1, CancelStep DEF vars
  <2>3. run'[e[1]] = run[e[1]]
    BY <1>1, <2>1, <2>2
  <2>4. attempt'[e[1]] >= attempt[e[1]]
    <3>1. ASSUME NEW q \in Requests, NEW r \in Runs, NewRequest(q, r)
          PROVE  attempt'[e[1]] >= attempt[e[1]]
      <4>1. CASE CreateRun(q, r)
        BY <1>1, <4>1 DEF CreateRun, TypeOK
      <4>2. CASE RerunReset(q, r)
        BY <1>1, <4>2 DEF RerunReset, TypeOK
      <4>3. CASE CancelCheck(q, r)
        BY <1>1, <4>3 DEF CancelCheck
      <4>4. QED
        BY <3>1, <4>1, <4>2, <4>3 DEF NewRequest
    <3>2. ASSUME NEW q \in Requests, RequestStep(q)
          PROVE  attempt' = attempt
      BY <3>2 DEF RequestStep, Dispatch, RedispatchFails, CancelRunRow, CancelJobRows, CancelFails
    <3>3. QED
      BY <1>1, <3>1, <3>2, ExecutorMoves DEF Next, Crash, vars
  <2>5. QED
    BY <1>1, <2>1, <2>3, <2>4
<1>3. CASE e \notin stopped
  <2>1. stopped' # stopped
    BY <1>3
  <2>2. PICK q \in Requests : CancelRunRow(q)
    BY <2>1, ExecutorMoves DEF Next, NewRequest, CreateRun, RerunReset, CancelCheck, RequestStep, Dispatch,
                               RedispatchFails, CancelJobRows, CancelFails, Crash, vars
  <2>3. req[q].run = e[1] /\ pc[e] \in Live /\ attempt' = attempt
    BY <1>3, <2>2 DEF CancelRunRow
  <2>4. e[2] <= attempt[e[1]]
    BY <1>1, <2>3 DEF DispatchInv, FutureUnused, Live
  <2>5. run'[e[1]].conclusion = "cancelled"
    BY <1>1, <2>2, <2>3 DEF CancelRunRow, TypeOK
  <2>6. QED
    BY <1>1, <2>3, <2>4, <2>5
<1>4. QED
  BY <1>2, <1>3

\* A stopped executor does not write the row of a run that is still cancelled.
LEMMA SilentStep ==
  TypeOK /\ StoppedStaysCancelled /\ [Next]_vars
  => [\A e \in stopped : pc'[e] # pc[e] => run'[e[1]] = run[e[1]]]_vars
<1> SUFFICES ASSUME TypeOK, StoppedStaysCancelled, Next, NEW e \in stopped, pc'[e] # pc[e]
             PROVE  run'[e[1]] = run[e[1]]
  OBVIOUS
<1>1. e \in Executors /\ run[e[1]].conclusion = "cancelled"
  BY DEF TypeOK, StoppedStaysCancelled
<1>2. ASSUME NEW f \in Executors, ExecutorStep(f)
      PROVE  run'[e[1]] = run[e[1]]
  <2>1. PICK v : pc' = [pc EXCEPT ![f] = v]
    BY <1>2, ExecutorMoves
  <2>2. e = f
    BY <1>1, <2>1 DEF TypeOK
  <2>3. QED
    BY <1>1, <1>2, <2>2, ExecutorWrites
<1>3. ASSUME NEW q \in Requests, RequestStep(q)
      PROVE  run' = run
  BY <1>3 DEF RequestStep, Dispatch, RedispatchFails, CancelRunRow, CancelJobRows, CancelFails
<1>4. ASSUME NEW q \in Requests, NEW r \in Runs, NewRequest(q, r)
      PROVE  FALSE
  BY <1>4 DEF NewRequest, CreateRun, RerunReset, CancelCheck
<1>5. QED
  BY <1>2, <1>3, <1>4 DEF Next, Crash

\* The comment on markRun holds where no run is dispatched twice: an executor
\* whose run was cancelled under it never changes the row again.
THEOREM SilentWithoutRerun ==
  ASSUME MaxAttempts = 1
  PROVE  Spec => CancelledExecutorIsSilent
<1>1. Init => StoppedStaysCancelled
  BY DEF Init, StoppedStaysCancelled
<1>2. TypeOK /\ TypeOK' /\ StatusAgrees /\ DispatchInv /\ StoppedStaysCancelled /\ [Next]_vars
      => StoppedStaysCancelled'
  BY StoppedStep
<1>3. QED
  BY <1>1, <1>2, SilentStep, TypeCorrect, StatusAlwaysAgrees, DispatchesAreFresh, PTL
     DEF Spec, CancelledExecutorIsSilent

-----------------------------------------------------------------------------
(* Who finishes a run, without failing databases, secrets and processes. A *)
(* queued run is in the hands of its last dispatch, one in progress in     *)
(* those of an executor that has admitted it.                              *)

QueuedIsDispatched ==
  \A r \in Runs : run[r].status = "queued" =>
    /\ attempt[r] >= 1
    /\ pc[<<r, attempt[r]>>] \in {"none", "start", "reject", "admit"}
    /\ pc[<<r, attempt[r]>>] = "none" =>
         "git" \in Faults \/ \E q \in Requests : Pending(q) /\ Target(q) = <<r, attempt[r]>>

InProgressIsExecuted ==
  \A r \in Runs : run[r].status = "in_progress" =>
    Derailed(r) \/ \E n \in 1..MaxAttempts : pc[<<r, n>>] \in {"prepare", "jobs"}

OwnerInv == QueuedIsDispatched /\ InProgressIsExecuted

\* A write of the result by an executor settles the row, or finds it cancelled.
LEMMA MarkSettles ==
  ASSUME TypeOK, StatusAgrees, "db" \notin Faults, NEW r \in Runs, NEW s, NEW c, markRun(r, s, c),
         s \in {"completed", "failed"}
  PROVE  \E x : run' = [run EXCEPT ![r] = x] /\ x.status \notin {"queued", "in_progress"}
<1>1. run[r] \in [status: RunStatus, conclusion: Conclusion]
  BY DEF TypeOK
<1>2. CASE run[r].conclusion = "cancelled"
  <2>1. run[r].status = "completed"
    BY <1>2 DEF StatusAgrees
  <2>2. run' = [run EXCEPT ![r] = run[r]]
    BY <1>2 DEF markRun
  <2>3. QED
    BY <2>1, <2>2
<1>3. CASE run[r].conclusion # "cancelled"
  <2>1. run' = [run EXCEPT ![r] = Row(s, c)]
    BY <1>3 DEF markRun, Row
  <2>2. Row(s, c).status = s
    BY DEF Row
  <2>3. QED
    BY <2>1, <2>2
<1>4. QED
  BY <1>2, <1>3

\* What becomes of the row and of the executor in one of its steps, when only
\* the reading of a workflow may fail.
LEMMA ExecutorHandsOver ==
  ASSUME TypeOK, StatusAgrees, Faults \subseteq {"git"}, NEW e \in Executors, ExecutorStep(e)
  PROVE  \E v, x :
           /\ pc' = [pc EXCEPT ![e] = v] /\ run' = [run EXCEPT ![e[1]] = x]
           /\ \/ pc[e] = "start" /\ v \in {"reject", "admit"} /\ x = run[e[1]]
              \/ v = "done" /\ x.status \notin {"queued", "in_progress"}
              \/ pc[e] = "admit" /\ v = "prepare" /\ x.status # "queued"
              \/ pc[e] = "jobs" /\ v = "done" /\ fatal[e] /\ x = run[e[1]]
              \/ pc[e] \in {"prepare", "jobs"} /\ v = "jobs" /\ x = run[e[1]]
<1>1. e[1] \in Runs /\ "db" \notin Faults /\ "secrets" \notin Faults
  BY DEF Executors
<1>2. run = [run EXCEPT ![e[1]] = run[e[1]]] /\ run[e[1]] \in [status: RunStatus, conclusion: Conclusion]
  BY <1>1 DEF TypeOK
<1>3. CASE CheckLimit(e)
  <2>1. PICK v \in {"reject", "admit"} : pc' = [pc EXCEPT ![e] = v]
    BY <1>3 DEF CheckLimit
  <2>2. QED
    BY <1>2, <1>3, <2>1 DEF CheckLimit
<1>4. CASE RejectRun(e)
  <2>1. \E x : run' = [run EXCEPT ![e[1]] = x] /\ x.status \notin {"queued", "in_progress"}
    BY <1>1, <1>4, MarkSettles DEF RejectRun
  <2>2. QED
    BY <1>4, <2>1 DEF RejectRun
<1>5. CASE AdmitRun(e)
  <2> DEFINE x == [run[e[1]] EXCEPT !.status = IF run[e[1]].conclusion = "cancelled" THEN @ ELSE "in_progress"]
  <2>1. run' = [run EXCEPT ![e[1]] = x]
    BY <1>5 DEF AdmitRun, setStatus
  <2>2. run[e[1]].conclusion = "cancelled" => run[e[1]].status = "completed"
    BY <1>1 DEF StatusAgrees
  <2>3. x.status # "queued"
    BY <1>2, <2>2
  <2> HIDE DEF x
  <2>4. QED
    BY <1>5, <2>1, <2>3 DEF AdmitRun
<1>6. CASE RejectWorkflow(e)
  <2>1. \E x : run' = [run EXCEPT ![e[1]] = x] /\ x.status \notin {"queued", "in_progress"}
    BY <1>1, <1>6, MarkSettles DEF RejectWorkflow
  <2>2. QED
    BY <1>6, <2>1 DEF RejectWorkflow
<1>7. CASE StartJobs(e)
  BY <1>2, <1>7 DEF StartJobs
<1>8. ~AbortPreamble(e)
  BY <1>1 DEF AbortPreamble
<1>9. ASSUME NEW j \in Jobs, JobStep(e, j)
      PROVE  pc[e] = "jobs" /\ pc' = [pc EXCEPT ![e] = "jobs"] /\ run' = run
  <2>1. pc[e] = "jobs" /\ pc' = pc /\ run' = run
    BY <1>9 DEF JobStep, StartJob, FinishJob, SkipJob, SkipJobDone, CreateJobFails, DropJob
  <2>2. QED
    BY <2>1 DEF TypeOK
<1>10. CASE FinishRun(e)
  <2>1. markRun(e[1], "completed", "success") \/ markRun(e[1], "failed", "failure")
    BY <1>10 DEF FinishRun
  <2>2. \E x : run' = [run EXCEPT ![e[1]] = x] /\ x.status \notin {"queued", "in_progress"}
    BY <1>1, <2>1, MarkSettles
  <2>3. QED
    BY <1>10, <2>2 DEF FinishRun
<1>11. CASE FinishFatal(e)
  BY <1>2, <1>11 DEF FinishFatal
<1>12. QED
  BY <1>2, <1>3, <1>4, <1>5, <1>6, <1>7, <1>8, <1>9, <1>10, <1>11 DEF ExecutorStep

\* A fatal error stays.
LEMMA FatalStays ==
  ASSUME TypeOK, [Next]_vars
  PROVE  \A e \in Executors : fatal[e] => fatal'[e]
<1>1. ASSUME NEW e \in Executors, ExecutorStep(e) PROVE \A f \in Executors : fatal[f] => fatal'[f]
  <2>1. fatal' = fatal \/ fatal' = [fatal EXCEPT ![e] = TRUE]
    BY <1>1 DEF ExecutorStep, CheckLimit, RejectRun, AdmitRun, RejectWorkflow, StartJobs, AbortPreamble, JobStep,
                StartJob, FinishJob, SkipJob, SkipJobDone, CreateJobFails, DropJob, FinishRun, FinishFatal
  <2>2. QED
    BY <2>1 DEF TypeOK
<1>2. fatal' = fatal \/ \E e \in Executors : ExecutorStep(e)
  BY DEF Next, vars, NewRequest, CreateRun, RerunReset, CancelCheck, RequestStep, Dispatch, RedispatchFails,
         CancelRunRow, CancelJobRows, CancelFails, Crash
<1>3. QED
  BY <1>1, <1>2

\* Every step hands an active run on to somebody who is going to finish it.
LEMMA OwnerStep ==
  ASSUME Faults \subseteq {"git"}, TypeOK, StatusAgrees, DispatchInv, OwnerInv, [Next]_vars
  PROVE  OwnerInv'
<1>1. /\ run \in [Runs -> [status: RunStatus, conclusion: Conclusion]]
      /\ attempt \in [Runs -> 0..MaxAttempts] /\ pc \in [Executors -> ExecutorPC]
      /\ req \in [Requests -> {Idle} \union RequestState] /\ MaxAttempts \in Nat \ {0}
  BY CIRunsAssumption DEF TypeOK
<1>2. \A r \in Runs : Derailed(r) => Derailed(r)'
  BY FatalStays DEF Derailed, Executors
<1>3. \A r \in Runs : run[r].status = "queued" => <<r, attempt[r]>> \in Executors
  <2>1. ASSUME NEW r \in Runs, run[r].status = "queued" PROVE <<r, attempt[r]>> \in Executors
    <3>1. attempt[r] >= 1 /\ attempt[r] \in 0..MaxAttempts
      BY <1>1, <2>1 DEF OwnerInv, QueuedIsDispatched
    <3>2. attempt[r] \in 1..MaxAttempts
      BY <1>1, <3>1
    <3>3. QED
      BY <3>2 DEF Executors
  <2>2. QED
    BY <2>1
\* What is left of one run that a step does not touch.
<1>4. ASSUME NEW r \in Runs, run'[r] = run[r], attempt'[r] = attempt[r],
             \A e \in Executors : e[1] = r => pc'[e] = pc[e],
             \A p \in Requests : Pending(p) /\ Target(p) = <<r, attempt[r]>> =>
               "git" \in Faults \/ (Pending(p)' /\ Target(p)' = Target(p))
      PROVE  /\ run'[r].status = "queued" =>
                  /\ attempt'[r] >= 1
                  /\ pc'[<<r, attempt'[r]>>] \in {"none", "start", "reject", "admit"}
                  /\ pc'[<<r, attempt'[r]>>] = "none" =>
                       "git" \in Faults \/ \E q \in Requests : Pending(q)' /\ Target(q)' = <<r, attempt'[r]>>
             /\ run'[r].status = "in_progress" =>
                  Derailed(r)' \/ \E n \in 1..MaxAttempts : pc'[<<r, n>>] \in {"prepare", "jobs"}
  <2>1. \A n \in 1..MaxAttempts : pc'[<<r, n>>] = pc[<<r, n>>]
    BY <1>4 DEF Executors
  <2>2. run[r].status = "queued" => pc'[<<r, attempt[r]>>] = pc[<<r, attempt[r]>>]
    BY <1>3, <1>4
  <2>3. run[r].status = "in_progress" =>
          Derailed(r)' \/ \E n \in 1..MaxAttempts : pc'[<<r, n>>] \in {"prepare", "jobs"}
    BY <1>2, <2>1 DEF OwnerInv, InProgressIsExecuted
  <2>4. QED
    BY <1>4, <2>2, <2>3 DEF OwnerInv, QueuedIsDispatched
<1> DEFINE Kept(r) == /\ run'[r].status = "queued" =>
                           /\ attempt'[r] >= 1
                           /\ pc'[<<r, attempt'[r]>>] \in {"none", "start", "reject", "admit"}
                           /\ pc'[<<r, attempt'[r]>>] = "none" =>
                                "git" \in Faults \/ \E q \in Requests : Pending(q)' /\ Target(q)' = <<r, attempt'[r]>>
                      /\ run'[r].status = "in_progress" =>
                           Derailed(r)' \/ \E n \in 1..MaxAttempts : pc'[<<r, n>>] \in {"prepare", "jobs"}
<1>5. ASSUME NEW q \in Requests, NEW s \in Runs, CreateRun(q, s) \/ RerunReset(q, s), NEW r \in Runs
      PROVE  Kept(r)
  <2> DEFINE n == attempt[s] + 1
  <2>1. req[q] = Idle /\ attempt[s] < MaxAttempts /\ attempt' = [attempt EXCEPT ![s] = n] /\ pc' = pc
        /\ req' = [req EXCEPT ![q] = [op |-> "dispatch", run |-> s, n |-> n]]
    <3>1. CASE CreateRun(q, s)
      <4>1. attempt[s] = 0
        BY <3>1 DEF CreateRun, DispatchInv, AttemptsCounted
      <4>2. n = 1 /\ attempt[s] < MaxAttempts
        BY <1>1, <4>1
      <4>3. QED
        BY <3>1, <4>2 DEF CreateRun
    <3>2. CASE RerunReset(q, s)
      BY <3>2 DEF RerunReset
    <3>3. QED
      BY <1>5, <3>1, <3>2
  <2>2. \E c : run' = [run EXCEPT ![s] = Row("queued", c)]
    <3>1. CASE CreateRun(q, s)
      <4>1. [run[s] EXCEPT !.status = "queued"] = Row("queued", run[s].conclusion)
        BY <1>1 DEF Row
      <4>2. run' = [run EXCEPT ![s] = Row("queued", run[s].conclusion)]
        BY <3>1, <4>1 DEF CreateRun
      <4>3. QED
        BY <4>2
    <3>2. CASE RerunReset(q, s)
      BY <3>2 DEF RerunReset, Row
    <3>3. QED
      BY <1>5, <3>1, <3>2
  <2>3. n \in 1..MaxAttempts /\ <<s, n>> \in Executors /\ n > attempt[s]
    BY <1>1, <2>1 DEF Executors
  <2>4. ~Pending(q) /\ Pending(q)' /\ Target(q)' = <<s, n>>
    BY <1>1, <2>1 DEF Pending, Target, Idle
  <2>5. \A p \in Requests : p # q => Pending(p)' = Pending(p) /\ Target(p)' = Target(p)
    BY <1>1, <2>1 DEF Pending, Target
  <2>6. pc'[<<s, n>>] = "none" /\ attempt'[s] = n
    BY <1>1, <2>1, <2>3 DEF DispatchInv, FutureUnused
  <2>7. run'[s].status = "queued"
    BY <1>1, <2>2 DEF Row
  <2> HIDE DEF n
  <2>8. CASE r = s
    BY <2>3, <2>4, <2>6, <2>7, <2>8
  <2>9. CASE r # s
    <3>1. run'[r] = run[r] /\ attempt'[r] = attempt[r] /\ pc' = pc
      BY <1>1, <2>1, <2>2, <2>9
    <3>2. QED
      BY <1>4, <2>4, <2>5, <3>1
  <2>10. QED
    BY <2>8, <2>9
<1>6. ASSUME NEW q \in Requests, NEW s \in Runs, CancelCheck(q, s), NEW r \in Runs PROVE Kept(r)
  <2>1. UNCHANGED <<run, attempt, pc>>
    BY <1>6 DEF CancelCheck
  <2>2. \A p \in Requests : Pending(p) => Pending(p)' /\ Target(p)' = Target(p)
    BY <1>1, <1>6 DEF CancelCheck, Pending, Target
  <2>3. QED
    BY <1>4, <2>1, <2>2
<1>7. ASSUME NEW q \in Requests, RequestStep(q), NEW r \in Runs PROVE Kept(r)
  <2>1. attempt' = attempt /\ ~CancelFails(q)
    BY <1>7 DEF RequestStep, Dispatch, RedispatchFails, CancelRunRow, CancelJobRows, CancelFails
  <2>2. \A p \in Requests : Pending(p) /\ p # q => Pending(p)' /\ Target(p)' = Target(p)
    BY <1>1, <1>7 DEF RequestStep, Dispatch, RedispatchFails, CancelRunRow, CancelJobRows, CancelFails, Pending, Target
  <2>3. CASE Dispatch(q)
    <3>1. Pending(q) /\ pc' = [pc EXCEPT ![Target(q)] = "start"] /\ run' = run /\ pc[Target(q)] = "none"
      BY <2>3 DEF Dispatch, Pending, Target, DispatchInv, PendingFresh
    <3>2. \A n \in 1..MaxAttempts : pc[<<r, n>>] \in {"prepare", "jobs"} => pc'[<<r, n>>] = pc[<<r, n>>]
      BY <1>1, <3>1 DEF Executors
    <3>3. run'[r].status = "in_progress" =>
            Derailed(r)' \/ \E n \in 1..MaxAttempts : pc'[<<r, n>>] \in {"prepare", "jobs"}
      BY <1>2, <3>1, <3>2 DEF OwnerInv, InProgressIsExecuted
    <3>4. CASE Target(q) = <<r, attempt[r]>> /\ run[r].status = "queued"
      <4>1. pc'[<<r, attempt[r]>>] = "start" /\ attempt[r] >= 1
        BY <1>1, <1>3, <3>1, <3>4 DEF OwnerInv, QueuedIsDispatched
      <4>2. QED
        BY <2>1, <3>1, <3>3, <4>1
    <3>5. CASE Target(q) # <<r, attempt[r]>> /\ run[r].status = "queued"
      <4>1. pc'[<<r, attempt[r]>>] = pc[<<r, attempt[r]>>]
        BY <1>1, <1>3, <3>1, <3>5
      <4>2. \A p \in Requests : Pending(p) /\ Target(p) = <<r, attempt[r]>> => Pending(p)' /\ Target(p)' = Target(p)
        BY <2>2, <3>5
      <4>3. QED
        BY <2>1, <3>1, <3>3, <3>5, <4>1, <4>2 DEF OwnerInv, QueuedIsDispatched
    <3>6. QED
      BY <3>1, <3>3, <3>4, <3>5
  <2>4. CASE RedispatchFails(q)
    <3>1. UNCHANGED <<run, pc>> /\ "git" \in Faults
      BY <2>4 DEF RedispatchFails
    <3>2. QED
      BY <1>4, <2>1, <3>1
  <2>5. CASE CancelRunRow(q)
    <3>1. ~Pending(q) /\ pc' = pc /\ run' = [run EXCEPT ![req[q].run] = Row("completed", "cancelled")]
      BY <2>5 DEF CancelRunRow, Pending, Row
    <3>2. CASE r = req[q].run
      <4>1. run'[r].status = "completed"
        BY <1>1, <3>1, <3>2 DEF Row
      <4>2. QED
        BY <4>1
    <3>3. CASE r # req[q].run
      BY <1>1, <1>4, <2>1, <2>2, <3>1, <3>3
    <3>4. QED
      BY <3>2, <3>3
  <2>6. CASE CancelJobRows(q)
    <3>1. UNCHANGED <<run, pc>> /\ ~Pending(q)
      BY <2>6 DEF CancelJobRows, Pending
    <3>2. QED
      BY <1>4, <2>1, <2>2, <3>1
  <2>7. QED
    BY <1>7, <2>1, <2>3, <2>4, <2>5, <2>6 DEF RequestStep
<1>8. ASSUME NEW e \in Executors, ExecutorStep(e), NEW r \in Runs PROVE Kept(r)
  <2>1. PICK v, x :
           /\ pc' = [pc EXCEPT ![e] = v] /\ run' = [run EXCEPT ![e[1]] = x]
           /\ \/ pc[e] = "start" /\ v \in {"reject", "admit"} /\ x = run[e[1]]
              \/ v = "done" /\ x.status \notin {"queued", "in_progress"}
              \/ pc[e] = "admit" /\ v = "prepare" /\ x.status # "queued"
              \/ pc[e] = "jobs" /\ v = "done" /\ fatal[e] /\ x = run[e[1]]
              \/ pc[e] \in {"prepare", "jobs"} /\ v = "jobs" /\ x = run[e[1]]
    BY <1>8, ExecutorHandsOver
  <2>2. UNCHANGED <<req, attempt>>
    BY <1>8, ExecutorMoves
  <2>3. \A p \in Requests : Pending(p)' = Pending(p) /\ Target(p)' = Target(p)
    BY <2>2 DEF Pending, Target
  <2>4. e[1] \in Runs /\ e[2] \in 1..MaxAttempts /\ e = <<e[1], e[2]>>
    BY DEF Executors
  <2>5. pc'[e] = v /\ run'[e[1]] = x /\ \A f \in Executors : f # e => pc'[f] = pc[f]
    BY <1>1, <2>1, <2>4
  <2>6. CASE e[1] # r
    <3>1. run'[r] = run[r] /\ \A f \in Executors : f[1] = r => pc'[f] = pc[f]
      BY <1>1, <2>1, <2>5, <2>6
    <3>2. QED
      BY <1>4, <2>2, <2>3, <3>1
  <2>7. CASE e[1] = r
    <3>1. ASSUME run'[r].status = "queued"
          PROVE  /\ attempt'[r] >= 1
                 /\ pc'[<<r, attempt'[r]>>] \in {"none", "start", "reject", "admit"}
                 /\ pc'[<<r, attempt'[r]>>] = "none" =>
                      "git" \in Faults \/ \E q \in Requests : Pending(q)' /\ Target(q)' = <<r, attempt'[r]>>
      <4>1. x = run[r] /\ ((pc[e] = "start" /\ v \in {"reject", "admit"}) \/ pc[e] \in {"prepare", "jobs"})
        BY <2>1, <2>5, <2>7, <3>1
      <4>2. run[r].status = "queued"
        BY <2>5, <2>7, <3>1, <4>1
      <4>3. /\ attempt[r] >= 1 /\ pc[<<r, attempt[r]>>] \in {"none", "start", "reject", "admit"}
            /\ pc[<<r, attempt[r]>>] = "none" =>
                  "git" \in Faults \/ \E q \in Requests : Pending(q) /\ Target(q) = <<r, attempt[r]>>
            /\ <<r, attempt[r]>> \in Executors
        BY <1>3, <4>2 DEF OwnerInv, QueuedIsDispatched
      <4>4. CASE e = <<r, attempt[r]>>
        BY <2>2, <2>5, <4>1, <4>3, <4>4
      <4>5. CASE e # <<r, attempt[r]>>
        BY <2>2, <2>3, <2>5, <4>3, <4>5
      <4>6. QED
        BY <4>4, <4>5
    <3>2. ASSUME run'[r].status = "in_progress"
          PROVE  Derailed(r)' \/ \E n \in 1..MaxAttempts : pc'[<<r, n>>] \in {"prepare", "jobs"}
      <4>1. x.status = "in_progress"
        BY <2>5, <2>7, <3>2
      <4>2. CASE pc[e] = "start" /\ v \in {"reject", "admit"} /\ x = run[e[1]]
        <5>1. Derailed(r) \/ \E n \in 1..MaxAttempts : pc[<<r, n>>] \in {"prepare", "jobs"}
          BY <2>7, <4>1, <4>2 DEF OwnerInv, InProgressIsExecuted
        <5>2. \A n \in 1..MaxAttempts : pc[<<r, n>>] \in {"prepare", "jobs"} => pc'[<<r, n>>] = pc[<<r, n>>]
          BY <2>5, <4>2 DEF Executors
        <5>3. QED
          BY <1>2, <5>1, <5>2
      <4>3. CASE fatal[e]
        <5>1. Derailed(r)
          BY <2>4, <2>7, <4>3 DEF Derailed
        <5>2. QED
          BY <1>2, <5>1
      <4>4. CASE v \in {"prepare", "jobs"}
        BY <2>4, <2>5, <2>7, <4>4
      <4>5. QED
        BY <2>1, <4>1, <4>2, <4>3, <4>4
    <3>3. QED
      BY <3>1, <3>2
  <2>8. QED
    BY <2>6, <2>7
<1>9. CASE UNCHANGED vars
  <2>1. ASSUME NEW r \in Runs PROVE Kept(r)
    <3>1. UNCHANGED <<run, attempt, pc>> /\ \A p \in Requests : Pending(p)' = Pending(p) /\ Target(p)' = Target(p)
      BY <1>9 DEF vars, Pending, Target
    <3>2. QED
      BY <1>4, <3>1
  <2>2. QED
    BY <2>1 DEF OwnerInv, QueuedIsDispatched, InProgressIsExecuted
<1>10. ~Crash
  BY DEF Crash
<1>11. ASSUME Next PROVE \A r \in Runs : Kept(r)
  BY <1>5, <1>6, <1>7, <1>8, <1>10, <1>11 DEF Next, NewRequest
<1>12. CASE Next
  BY <1>11, <1>12 DEF OwnerInv, QueuedIsDispatched, InProgressIsExecuted
<1>13. QED
  BY <1>9, <1>12

\* However requests, attempts and executors overlap, a run that is queued or in
\* progress has somebody who is going to finish it, or is left for one of the two
\* reasons the property names; a failing database, secret or process is excluded.
THEOREM ActiveRunsAreOwned ==
  ASSUME Faults \subseteq {"git"}
  PROVE  Spec => []ActiveRunHasOwner
<1>1. Init => OwnerInv
  BY DEF Init, OwnerInv, QueuedIsDispatched, InProgressIsExecuted
<1>2. TypeOK /\ StatusAgrees /\ DispatchInv /\ OwnerInv /\ [Next]_vars => OwnerInv'
  BY OwnerStep
<1>3. TypeOK /\ OwnerInv => ActiveRunHasOwner
  <2> SUFFICES ASSUME TypeOK, OwnerInv, NEW r \in Runs, run[r].status \in {"queued", "in_progress"}
               PROVE  \/ \E q \in Requests : req[q] # Idle /\ req[q].op = "dispatch" /\ req[q].run = r
                      \/ \E n \in 1..MaxAttempts : pc[<<r, n>>] \in Live
                      \/ Stranded(r)
                      \/ Derailed(r)
    BY DEF ActiveRunHasOwner
  <2>1. CASE run[r].status = "in_progress"
    BY <2>1 DEF OwnerInv, InProgressIsExecuted, Live
  <2>2. CASE run[r].status = "queued"
    <3>1. /\ attempt[r] >= 1 /\ pc[<<r, attempt[r]>>] \in {"none", "start", "reject", "admit"}
          /\ pc[<<r, attempt[r]>>] = "none" =>
                "git" \in Faults \/ \E q \in Requests : Pending(q) /\ Target(q) = <<r, attempt[r]>>
      BY <2>2 DEF OwnerInv, QueuedIsDispatched
    <3>2. attempt[r] \in 1..MaxAttempts
      BY <3>1, CIRunsAssumption DEF TypeOK
    <3>3. CASE pc[<<r, attempt[r]>>] # "none"
      BY <3>1, <3>2, <3>3 DEF Live
    <3>4. CASE pc[<<r, attempt[r]>>] = "none"
      <4>1. CASE \E q \in Requests : Pending(q) /\ req[q].run = r
        BY <4>1 DEF Pending
      <4>2. CASE ~\E q \in Requests : Pending(q) /\ req[q].run = r
        <5>1. "git" \in Faults
          BY <3>1, <3>4, <4>2 DEF Target
        <5>2. QED
          BY <2>2, <3>4, <4>2, <5>1 DEF Stranded, Pending
      <4>3. QED
        BY <4>1, <4>2
    <3>5. QED
      BY <3>3, <3>4
  <2>3. QED
    BY <2>1, <2>2
<1>4. QED
  BY <1>1, <1>2, <1>3, TypeCorrect, StatusAlwaysAgrees, DispatchesAreFresh, PTL DEF Spec

-----------------------------------------------------------------------------
(* Without re-runs a run is written for the last time when its executor    *)
(* ends, and what a green run says of its jobs is what its executor saw.   *)

OpenUntilDone ==
  \A e \in Executors : pc[e] \in Live \union {"none"} =>
    run[e[1]].status \notin {"completed", "failed"} \/ run[e[1]].conclusion = "cancelled"

CreatedIsCounted ==
  /\ \A r \in Runs : run[r].status # "none" => attempt[r] >= 1
  /\ \A q \in Requests : req[q] # Idle /\ req[q].op = "cancelRun" => attempt[req[q].run] >= 1

CancelledFirst ==
  /\ \A q \in Requests : req[q] # Idle /\ req[q].op = "cancelJobs" => run[req[q].run].conclusion = "cancelled"
  /\ \A e \in Executors, j \in Jobs : row[e][j] = "cancelled" => run[e[1]].conclusion = "cancelled"

FailedFirst == \A e \in Executors, j \in Jobs : row[e][j] = "failure" => task[e][j] = "failure"

OnceInv == OpenUntilDone /\ CreatedIsCounted /\ CancelledFirst /\ FailedFirst

\* An executor writes a result in its last step only.
LEMMA ExecutorEnds ==
  ASSUME TypeOK, NEW e \in Executors, ExecutorStep(e), run'[e[1]] # run[e[1]],
         run'[e[1]].status \in {"completed", "failed"}
  PROVE  pc'[e] = "done"
<1>1. e[1] \in Runs /\ pc \in [Executors -> ExecutorPC]
      /\ run \in [Runs -> [status: RunStatus, conclusion: Conclusion]]
  BY DEF Executors, TypeOK
<1>2. CASE pc' = [pc EXCEPT ![e] = "done"]
  BY <1>1, <1>2
<1>3. CASE AdmitRun(e)
  <2>1. run[e[1]].conclusion # "cancelled"
    <3>1. ASSUME run[e[1]].conclusion = "cancelled" PROVE FALSE
      <4>1. run' = [run EXCEPT ![e[1]].status = run[e[1]].status]
        BY <1>3, <3>1 DEF AdmitRun, setStatus
      <4>2. QED
        BY <1>1, <4>1
    <3>2. QED
      BY <3>1
  <2>2. run' = [run EXCEPT ![e[1]].status = "in_progress"]
    BY <1>3, <2>1 DEF AdmitRun, setStatus
  <2>3. QED
    BY <1>1, <2>2
<1>4. CASE CheckLimit(e) \/ StartJobs(e) \/ \E j \in Jobs : JobStep(e, j)
  <2>1. run' = run
    BY <1>4 DEF CheckLimit, StartJobs, JobStep, StartJob, FinishJob, SkipJob, SkipJobDone, CreateJobFails, DropJob
  <2>2. QED
    BY <2>1
<1>5. QED
  BY <1>2, <1>3, <1>4 DEF ExecutorStep, RejectRun, RejectWorkflow, AbortPreamble, FinishRun, FinishFatal

\* Executors do not cancel rows of jobs, and fail those of failed jobs only.
LEMMA ExecutorRows ==
  ASSUME TypeOK, FailedFirst, NEW e \in Executors, ExecutorStep(e), NEW f \in Executors, NEW k \in Jobs
  PROVE  /\ row'[f][k] = "cancelled" => row[f][k] = "cancelled"
         /\ row'[f][k] = "failure" => task'[f][k] = "failure"
<1>1. row \in [Executors -> [Jobs -> RowStatus]] /\ task \in [Executors -> [Jobs -> TaskState]]
  BY DEF TypeOK
<1>2. CASE row' = row /\ task' = task
  BY <1>2 DEF FailedFirst
<1>3. ASSUME NEW j \in Jobs, JobStep(e, j)
      PROVE  \E s, t : /\ row' = [row EXCEPT ![e][j] = s] /\ task' = [task EXCEPT ![e][j] = t]
                       /\ s = "cancelled" => row[e][j] = "cancelled"
                       /\ s = "failure" => t = "failure"
  <2>0. row = [row EXCEPT ![e][j] = row[e][j]] /\ task[e][j] \in TaskState
    BY <1>1
  <2>1. CASE StartJob(e, j) \/ SkipJob(e, j)
    BY <2>1 DEF StartJob, SkipJob
  <2>2. ASSUME NEW result \in {"success", "failure"}, FinishJob(e, j, result)
        PROVE  \E s, t : /\ row' = [row EXCEPT ![e][j] = s] /\ task' = [task EXCEPT ![e][j] = t]
                         /\ s = "cancelled" => row[e][j] = "cancelled"
                         /\ s = "failure" => t = "failure"
    <3>1. task' = [task EXCEPT ![e][j] = result] /\ row[e][j] # "failure"
      BY <2>2 DEF FinishJob, FailedFirst
    <3>2. CASE row' = row
      BY <2>0, <3>1, <3>2
    <3>3. CASE row' = [row EXCEPT ![e][j] = IF @ = "in_progress" THEN result ELSE @]
      <4>1. row' = [row EXCEPT ![e][j] = IF row[e][j] = "in_progress" THEN result ELSE row[e][j]]
        BY <3>3
      <4>2. QED
        BY <3>1, <4>1
    <3>4. QED
      BY <2>2, <3>2, <3>3 DEF FinishJob
  <2>3. CASE SkipJobDone(e, j)
    <3>1. task' = [task EXCEPT ![e][j] = "skipped"] /\ row[e][j] # "failure"
      BY <2>3 DEF SkipJobDone, FailedFirst
    <3>2. CASE row' = row
      BY <2>0, <3>1, <3>2
    <3>3. CASE row' = [row EXCEPT ![e][j] = "skipped"]
      BY <3>1, <3>3
    <3>4. QED
      BY <2>3, <3>2, <3>3 DEF SkipJobDone
  <2>4. CASE CreateJobFails(e, j) \/ DropJob(e, j)
    <3>1. task' = [task EXCEPT ![e][j] = "dropped"] /\ row' = row /\ row[e][j] # "failure"
      BY <2>4 DEF CreateJobFails, DropJob, FailedFirst
    <3>2. QED
      BY <2>0, <3>1
  <2>5. QED
    BY <1>3, <2>1, <2>2, <2>3, <2>4 DEF JobStep
<1>4. CASE \E j \in Jobs : JobStep(e, j)
  <2>0. PICK j \in Jobs : JobStep(e, j)
    BY <1>4
  <2>1. PICK s, t : /\ row' = [row EXCEPT ![e][j] = s] /\ task' = [task EXCEPT ![e][j] = t]
                    /\ s = "cancelled" => row[e][j] = "cancelled"
                    /\ s = "failure" => t = "failure"
    BY <1>3, <2>0
  <2>2. CASE f = e /\ k = j
    BY <1>1, <2>1, <2>2
  <2>3. CASE ~(f = e /\ k = j)
    <3>1. row'[f][k] = row[f][k] /\ task'[f][k] = task[f][k]
      BY <1>1, <2>1, <2>3
    <3>2. QED
      BY <3>1 DEF FailedFirst
  <2>4. QED
    BY <2>2, <2>3
<1>5. QED
  BY <1>2, <1>4 DEF ExecutorStep, CheckLimit, RejectRun, AdmitRun, RejectWorkflow, StartJobs, AbortPreamble,
                    FinishRun, FinishFatal

\* Without re-runs a row is open for its executor, and red rows keep their reasons.
LEMMA OnceStep ==
  ASSUME MaxAttempts = 1, TypeOK, TypeOK', StatusAgrees, DispatchInv, OnceInv, [Next]_vars
  PROVE  OnceInv'
<1>1. /\ run \in [Runs -> [status: RunStatus, conclusion: Conclusion]]
      /\ attempt \in [Runs -> 0..1] /\ attempt' \in [Runs -> 0..1] /\ pc \in [Executors -> ExecutorPC]
      /\ req \in [Requests -> {Idle} \union RequestState]
      /\ row \in [Executors -> [Jobs -> RowStatus]]
  BY DEF TypeOK
<1>2. \A q \in Requests, r \in Runs : ~RerunReset(q, r)
  BY <1>1 DEF RerunReset, OnceInv, CreatedIsCounted
<1>3. ASSUME NEW r \in Runs, run[r].conclusion = "cancelled" PROVE run'[r] = run[r]
  <2>1. run[r].status = "completed" /\ attempt[r] >= 1
    BY <1>3 DEF StatusAgrees, OnceInv, CreatedIsCounted
  <2>2. run'[r] = run[r] \/ attempt'[r] > attempt[r]
    BY <1>3, CancelStep DEF vars
  <2>3. QED
    BY <1>1, <2>1, <2>2
<1>4. \A e \in Executors : e[1] \in Runs /\ e[2] = 1 /\ e = <<e[1], 1>>
  BY DEF Executors
<1>5. \A q \in Requests : req[q] # Idle => req[q].run \in Runs
  BY <1>1 DEF RequestState
<1>6. ASSUME NEW q \in Requests, NEW r \in Runs, NewRequest(q, r) PROVE OnceInv'
  <2>1. UNCHANGED <<row, pc, task>>
    BY <1>6 DEF NewRequest, CreateRun, RerunReset, CancelCheck
  <2>2. CASE CreateRun(q, r)
    <3>1. run[r].status = "none" /\ run' = [run EXCEPT ![r].status = "queued"] /\ attempt' = [attempt EXCEPT ![r] = 1]
          /\ req' = [req EXCEPT ![q] = [op |-> "dispatch", run |-> r, n |-> 1]]
      BY <2>2 DEF CreateRun
    <3>2. run'[r].status = "queued" /\ run'[r].conclusion = run[r].conclusion /\ attempt'[r] = 1
          /\ \A s \in Runs : s # r => run'[s] = run[s] /\ attempt'[s] = attempt[s]
      BY <1>1, <3>1
    <3>3. \A p \in Requests : req'[p] # Idle /\ req'[p].op \in {"cancelRun", "cancelJobs"} => req'[p] = req[p]
      BY <1>1, <3>1
    <3>4. CreatedIsCounted'
      <4>1. \A s \in Runs : run'[s].status # "none" => attempt'[s] >= 1
        BY <3>2 DEF OnceInv, CreatedIsCounted
      <4>2. \A p \in Requests : req'[p] # Idle /\ req'[p].op = "cancelRun" => attempt'[req'[p].run] >= 1
        BY <1>5, <3>2, <3>3 DEF OnceInv, CreatedIsCounted
      <4>3. QED
        BY <4>1, <4>2 DEF CreatedIsCounted
    <3>5. OpenUntilDone'
      BY <1>4, <2>1, <3>2 DEF OnceInv, OpenUntilDone
    <3>6. CancelledFirst'
      BY <1>4, <1>5, <2>1, <3>2, <3>3 DEF OnceInv, CancelledFirst
    <3>7. FailedFirst'
      BY <2>1 DEF OnceInv, FailedFirst
    <3>8. QED
      BY <3>4, <3>5, <3>6, <3>7 DEF OnceInv
  <2>3. CASE CancelCheck(q, r)
    <3>1. run[r].status # "none" /\ UNCHANGED <<run, attempt>>
          /\ req' = [req EXCEPT ![q] = [op |-> "cancelRun", run |-> r, n |-> 0]]
      BY <2>3 DEF CancelCheck
    <3>2. \A p \in Requests : (p = q /\ req'[p].op = "cancelRun" /\ req'[p].run = r) \/ req'[p] = req[p]
      BY <1>1, <3>1
    <3>3. CreatedIsCounted' /\ CancelledFirst'
      BY <2>1, <3>1, <3>2 DEF OnceInv, CreatedIsCounted, CancelledFirst
    <3>4. QED
      BY <2>1, <3>1, <3>3 DEF OnceInv, OpenUntilDone, FailedFirst
  <2>4. QED
    BY <1>2, <1>6, <2>2, <2>3 DEF NewRequest
<1>7. ASSUME NEW q \in Requests, RequestStep(q) PROVE OnceInv'
  <2>1. UNCHANGED <<task, attempt>>
    BY <1>7 DEF RequestStep, Dispatch, RedispatchFails, CancelRunRow, CancelJobRows, CancelFails
  <2>2. \A p \in Requests : req'[p] # Idle => req'[p] = req[p] \/ (p = q /\ CancelRunRow(q) /\ req'[p].op = "cancelJobs"
                                                                  /\ req'[p].run = req[q].run)
    BY <1>1, <1>7 DEF RequestStep, Dispatch, RedispatchFails, CancelRunRow, CancelJobRows, CancelFails
  <2>3. FailedFirst'
    <3>1. CASE CancelJobRows(q)
      BY <2>1, <3>1 DEF CancelJobRows, OnceInv, FailedFirst
    <3>2. CASE ~CancelJobRows(q)
      BY <1>7, <2>1, <3>2 DEF RequestStep, Dispatch, RedispatchFails, CancelRunRow, CancelFails, OnceInv, FailedFirst
    <3>3. QED
      BY <3>1, <3>2
  <2>4. CASE CancelRunRow(q)
    <3>1. req[q] # Idle /\ req[q].op = "cancelRun" /\ run' = [run EXCEPT ![req[q].run] = Row("completed", "cancelled")]
          /\ UNCHANGED <<row, pc>>
      BY <2>4 DEF CancelRunRow, Row
    <3>2. req[q].run \in Runs /\ attempt[req[q].run] >= 1
      BY <1>5, <3>1 DEF OnceInv, CreatedIsCounted
    <3>3. run'[req[q].run].conclusion = "cancelled" /\ \A s \in Runs : s # req[q].run => run'[s] = run[s]
      BY <1>1, <3>1, <3>2 DEF Row
    <3>4. CreatedIsCounted'
      <4>1. \A s \in Runs : run'[s].status # "none" => attempt'[s] >= 1
        BY <2>1, <3>2, <3>3 DEF OnceInv, CreatedIsCounted
      <4>2. \A p \in Requests : req'[p] # Idle /\ req'[p].op = "cancelRun" => attempt'[req'[p].run] >= 1
        BY <2>1, <2>2 DEF OnceInv, CreatedIsCounted
      <4>3. QED
        BY <4>1, <4>2 DEF CreatedIsCounted
    <3>5. CancelledFirst'
      <4>1. \A p \in Requests : req'[p] # Idle /\ req'[p].op = "cancelJobs" => run'[req'[p].run].conclusion = "cancelled"
        BY <1>3, <1>5, <2>2, <3>3 DEF OnceInv, CancelledFirst
      <4>2. \A e \in Executors, j \in Jobs : row'[e][j] = "cancelled" => run'[e[1]].conclusion = "cancelled"
        BY <1>4, <3>1, <3>3 DEF OnceInv, CancelledFirst
      <4>3. QED
        BY <4>1, <4>2 DEF CancelledFirst
    <3>6. OpenUntilDone'
      BY <1>4, <3>1, <3>3 DEF OnceInv, OpenUntilDone
    <3>7. QED
      BY <2>3, <3>4, <3>5, <3>6 DEF OnceInv
  <2>5. CASE ~CancelRunRow(q)
    <3>1. run' = run /\ \A p \in Requests : req'[p] # Idle => req'[p] = req[p]
      BY <1>7, <2>2, <2>5 DEF RequestStep, Dispatch, RedispatchFails, CancelJobRows, CancelFails
    <3>2. CreatedIsCounted'
      BY <2>1, <3>1 DEF OnceInv, CreatedIsCounted
    <3>3. \A e \in Executors, j \in Jobs : row'[e][j] = "cancelled" => run'[e[1]].conclusion = "cancelled"
      <4>1. CASE CancelJobRows(q)
        <5>1. run[req[q].run].conclusion = "cancelled"
          BY <4>1 DEF CancelJobRows, OnceInv, CancelledFirst
        <5>2. QED
          BY <3>1, <4>1, <5>1 DEF CancelJobRows, OnceInv, CancelledFirst
      <4>2. CASE ~CancelJobRows(q)
        <5>1. row' = row
          BY <1>7, <2>5, <4>2 DEF RequestStep, Dispatch, RedispatchFails, CancelFails
        <5>2. QED
          BY <3>1, <5>1 DEF OnceInv, CancelledFirst
      <4>3. QED
        BY <4>1, <4>2
    <3>4. CancelledFirst'
      BY <3>1, <3>3 DEF OnceInv, CancelledFirst
    <3>5. \A e \in Executors : pc'[e] \in Live \union {"none"} => pc[e] \in Live \union {"none"}
      <4>1. CASE Dispatch(q)
        <5>1. pc' = [pc EXCEPT ![Target(q)] = "start"] /\ pc[Target(q)] = "none"
          BY <4>1 DEF Dispatch, Target, Pending, DispatchInv, PendingFresh
        <5>2. QED
          BY <1>1, <5>1
      <4>2. CASE ~Dispatch(q)
        BY <1>7, <2>5, <4>2 DEF RequestStep, RedispatchFails, CancelJobRows, CancelFails
      <4>3. QED
        BY <4>1, <4>2
    <3>6. OpenUntilDone'
      BY <3>1, <3>5 DEF OnceInv, OpenUntilDone
    <3>7. QED
      BY <2>3, <3>2, <3>4, <3>6 DEF OnceInv
  <2>6. QED
    BY <2>4, <2>5
<1>8. ASSUME NEW e \in Executors, ExecutorStep(e) PROVE OnceInv'
  <2>1. pc[e] \in Live /\ UNCHANGED <<req, attempt>>
    BY <1>8, ExecutorMoves
  <2>2. PICK v \in ExecutorPC \ {"none"} : pc' = [pc EXCEPT ![e] = v]
    BY <1>8, ExecutorMoves
  <2>3. \A s \in Runs : s # e[1] => run'[s] = run[s]
    BY <1>8, ExecutorTouches
  <2>4. attempt[e[1]] >= 1
    <3>1. e[1] \in Runs /\ e[2] = 1 /\ attempt[e[1]] \in 0..1
      BY <1>1, <1>4
    <3>2. ~(e[2] > attempt[e[1]])
      BY <2>1 DEF DispatchInv, FutureUnused, Live
    <3>3. QED
      BY <3>1, <3>2
  <2>5. CreatedIsCounted'
    BY <1>4, <2>1, <2>3, <2>4 DEF OnceInv, CreatedIsCounted
  <2>6. FailedFirst' /\ \A f \in Executors, k \in Jobs : row'[f][k] = "cancelled" => row[f][k] = "cancelled"
    BY <1>8, ExecutorRows DEF OnceInv, FailedFirst
  <2>7. CancelledFirst'
    BY <1>3, <1>4, <1>5, <2>1, <2>6 DEF OnceInv, CancelledFirst
  <2>8. OpenUntilDone'
    <3>1. ASSUME NEW f \in Executors, pc'[f] \in Live \union {"none"}
          PROVE  run'[f[1]].status \notin {"completed", "failed"} \/ run'[f[1]].conclusion = "cancelled"
      <4>1. CASE run'[f[1]] = run[f[1]]
        <5>1. pc[f] \in Live \union {"none"}
          BY <1>1, <2>1, <2>2, <3>1
        <5>2. QED
          BY <4>1, <5>1 DEF OnceInv, OpenUntilDone
      <4>2. CASE run'[f[1]] # run[f[1]]
        <5>1. f = e
          BY <1>4, <2>3, <4>2
        <5>2. QED
          BY <1>8, <3>1, <4>2, <5>1, ExecutorEnds DEF Live
      <4>3. QED
        BY <4>1, <4>2
    <3>2. QED
      BY <3>1 DEF OpenUntilDone
  <2>9. QED
    BY <2>5, <2>6, <2>7, <2>8 DEF OnceInv
<1>9. CASE Crash
  <2>1. UNCHANGED <<run, row, task, attempt>> /\ \A q \in Requests : req'[q] = Idle
    BY <1>9 DEF Crash
  <2>2. \A e \in Executors : pc'[e] \in Live \union {"none"} => pc[e] \in Live \union {"none"}
    BY <1>9 DEF Crash, Live
  <2>3. CreatedIsCounted' /\ CancelledFirst'
    BY <2>1 DEF OnceInv, CreatedIsCounted, CancelledFirst
  <2>4. QED
    BY <2>1, <2>2, <2>3 DEF OnceInv, OpenUntilDone, FailedFirst
<1>10. CASE UNCHANGED vars
  BY <1>10 DEF vars, OnceInv, OpenUntilDone, CreatedIsCounted, CancelledFirst, FailedFirst
<1>11. QED
  BY <1>6, <1>7, <1>8, <1>9, <1>10 DEF Next

\* A step that replaces a final status is a cancellation or a re-run.
LEMMA ResultStep ==
  TypeOK /\ StatusAgrees /\ OnceInv /\ [Next]_vars =>
    [\A r \in Runs :
       /\ run[r].status \in {"completed", "failed"}
       /\ run'[r] # run[r]
       => \/ run'[r] = [status |-> "completed", conclusion |-> "cancelled"]
          \/ attempt'[r] > attempt[r]]_vars
<1> SUFFICES ASSUME TypeOK, OnceInv, Next, NEW r \in Runs,
                    run[r].status \in {"completed", "failed"}, run'[r] # run[r]
             PROVE  run'[r] = Row("completed", "cancelled") \/ attempt'[r] > attempt[r]
  BY DEF Row
<1>1. run \in [Runs -> [status: RunStatus, conclusion: Conclusion]] /\ attempt \in [Runs -> 0..MaxAttempts]
  BY DEF TypeOK
<1>2. ASSUME NEW q \in Requests, NEW s \in Runs, NewRequest(q, s) PROVE attempt'[r] > attempt[r]
  <2>1. ~CreateRun(q, s)
    BY <1>1 DEF CreateRun
  <2>2. RerunReset(q, s)
    BY <1>2, <2>1 DEF NewRequest, CancelCheck
  <2>3. QED
    BY <1>1, <2>2, CIRunsAssumption DEF RerunReset
<1>3. ASSUME NEW q \in Requests, RequestStep(q) PROVE run'[r] = Row("completed", "cancelled")
  <2>1. CancelRunRow(q)
    BY <1>3 DEF RequestStep, Dispatch, RedispatchFails, CancelJobRows, CancelFails
  <2>2. run' = [run EXCEPT ![req[q].run] = Row("completed", "cancelled")]
    BY <2>1 DEF CancelRunRow, Row
  <2>3. QED
    BY <1>1, <2>2
<1>4. ASSUME NEW e \in Executors, ExecutorStep(e) PROVE FALSE
  <2>1. r = e[1]
    BY <1>4, ExecutorTouches
  <2>2. run[r].conclusion # "cancelled"
    BY <1>4, <2>1, ExecutorWrites
  <2>3. pc[e] \in Live
    BY <1>4, ExecutorMoves
  <2>4. QED
    BY <2>1, <2>2, <2>3 DEF OnceInv, OpenUntilDone
<1>5. QED
  BY <1>2, <1>3, <1>4 DEF Next, Crash

\* The strengthening for runs dispatched once is an invariant.
LEMMA OnceInvHolds ==
  ASSUME MaxAttempts = 1
  PROVE  Spec => []OnceInv
<1>1. Init => OnceInv
  BY DEF Init, OnceInv, OpenUntilDone, CreatedIsCounted, CancelledFirst, FailedFirst, Executors
<1>2. TypeOK /\ TypeOK' /\ StatusAgrees /\ DispatchInv /\ OnceInv /\ [Next]_vars => OnceInv'
  BY OnceStep
<1>3. QED
  BY <1>1, <1>2, TypeCorrect, StatusAlwaysAgrees, DispatchesAreFresh, PTL DEF Spec

\* Where no run is dispatched twice, a result is written once: whatever fails,
\* crashes and overlaps, only a cancellation replaces it.
THEOREM ResultStandsWithoutRerun ==
  ASSUME MaxAttempts = 1
  PROVE  Spec => ResultStands
<1>1. QED
  BY ResultStep, OnceInvHolds, TypeCorrect, StatusAlwaysAgrees, PTL DEF Spec, ResultStands

\* Where no run is dispatched twice, the run list and the job list tell the same
\* story: a green run shows no failed and no cancelled job.
THEOREM GreenRunShowsNoRedJob ==
  ASSUME MaxAttempts = 1
  PROVE  Spec => []GreenRunHasNoRedJob
<1>1. OnceInv /\ SuccessEarned => GreenRunHasNoRedJob
  <2> SUFFICES ASSUME OnceInv, SuccessEarned, NEW r \in Runs, run[r].conclusion = "success",
                      NEW n \in 1..MaxAttempts, NEW j \in Jobs
               PROVE  row[<<r, n>>][j] \notin {"failure", "cancelled"}
    BY DEF GreenRunHasNoRedJob
  <2>1. PICK m \in 1..MaxAttempts : \A k \in Jobs : task[<<r, m>>][k] \in Passed
    BY DEF SuccessEarned
  <2>2. m = n /\ <<r, n>> \in Executors /\ <<r, n>>[1] = r
    BY DEF Executors
  <2>3. row[<<r, n>>][j] # "failure"
    BY <2>1, <2>2 DEF OnceInv, FailedFirst, Passed
  <2>4. row[<<r, n>>][j] # "cancelled"
    BY <2>2 DEF OnceInv, CancelledFirst
  <2>5. QED
    BY <2>3, <2>4
<1>2. QED
  BY <1>1, OnceInvHolds, SuccessAlwaysEarned, PTL
=============================================================================
