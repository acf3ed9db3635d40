----------------------------- MODULE TaskServer -----------------------------
(***************************************************************************)
(* The asynq server of the process: verifications and the hourly cleanup   *)
(* of artifacts share its worker goroutines. A cleanup whose full batches  *)
(* cannot be deleted goes on until its timeout, and others wait for it.    *)
(***************************************************************************)
EXTENDS McpVerification, Artifacts

CONSTANT Concurrency  \* worker goroutines

ASSUME TaskServerAssumption == Concurrency \in Nat \ {0}

vars == <<mcpVars, artVars, faults>>

TypeOK == McpTypeOK /\ ArtTypeOK

Init == McpInit /\ ArtInit

Working == Cardinality({r \in Runs : handler[r] # "idle"}) + (IF cleanup = Done THEN 0 ELSE 1)

RunVerificationTask(r) == Working < Concurrency /\ DeliverVerification(r) /\ UNCHANGED artVars
RunCleanupTask == Working < Concurrency /\ DeliverCleanup /\ UNCHANGED <<mcpVars, faults>>

\* An error of the query or of a row, or the process stops.
CleanupFails ==
  /\ faults < MaxFaults
  /\ cleanup # Done
  /\ faults' = faults + 1
  /\ CleanupEnds
  /\ UNCHANGED mcpVars

Next ==
  \/ McpNext /\ UNCHANGED artVars
  \/ ArtNext /\ UNCHANGED <<mcpVars, faults>>
  \/ \E r \in Runs : RunVerificationTask(r)
  \/ RunCleanupTask
  \/ CleanupFails

Spec == Init /\ [][Next]_vars

\* Requests and handlers run to their end, or to their timeout. The list of
\* waiting tasks is first in, first out: whatever waits is delivered in the end.
Fairness ==
  /\ WF_vars(\E q \in McpRequests : McpRequestStep(q) /\ UNCHANGED artVars)
  /\ WF_vars(\E r \in Runs : McpHandlerStep(r) /\ UNCHANGED artVars)
  /\ WF_vars(CleanupStep /\ UNCHANGED <<mcpVars, faults>>)
  /\ WF_vars(CleanupTimesOut /\ UNCHANGED <<mcpVars, faults>>)
  /\ SF_vars(\E r \in Runs : RunVerificationTask(r))
  /\ SF_vars(RunCleanupTask)

FairSpec == Spec /\ Fairness
=============================================================================
