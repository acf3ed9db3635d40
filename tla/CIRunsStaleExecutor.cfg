\* A run is cancelled and re-run while its first executor still works.
SPECIFICATION Spec
CONSTANTS
  r1 = r1
  r2 = r2
  acme = acme
  Runs = {r1}
  Jobs = {build}
  Requests = {q1, q2}
  Orgs <- OneOrg
  OrgOf <- BothInOneOrg
  PlanTier <- FreePlan
  ProLimit = 2
  BadWorkflow = {}
  MaxAttempts = 2
  Faults = {}


PROPERTIES CancelledExecutorIsSilent
\* Every run may be finished and every dispatch used: nothing is left to do.
CHECK_DEADLOCK FALSE
