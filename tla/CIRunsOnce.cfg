\* Two runs of one free organization, one with a broken workflow, dispatched once each, all faults.
SPECIFICATION Spec
CONSTANTS
  r1 = r1
  r2 = r2
  acme = acme
  Runs = {r1, r2}
  Jobs = {build, test}
  Requests = {q1, q2}
  Orgs <- OneOrg
  OrgOf <- BothInOneOrg
  PlanTier <- FreePlan
  ProLimit = 2
  BadWorkflow = {r2}
  MaxAttempts = 1
  Faults = {"db", "secrets", "git", "crash"}
SYMMETRY SymAll
INVARIANTS TypeOK StatusAgrees SuccessEarned GreenRunHasNoRedJob
PROPERTIES CancelSticks ResultStands CancelledExecutorIsSilent
\* Every run may be finished and cancelled: then nothing is left to do.
CHECK_DEADLOCK FALSE
