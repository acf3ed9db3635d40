\* One run, executed twice by overlapping requests; a re-run may not be able to read the workflow.
SPECIFICATION FairSpec
CONSTANTS
  r1 = r1
  r2 = r2
  acme = acme
  Runs = {r1}
  Jobs = {build}
  Requests = {q1, q2, q3}
  Orgs <- OneOrg
  OrgOf <- BothInOneOrg
  PlanTier <- FreePlan
  ProLimit = 2
  BadWorkflow = {}
  MaxAttempts = 2
  Faults = {"git"}
INVARIANTS ActiveRunHasOwner
PROPERTIES EveryRunSettles
\* Every run may be finished and every dispatch used: nothing is left to do.
CHECK_DEADLOCK FALSE
