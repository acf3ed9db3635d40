\* A job that needs another, two workers, one runner, one fault, one request from outside.
SPECIFICATION Spec
CONSTANTS
  build = build
  deploy = deploy
  big = big
  Jobs = {build, deploy}
  Needs <- Chain
  ActJobs = {build}
  Runners = {big}
  Serves <- AllServeDeploy
  Workers = {w1, w2}
  MaxTries = 2
  Requests <- SomeRequests
  MaxRequests = 1
  MaxFaults = 1
SYMMETRY Sym
INVARIANTS TypeOK JobsStartRight GreenRunEarned VerdictAtRest
\* Every task may be done.
CHECK_DEADLOCK FALSE
