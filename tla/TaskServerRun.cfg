\* Two verifications, as many as the month allows, one artifact, one worker goroutine, two faults.
SPECIFICATION FairSpec
CONSTANTS
  Runs = {m1, m2}
  McpRequests = {q1}
  MonthlyLimit = 2
  McpTries = 2
  MaxFaults = 2
  ArtifactIds = {a1}
  BatchSize = 1
  Concurrency = 1
INVARIANTS TypeOK  
PROPERTIES EveryVerificationSettles ExpiredGoes
\* Verifications and artifacts may be used up; the scheduler ticks on.
CHECK_DEADLOCK FALSE
