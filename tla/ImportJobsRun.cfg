\* Two pages of issues and one of pull requests, two workers, a retry by asynq and by the user, two faults.
SPECIFICATION FairSpec
CONSTANTS
  Pages <- TwoAndOne
  Payloads = {"full", "bare"}
  Requests = {q1}
  MaxRequests = 2
  Workers = {w1, w2}
  MaxTries = 2
  MaxFaults = 2
INVARIANTS TypeOK CompletedIsWhole CommentsOnce
PROPERTIES EveryImportSettles
\* The import may be over.
CHECK_DEADLOCK FALSE
