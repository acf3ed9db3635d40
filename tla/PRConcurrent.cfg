\* One pull request; a check with a retry, two requests and pushes overlap, and everything may fail.
SPECIFICATION Spec
CONSTANTS
  p1 = p1
  p2 = p2
  main = main
  h1 = h1
  h2 = h2
  c0 = c0
  c1 = c1
  c2 = c2
  PRs = {p1}
  Branches = {main, h1}
  BaseOf <- ToMain
  HeadOf <- OwnHead
  Changes = {c0, c1}
  TargetOf <- OwnTarget
  Conflicts <- NoClash
  Requests = {q1, q2}
  Methods = {"rebase"}
  EditStates = {}
  Required <- OneReview
  NeedsGreen = {main}
  MaxReviews = 1
  MaxTries = 2
  Faults = {"db", "git", "queue", "crash"}
INVARIANTS TypeOK  MergeWasApproved
\* The bounds on changes, reviews and attempts may be used up.
CHECK_DEADLOCK FALSE
SYMMETRY SymRequests
