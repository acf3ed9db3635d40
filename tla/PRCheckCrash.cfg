\* The server stops between the trial merge and setting the base back.
SPECIFICATION SerialSpec
CONSTANTS
  p1 = p1
  p2 = p2
  main = main
  h1 = h1
  h2 = h2
  c0 = c0
  c1 = c1
  c2 = c2
  PRs = {p1}
  Branches = {main, h1}
  BaseOf <- ToMain
  HeadOf <- OwnHead
  Changes = {c1}
  TargetOf <- OwnTarget
  Conflicts <- NoClash
  Requests = {}
  Methods = {}
  EditStates = {}
  Required <- NoReview
  NeedsGreen = {}
  MaxReviews = 0
  MaxTries = 2
  Faults = {"crash"}
INVARIANTS CheckLeavesBase
\* The bounds on changes, reviews and attempts may be used up.
CHECK_DEADLOCK FALSE
