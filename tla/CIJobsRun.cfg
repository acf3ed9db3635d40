\* Three jobs in several graphs, a matrix on one and a false if: on another, two slots,
\* a failing database, users who cancel rows at any time.
SPECIFICATION FairSpec
CONSTANTS
  lint = lint
  build = build
  test = test
  ghost = ghost
  MaxCombos = 4
  Paths = {"ref"}
  Literals = {"1", "main", "false"}
  Jobs = {build, lint, test}
  Files <- SomeFiles
  Parallel = 2
  Faults = {"db"}
INVARIANTS TypeOK NeedsHonored ScheduleIndependent VerdictOfJobs RowsSettled
PROPERTIES HandlerReturns ImplementsExecutor
