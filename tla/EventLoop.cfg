SPECIFICATION Spec
CONSTANTS
  NumTasks = 3
  Words = {"a", "b"}
  ExitWord = "a"
  YieldCredit = 2
  YieldLimit = 4
  MaxTime = 2
  MaxFd = 3
  MaxNodes = 3
  Scenarios <- MCScenarios

INVARIANTS
    DeadlineOfTheWait
    ReadinessAgrees

PROPERTIES
    TimeoutsAreDue
    WokenTaskRuns

CHECK_DEADLOCK FALSE
