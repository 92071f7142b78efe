CONSTANTS
  MaxSockets = 3
  MaxBytes = 2
  MaxBacklog = 2
  Scenarios <- MCScenarios
  Queries = {q1, q2}
  Configs = {c1, c2}
  MaxTtl = 2
  MaxTime = 3
SPECIFICATION MCSpec

INVARIANTS
    HandlesAreTracked
    StreamIntact
    AnswersAreFresh

PROPERTIES
    OutcomesAreReported
    ConnectResolves

CHECK_DEADLOCK FALSE
