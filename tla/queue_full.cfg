SPECIFICATION DrainSpec
CONSTANTS
  Workers = {w1}
  Tasks = {t}
  Malformed = {}
  Priorities = {0, 1}
  NoEntry = NoEntry
  MaxDepth = 1
  MaxAttempts = 2
  RequeueOnFailure = TRUE
  MaxRequeues = 1
  RunLimits = {1, 9}
  HookMayThrow = FALSE
  MaxSubmits = 2
INVARIANTS EveryStartCompletes
CHECK_DEADLOCK FALSE
