SPECIFICATION DrainSpec
CONSTANTS
  Workers = {w1, w2}
  Tasks = {t, bad}
  Malformed = {bad}
  Priorities = {0}
  NoEntry = NoEntry
  MaxDepth = 2
  MaxAttempts = 2
  RequeueOnFailure = TRUE
  MaxRequeues = 1
  RunLimits = {2}
  HookMayThrow = TRUE
  MaxSubmits = 3
SYMMETRY Interchangeable
INVARIANTS Accounted StartsComplete RunsBounded RequeueTold
PROPERTIES LostOnlyWhenFull
CHECK_DEADLOCK FALSE
