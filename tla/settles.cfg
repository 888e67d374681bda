SPECIFICATION BenchSpec
CONSTANTS
  Procs = {p1}
  Calls = {c1, c2}
  Keys = {k1}
  Payloads = {x}
  None = None
  NoEntry = NoEntry
  TTL = 1
  StaleAfter = 1
  MaxClock = 1
  Crashable = {p1}
  Purgers = {p1}
  StoreMayFail = TRUE
  Workers = {w1, w2}
  Tasks = {t}
  Malformed = {}
  Priorities = {0}
  MaxDepth = 1
  MaxAttempts = 2
  RequeueOnFailure = TRUE
  MaxRequeues = 1
  RunLimits = {1, 9}
  HookMayThrow = FALSE
  MaxSubmits = 2
  PlanRequests <- MCPlanRequests
  Proposals <- MCProposals
  MaxSteps = 4
  Clients = {"connector", "http provider", "wrapped provider", "json provider", "http tool", "race"}
  MaxTries = 3
INVARIANTS QueueTypeOK
PROPERTIES EveryCallSettles RunTerminates PlanningEnds CallAnswered
CHECK_DEADLOCK FALSE
