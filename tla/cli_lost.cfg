SPECIFICATION Spec
CONSTANTS
  Parts = {"cli"}
  MaxEntries = 3
  Runs = {a, b}
  ReusedRuns = {a}
  Statuses = {"success", "failed"}
  Nothing = Nothing
  MaxSaves = 1
  MaxExecutions = 3
  MaxFailed = 1
  MaxCrashes = 1
  Payments = {"small", "large", "bad"}
  BlockedPayments = {"bad"}
  LargePayments = {"large"}
  Operations = {"op", " op "}
  NoOperation = "none"
  PaddedOperations = {" op "}
  Trimmed = "op"
  RunAsks <- MCRunAsks
  MaxRuns = 3
  Submissions = {s1, s2, s3}
  PaymentKeys = {"key"}
  CallAsks <- MCCallAsks
  Nobody = Nobody
  MaxLosses = 1
  Invocations = {i1, i2, i3}
  CommandLines <- MCCommandLines
  MaxKills = 1
  Ops = {1, 2, 3, 4, 5, 6}
  FailureThreshold = 2
  ResetTimeout = 1
  MaxInFlight = 3
  MaxClock = 4
  Capacity = 2
  Counts = {1, 2, 3}
  MaxTime = 2
  MaxForward = 4
  MaxResets = 1
  CacheKeys = {k1, k2, k3}
  CacheSize = 2
  Lifetimes = {1, 2}
  CacheClock = 3
  MaxLookups = 1
  Drivers = {d1, d2}
  MaxJobs = 2
  SchedulerTime = 1
  Listeners = {listener}
  OnceListeners = {once1, once2}
  Emitters = {e1, e2}
  MaxEmits = 3
  PlanRequests <- MCPlanRequests
  Proposals <- MCProposals
  MaxSteps = 4
  Clients = {"connector", "http provider", "wrapped provider", "json provider", "http tool", "race"}
  MaxTries = 3
  HttpCalls = {c1, c2}
  HttpAsks <- MCHttpAsks
  ToolGuard <- MCToolGuard
  Unguarded = Unguarded
  Depths = {1, 2}
  Levels = {0, 1}
  MaxEnqueued = 3
  MaxRestores = 2
  TaskIds = {1, 2, 3}
  Maps <- MCMaps
  Requests = {q1, q2}
  Reviewers = {v1, v2}
  SavedRecords <- MCSavedRecords
  MaxChanges = 5
  SpanClock = 2
INVARIANTS AppendPreserving
CHECK_DEADLOCK FALSE
