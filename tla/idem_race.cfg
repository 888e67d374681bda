SPECIFICATION Spec
CONSTANTS
  Procs = {p1, p2}
  Calls = {c1, c2}
  Keys = {k1}
  Payloads = {x}
  None = None
  TTL = 2
  StaleAfter = 2
  MaxClock = 1
  Crashable = {}
  Purgers = {}
  StoreMayFail = FALSE
INVARIANTS RetentionWindow
CHECK_DEADLOCK FALSE
