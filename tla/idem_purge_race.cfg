SPECIFICATION Spec
CONSTANTS
  Procs = {p1}
  Calls = {c1, c2, c3}
  Keys = {k1}
  Payloads = {x}
  None = None
  TTL = 1
  StaleAfter = 1
  MaxClock = 2
  Crashable = {}
  Purgers = {p1}
  StoreMayFail = FALSE
INVARIANTS RetentionWindow
CHECK_DEADLOCK FALSE
