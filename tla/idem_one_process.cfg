SPECIFICATION Spec
CONSTANTS
  Procs = {p1}
  Calls = {c1, c2, c3}
  Keys = {k1}
  Payloads = {x, y}
  None = None
  TTL = 2
  StaleAfter = 1
  MaxClock = 4
  Crashable = {p1}
  Purgers = {}
  StoreMayFail = TRUE
SYMMETRY Interchangeable
INVARIANTS TypeOK RetentionWindow
PROPERTIES KeepsPromise
CHECK_DEADLOCK FALSE
