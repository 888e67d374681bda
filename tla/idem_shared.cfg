SPECIFICATION Spec
CONSTANTS
  Procs = {p1, p2}
  Calls = {c1, c2, c3}
  Keys = {k1}
  Payloads = {x, y}
  None = None
  TTL = 1
  StaleAfter = 1
  MaxClock = 1
  Crashable = {p1}
  Purgers = {p2}
  StoreMayFail = TRUE
SYMMETRY Interchangeable
INVARIANTS OneLeader FaithfulReplay
PROPERTIES RefusalJustified
CHECK_DEADLOCK FALSE
