SPECIFICATION Spec
CONSTANTS
  Workers = {w1, w2}
  Users = {u1}
  Digests = {d1, d2, d3}
  None = None
  Idle = 2
  Absolute = 3
  MaxTime = 0
  Ops = {"login", "logout"}
  Faults = {}
INVARIANTS OneActiveSession
CHECK_DEADLOCK FALSE
