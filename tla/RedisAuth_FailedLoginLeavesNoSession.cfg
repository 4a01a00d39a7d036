SPECIFICATION Spec
CONSTANTS
  Workers = {w1, w2}
  Users = {u1}
  Digests = {d1, d2}
  None = None
  Idle = 2
  Absolute = 3
  MaxTime = 2
  Ops = {"login"}
  Faults = {"abort"}
INVARIANTS FailedLoginLeavesNoSession
CHECK_DEADLOCK FALSE
