SPECIFICATION Spec
CONSTANTS
  Workers = {w1, w2}
  Users = {u1}
  Digests = {d1, d2}
  None = None
  Idle = 2
  Absolute = 3
  MaxTime = 0
  Ops = {"login", "introspect", "logout"}
  Faults = {}
INVARIANTS SessionHashComplete
CHECK_DEADLOCK FALSE
