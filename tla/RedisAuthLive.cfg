SPECIFICATION FairSpec
CONSTANTS
  Workers = {w1, w2}
  Users = {u1}
  Digests = {d1, d2, d3}
  None = None
  Idle = 2
  Absolute = 2
  MaxTime = 2
  Ops = {"login", "introspect"}
  Faults = {"abort", "restart"}
INVARIANTS OneActiveSession
PROPERTIES EveryRequestAnswered
CHECK_DEADLOCK FALSE
