SPECIFICATION Spec
CONSTANTS
  Workers = {w1, w2}
  Users = {u1}
  Digests = {d1, d2, d3}
  None = None
  Idle = 2
  Absolute = 3
  MaxTime = 4
  Ops = {"login", "introspect", "logout"}
  Faults = {"abort", "restart"}
SYMMETRY Symmetry
INVARIANTS TypeOK RevokedStaysRevoked PreviousStillCurrent KeysExpire
PROPERTIES NoSessionIsRevived ImplementsTokenLife
CHECK_DEADLOCK FALSE
