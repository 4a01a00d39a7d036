SPECIFICATION FairSpec
CONSTANTS
  Workers = {w1, w2}
  Owners = {o1}
  Creators = {o1}
  Marks = {m1}
  MaxPages = 2
  MaxSources = 2
  MaxFiles = 4
  Keys = {k1, k2}
  None = None
  Ops = {"create", "upload", "merge"}
  Faults = {"abort"}
PROPERTIES EveryRequestAnswered
INVARIANTS NoDeadlock
CHECK_DEADLOCK FALSE
