SPECIFICATION Spec
CONSTANTS
  Workers = {w1, w2}
  Owners = {o1, o2}
  Creators = {o1}
  Marks = {m1, m2}
  MaxPages = 2
  MaxSources = 2
  MaxFiles = 3
  Keys = {k1, k2, k3}
  None = None
  Ops = {"create", "upload", "delete", "merge", "get"}
  Faults = {"abort", "storage"}
SYMMETRY Symmetry
INVARIANTS TypeOK NoDanglingKey LockedRowsStay MergedInCallerOrder NoForeignPages GoneOnlyWhenDeleted
PROPERTIES ImplementsCatalog LeaksHaveACause
CHECK_DEADLOCK FALSE
