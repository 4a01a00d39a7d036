SPECIFICATION FairSpec
CONSTANTS
  Workers = {w1}
  Owners = {o1}
  Creators = {o1}
  Marks = {m1}
  MaxPages = 1
  MaxSources = 2
  MaxFiles = 1
  Keys = {k1}
  None = None
  Ops = {"create", "upload", "delete"}
  Faults = {"storage"}
PROPERTIES CommittedDeleteIsAnswered
CHECK_DEADLOCK FALSE
