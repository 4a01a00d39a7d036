SPECIFICATION FairSpec
CONSTANTS
  Workers = {f1}
  Keys = {k1}
  None = None
  MaxFaults = 1
  Rounds = 2
PROPERTIES ReadyIsHonest
CHECK_DEADLOCK FALSE
