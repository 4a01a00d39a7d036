SPECIFICATION FairSpec
CONSTANTS
  Workers = {f1, f2}
  Keys = {k1}
  None = None
  MaxFaults = 3
  Rounds = 2
INVARIANTS TypeOK ContentSurvives ServesPrepared NoStartFailsAlone
PROPERTIES ComesUp AbortsForAReason
CHECK_DEADLOCK FALSE
