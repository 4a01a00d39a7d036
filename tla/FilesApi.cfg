SPECIFICATION Spec
CONSTANTS
  Limit = 2
  MaxBody = 4
  MaxSources = 3
  Messages <- SomeMessages
  True = True
  None = None
INVARIANTS TypeOK SizeDecides FailsClosed MergeNamesItsSources AuditTellsTheAnswer
CHECK_DEADLOCK FALSE
