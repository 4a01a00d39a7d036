SPECIFICATION FairSpec
CONSTANTS
  Workers = {w1, w2}
  Users = {u1}
  Passwords = {p1, p2}
  Digests = {d1, d2}
  None = None
  Idle = 2
  Absolute = 3
  MaxTime = 3
  Faults = {"abort"}
INVARIANTS TypeOK JudgedRowStays RevokedIsOver OneRegistrationWins NoDeadlock
PROPERTIES EveryRequestAnswered ImplementsSessions
CHECK_DEADLOCK FALSE
