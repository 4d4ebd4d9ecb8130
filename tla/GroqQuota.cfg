SPECIFICATION FairSpec
CONSTANTS
  Callers = {c1, c2}
  Minute = 2
  RequestsPerMinute = 2
  TokensPerMinute = 3
  Sizes = {1, 2}
  Waits = {1, 3}
  Excess = 1
  MaxCalls = 3
  MaxTime = 3
  MaxClock = 24
INVARIANTS
  IInv
  BudgetKept
PROPERTIES
  NoReservationWhileRefused
  EveryRequestEnds
CHECK_DEADLOCK FALSE
