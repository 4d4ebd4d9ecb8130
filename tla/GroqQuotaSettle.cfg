SPECIFICATION Spec
CONSTANTS
  Callers = {c1, c2}
  Minute = 2
  RequestsPerMinute = 2
  TokensPerMinute = 3
  Sizes = {1, 2}
  Waits = {1, 3}
  Excess = 0
  MaxCalls = 3
  MaxTime = 5
  MaxClock = 24
SYMMETRY CallerSymmetry
INVARIANT
  UnusedCapacityReturned
CHECK_DEADLOCK FALSE
