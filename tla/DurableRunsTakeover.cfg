SPECIFICATION CrashSpec
CONSTANTS
  r1 = r1
  i1 = i1
  p1 = p1
  p2 = p2
  o1 = o1
  o2 = o2
  NoOne = NoOne
  NoItem = NoItem
  NoOutcome = NoOutcome
  Runs = {r1}
  Items = {i1}
  RunOf <- AllOfR1
  Procs = {p1, p2}
  Outcomes = {o1}
  RetryLimit = 2
  MaxCrashes = 1
  MaxDbErrors = 0
  MaxStalls = 0
PROPERTIES
  EveryRunSettles
  AbandonedLeaseReclaimed
CHECK_DEADLOCK FALSE
