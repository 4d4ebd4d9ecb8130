SPECIFICATION Spec
CONSTANTS
  Runs = {r1, r2}
  NoRun = NoRun
INVARIANTS
  DashboardTypeOK
  StoppedRunStaysStopped
  EndShown
PROPERTIES
  EveryWaitEnds
CHECK_DEADLOCK FALSE
