SPECIFICATION Spec
CONSTANTS
  p1 = p1  f1 = f1  w1 = w1  home = home
  None = None
  Unattributed = Unattributed
  Tolerance = 1
  Dates = {1, 2}
  DayLength = 2
  FreeWindow = 2
  ReprobeInterval = 2
  ErrorInterval = 1
  Documents <- MCDocuments
  Beats <- MCBeats
  Pinned = home
  Budget = 1
  RetryAfters = {2}
  PlanLag = 1
  PlanWindow = 2
  Start = 4
  MaxTime = 7
INVARIANTS HoldIsExplained RecentDatesAreTried
CHECK_DEADLOCK FALSE
