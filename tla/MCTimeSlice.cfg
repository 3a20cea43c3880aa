\* Liveness: two tasks that only delay themselves, possibly of equal priority.
CONSTANTS
  idle = idle
  t1 = t1
  t2 = t2
  t3 = t3
  NULL = NULL
  Idle = idle
  Task <- TwoUsers
  MaxPrio = 2
  MaxTick = 2
  PendBound = 1
  DelayTicks = {0, 1, 2}
  PrioArgs = {0, 1}
  Managers = {}
SPECIFICATION FairSpec
PROPERTIES TimeSlices
