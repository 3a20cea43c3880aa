\* Two tasks that end themselves, next to one that delays itself.
CONSTANTS
  idle = idle
  t1 = t1
  t2 = t2
  t3 = t3
  NULL = NULL
  Idle = idle
  Task <- ThreeUsers
  MaxPrio = 3
  MaxTick = 2
  PendBound = 1
  DelayTicks = {1}
  PrioArgs = {1, 2}
  Managers = {}
  Quitters = {t1, t2}
  MaxCount = 3
SPECIFICATION TermSpec
INVARIANTS DeletedNeverRuns
