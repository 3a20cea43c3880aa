\* One task that ends itself, next to one that delays itself.
CONSTANTS
  idle = idle
  t1 = t1
  t2 = t2
  t3 = t3
  NULL = NULL
  Idle = idle
  Task <- TwoUsers
  MaxPrio = 3
  MaxTick = 3
  PendBound = 1
  DelayTicks = {1, 2, 3}
  PrioArgs = {1, 2}
  Managers = {}
  Quitters = {t1}
  MaxCount = 3
SPECIFICATION TermSpec
INVARIANTS UnblockNotLate
