\* A task of IDLE's priority ends itself.
CONSTANTS
  idle = idle
  t1 = t1
  t2 = t2
  t3 = t3
  NULL = NULL
  Idle = idle
  Task <- TwoUsers
  MaxPrio = 3
  MaxTick = 2
  PendBound = 1
  DelayTicks = {1}
  PrioArgs = {0, 1}
  Managers = {}
  Quitters = {t1}
  MaxCount = 3
SPECIFICATION TermSpec
INVARIANTS SwitchFindsTask
