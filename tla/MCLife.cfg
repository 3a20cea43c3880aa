\* Two tasks that delay, create and delete each other, with IDLE's priority or one
\* above an empty level; the counter wraps every four ticks, and two ticks may
\* be pended while the scheduler is suspended.
CONSTANTS
  idle = idle
  t1 = t1
  t2 = t2
  t3 = t3
  NULL = NULL
  Idle = idle
  Task <- TwoUsers
  MaxPrio = 3
  MaxTick = 3
  PendBound = 2
  DelayTicks = {0, 1, 3}
  PrioArgs = {0, 2}
  Managers = {t1, t2}
SPECIFICATION FairSpec
INVARIANTS TypeOK ListsIntact BitmapExact StrictPriority TaskCount SuspensionBalanced Inductive
PROPERTIES NoTickLost DelaysExact SleepersWake
