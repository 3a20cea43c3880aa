\* Two tasks that may end themselves, with any priorities, IDLE's too.
\* Explored up to the second task that ends, or one of priority 0.
CONSTANTS
  idle = idle
  t1 = t1
  t2 = t2
  t3 = t3
  NULL = NULL
  Idle = idle
  Task <- TwoUsers
  MaxPrio = 3
  MaxTick = 2
  PendBound = 1
  DelayTicks = {1, 2}
  PrioArgs = {0, 1, 2}
  Managers = {}
  Quitters = {t1, t2}
  MaxCount = 3
SPECIFICATION TermSpec
INVARIANTS FirstNeverRuns FirstHarmless EndInductive
CONSTRAINT OneEnded
