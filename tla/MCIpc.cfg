\* Two tasks that share a queue or semaphore of length one.  t1 may wait; t2
\* sends, receives and delays itself without waiting.
\* A traversal of broken links may never end, so the system may stop.
CONSTANTS
  idle = idle
  t1 = t1
  t2 = t2
  NULL = NULL
  Idle = idle
  Task <- TwoUsers
  MaxPrio = 3
  MaxTick = 3
  PendBound = 1
  DelayTicks = {1}
  PrioArgs = {1, 2}
  Managers = {}
  Item = {m1}
  NoItem = NoItem
  MaxLength = 1
  MaxOverflow = 1
  ItemSizes = {0, 1}
  Ops = {"back", "receive"}
  Waits = {0, 2}
  Waiters = {t1}
SPECIFICATION IpcSpec
INVARIANTS NoEarlyTimeOut RoundsBalanced
CHECK_DEADLOCK FALSE
