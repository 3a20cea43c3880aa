\* One task that waits on a queue.
CONSTANTS
  idle = idle
  t1 = t1
  t2 = t2
  NULL = NULL
  Idle = idle
  Task <- OneUser
  MaxPrio = 3
  MaxTick = 2
  PendBound = 1
  DelayTicks = {}
  PrioArgs = {1}
  Managers = {}
  Item = {m1}
  NoItem = NoItem
  MaxLength = 1
  MaxOverflow = 1
  ItemSizes = {0, 1}
  Ops = {"back", "front", "receive", "peek"}
  Waits = {0, 1}
  Waiters = {t1}
SPECIFICATION IpcSpec
INVARIANTS WaiterBlocked
