\* Two tasks that share a queue of two slots, or a semaphore: the invariants that
\* Ipc_proofs uses, and the order of the messages.
CONSTANTS
  idle = idle
  t1 = t1
  t2 = t2
  NULL = NULL
  Idle = idle
  Task <- TwoUsers
  MaxPrio = 3
  MaxTick = 3
  PendBound = 1
  DelayTicks = {}
  PrioArgs = {1, 2}
  Managers = {}
  Item = {m1, m2}
  NoItem = NoItem
  MaxLength = 2
  MaxOverflow = 1
  ItemSizes = {0, 1}
  Ops = {"back", "receive"}
  Waits = {0, 2}
  Waiters = {t1}
SPECIFICATION IpcSpec
INVARIANTS CallInv RoundsInv SwitchInv QueueInv
PROPERTY SharedInOrder
CHECK_DEADLOCK FALSE
