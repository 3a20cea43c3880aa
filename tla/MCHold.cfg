\* The count of a mutex, with the width that the code gives it.
CONSTANTS
  idle = idle
  t1 = t1
  t2 = t2
  Main = Main
  NULL = NULL
  Idle = idle
  Task <- OneUser
  MaxNesting = 15
  InitialNesting = 10
  MaxNest = 2
  MaxHold = 255
  MaxLocks = 256
SPECIFICATION MutexSpec
INVARIANTS HoldTells
