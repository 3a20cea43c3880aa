\* A task that delays itself after it has locked and unlocked a mutex.
CONSTANTS
  idle = idle
  t1 = t1
  t2 = t2
  Main = Main
  NULL = NULL
  Idle = idle
  Task <- OneUser
  MaxNesting = 15
  InitialNesting = 10
  MaxNest = 3
  MaxHold = 3
  MaxLocks = 2
SPECIFICATION MutexSpec
INVARIANTS UnlockedSleeps
