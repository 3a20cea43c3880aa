\* The invariant of Port_proofs, with a count that wraps.
CONSTANTS
  idle = idle
  t1 = t1
  t2 = t2
  Main = Main
  NULL = NULL
  Idle = idle
  Task <- TwoUsers
  MaxNesting = 15
  InitialNesting = 10
  MaxNest = 4
  MaxHold = 2
  MaxLocks = 4
SPECIFICATION MutexSpec
INVARIANTS MutexInv
PROPERTIES LockerStays
