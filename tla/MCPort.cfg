\* Start-up, critical sections and the two handlers, with two tasks.
CONSTANTS
  idle = idle
  t1 = t1
  t2 = t2
  Main = Main
  Idle = idle
  Task <- TwoUsers
  MaxNesting = 15
  InitialNesting = 10
  MaxNest = 2
SPECIFICATION PortFairSpec
INVARIANTS CriticalAlone MaskExact SleeperLeaves PortInductive
PROPERTIES PendingServed
