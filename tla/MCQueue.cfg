\* Queues of zero to three slots and two messages, and semaphores.
CONSTANTS
  Item = {m1, m2}
  NoItem = NoItem
  MaxLength = 3
  Positions = {0, 1}
SPECIFICATION Spec
INVARIANTS NeverOverfull PointersInPhase QueueInv
PROPERTIES KeepsOrder
