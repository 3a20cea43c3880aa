\* One task creates and deletes two others, and all three delay themselves at one
\* priority: ties on the delay lists, insertions in the middle, several tasks that
\* are due at one tick, and a victim anywhere on a list.
CONSTANTS
  idle = idle
  t1 = t1
  t2 = t2
  t3 = t3
  NULL = NULL
  Idle = idle
  Task <- ThreeUsers
  MaxPrio = 2
  MaxTick = 2
  PendBound = 0
  DelayTicks = {1, 2}
  PrioArgs = {1}
  Managers = {t1}
SPECIFICATION Spec
INVARIANTS UnblockTimeExact DelayListsInPhase
PROPERTIES DelaysExact
SYMMETRY Interchangeable
