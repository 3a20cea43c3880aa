\* A counter of four values, and gaps of up to a whole round between checks.
CONSTANTS
  MaxTick = 3
  Waits = {1, 2, 3}
  MaxGap = 4
SPECIFICATION Spec
INVARIANTS BudgetKept WaitInv
PROPERTIES VerdictExact
