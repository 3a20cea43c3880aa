\* What the calls return, against what the comments say.
CONSTANTS
  Item = {m1}
  NoItem = NoItem
  MaxLength = 2
  Positions = {0, 1}
SPECIFICATION Spec
INVARIANTS ResultTells
