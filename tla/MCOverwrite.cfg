\* A queue whose senders overwrite: the full queue counts one message too many.
CONSTANTS
  Item = {m1}
  NoItem = NoItem
  MaxLength = 2
  Positions = {0, 2}
SPECIFICATION Spec
INVARIANTS RoomForAll
