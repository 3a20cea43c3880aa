\* A heap of 20 bytes, headers of 2 bytes, sizes of 6 bits.
CONSTANTS
  t1 = t1
  t2 = t2
  Task <- TwoTasks
  Align = 2
  NodeSize = 2
  HeapBytes = 23
  AllocatedBit = 32
  Requests = {0, 2, 3, 5, 9, 31, 63}
SPECIFICATION Spec
INVARIANTS BlocksTile FreeListExact Coalesced BytesExact Aligned HeapInv
PROPERTIES Allocates
