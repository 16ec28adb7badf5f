SPECIFICATION Spec
CONSTANTS
  UidThreads = {1, 2, 3}
  Slots = {1, 2}
  SlotOf <- MCSlotOf
  Chunk = 3
  MaxUids = 5
  InitialLength = 2
  MaximumLength = 4
  MaxElems = 12
  Keys = {1, 2, 3}
  MaxHeap = 7
  Observers = {a, b, c, d, e}
  BufferSize = 2
  Upper = 3
  Lower = 3
  Thresholds <- MCThresholds
  Uses = {"cancel", "grow"}
  MaxEvents = 2
  MaxDepth = 2
  NoRef = null
INVARIANTS UidsUnique RingIsQueue HeapGivesLeast Propagated
SYMMETRY MCSymmetry
CHECK_DEADLOCK FALSE
