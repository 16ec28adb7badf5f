SPECIFICATION StreamSpec
CONSTANTS
  Observers = {a, b, c, d}
  BufferSize = 4
  Upper = 8
  Lower = 5
  Thresholds <- MCThresholds
  Uses = {"both"}
  MaxEvents = 2
  MaxDepth = 1
  NoRef = null
INVARIANT Propagated
CHECK_DEADLOCK FALSE
