SPECIFICATION Spec
CONSTANTS
  v1 = v1
  v2 = v2
  Valves <- MCValves
  Batching <- MCBatching
  Size = 2
  Window = 2
  MaxEmits = 2
INVARIANT SlowestIsAttached
CHECK_DEADLOCK FALSE
