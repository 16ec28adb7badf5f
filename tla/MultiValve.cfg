SPECIFICATION FairSpec
CONSTANTS
  v1 = v1
  v2 = v2
  Valves <- MCValves
  Batching <- MCBatching
  Size = 2
  Window = 2
  MaxEmits = 4
INVARIANTS
  Conservation
  EachInOrder
  RingHoldsTheMissing
PROPERTIES
  AllConsumed
  RingReopens
CHECK_DEADLOCK FALSE
