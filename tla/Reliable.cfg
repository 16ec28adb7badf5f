SPECIFICATION FairSpec
CONSTANTS
  Policies <- MCPolicies
  Window = 3
  HalfInt = 8
  MaxSends = 6
INVARIANTS
  TypeOK
  WithinWindow
PROPERTIES
  RefinesFifo
  AllDelivered
  ClosePropagates
CHECK_DEADLOCK FALSE
