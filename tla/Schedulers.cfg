SPECIFICATION FairSpec
CONSTANTS
  f1 = f1
  f2 = f2
  None = None
  Frames <- MCFrames
  Assignments <- MCAssignments
  Senders = {s1, s2}
  Budget = 1
  Lagging = TRUE
  MaxSends = 2
INVARIANTS
  TypeOK
  RunsActive
  NoLostWakeup
  ThreadKept
  FlushBounded
PROPERTIES
  EventsHandled
  ThreadsEnd
CHECK_DEADLOCK FALSE
