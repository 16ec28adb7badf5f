SPECIFICATION FairSpec
CONSTANTS
  f1 = f1
  f2 = f2
  a1 = a1
  a2 = a2
  main = main
  sys = sys
  aux = aux
  Frames <- MCFrames
  Awaiters <- MCAwaiters
  Names <- MCNames
  Main = main
  Sys = sys
  Stopping <- MCFirst
  Piggybacked <- MCFirst
  MaxOpens = 3
  Null = null
INVARIANTS
  TypeOK
  NameOwned
  ConnectorsPublished
  AnsweredOnce
PROPERTIES
  ListenersKept
  AwaitKept
CHECK_DEADLOCK FALSE
