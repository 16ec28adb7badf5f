SPECIFICATION FairSpec
CONSTANTS
  f1 = f1
  f2 = f2
  a1 = a1
  a2 = a2
  main = main
  sys = sys
  aux = aux
  Frames <- MCFrames
  Awaiters <- MCOneAwaiter
  Names <- MCTwoNames
  Main = main
  Sys = sys
  Stopping <- MCFrames
  Piggybacked <- MCNone
  MaxOpens = 2
  Null = null
PROPERTIES
  AwaitAnswered
CHECK_DEADLOCK FALSE
