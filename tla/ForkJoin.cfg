SPECIFICATION FairSpec
CONSTANTS
  w1 = w1
  w2 = w2
  f1 = f1
  f2 = f2
  x1 = x1
  Frames <- MCFrames
  Workers <- MCWorkers
  Outsiders <- MCOutsiders
  Reanimator = reanimator
  Loops = 1
  Null = null
INVARIANTS
  TypeOK
  ScheduledOnce
  FlushedWhenIdle
PROPERTIES
  ExecutedUnlessBusy
