SPECIFICATION FairSpec
CONSTANTS
  w1 = w1
  w2 = w2
  s1 = s1
  s2 = s2
  main = main
  sys = sys
  aux = aux
  m1 = m1
  m2 = m2
  Workers <- MCWorkers
  Senders <- MCOneSender
  Spawner = spawner
  Conns <- MCTwoConns
  Main = main
  Sys = sys
  Daemon <- MCSysDaemon
  Shortcut = {}
  Msgs <- MCTwoMsgs
  Budget = 2
  MaxQueue = 2
  Null = null
PROPERTIES
  RefinesContract
  NoStarvation
  FailureTerminates
