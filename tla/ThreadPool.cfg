SPECIFICATION FairSpec
CONSTANTS
  Workers = {w1, w2}
  Main = main
  Tasks = {t1, t2}
  MaxRequest = 1
  MaxInterrupts = 2
  NoTask = NoTask
  NoOne = NoOne
INVARIANTS
  TypeOK
  MutualExclusion
  NoLostWakeup
PROPERTIES
  ImplementsTaskQueue
  AcceptedIsServed
