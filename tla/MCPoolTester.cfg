CONSTANTS
  t1 = t1
  t2 = t2
  g1 = g1
  g2 = g2
  g3 = g3
  None = None
  Tasks = {t1, t2}
  Runners = {g1, g2, g3}
  InitialFirst = TRUE

SPECIFICATION FairSpec

INVARIANTS
  OneRunnerPerTask

PROPERTIES
  RemovedIsStopped
  RemovedIsCleaned
  LockIsReleased
