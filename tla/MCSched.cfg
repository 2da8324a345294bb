CONSTANTS
  c1 = c1  c2 = c2  s1 = s1
  NoProc = NoProc  NoCPU = NoCPU  NoLock = NoLock
  NPROC = 2
  CPU <- Harts
  SleepLock <- OneLock
SPECIFICATION FairSpec
INVARIANTS ExclusiveStack SchedPreconditions NoLostWakeup
PROPERTIES RunnableRuns
