CONSTANTS
  NoProc = NoProc
  NPROC = 3
  MaxPid = 3
  KillPids <- FirstChild
SPECIFICATION FairSpec
INVARIANTS ParentAlive FreedOffStack
PROPERTIES  LocksReleased OrphansReaped
