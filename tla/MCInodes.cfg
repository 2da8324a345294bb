CONSTANTS
  p1 = p1  p2 = p2  NoProc = NoProc
  Proc <- TwoProcs
  First = p1
  NInode = 3
  NFILE = 1
  NOFILE = 2
  Name <- TwoNames
  Requests <- Calls
SPECIFICATION InodeSpec
INVARIANTS TreeConsistent RefCounts  NeverStuck
