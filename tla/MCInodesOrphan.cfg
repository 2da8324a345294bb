CONSTANTS
  p1 = p1  p2 = p2  NoProc = NoProc
  Proc <- TwoProcs
  First = p1
  NInode = 3
  NFILE = 2
  NOFILE = 1
  Name <- TwoNames
  Requests <- FileCalls
SPECIFICATION InodeSpec
INVARIANT UnlinkedFreed
