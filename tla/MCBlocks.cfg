CONSTANTS
  p1 = p1  p2 = p2  NoProc = NoProc
  Proc <- TwoProcs
  NFiles = 3
  NHost = 1
  HostMax = 3
  FSSIZE = 7
  nmeta = 1
  BSIZE = 2
  NDIRECT = 1
  NINDIRECT = 2
  BPB = 1
  MAXOPBLOCKS = 6
  Counts = {3}
SPECIFICATION Spec
INVARIANTS BlocksOwned ContentKept OpFits
SYMMETRY Callers
