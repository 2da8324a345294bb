CONSTANTS
  p1 = p1  p2 = p2  NoProc = NoProc  NoByte = NoByte
  Proc <- TwoProcs
  First = p1
  PIPESIZE = 2
  UINT = 4
  MaxN = 2
  Victims <- OneVictim
  Byte <- Bits
SPECIFICATION FairSpec
INVARIANTS NoMissedWakeup FreedUnused
PROPERTIES ImplementsByteStream CallsReturn
CHECK_DEADLOCK FALSE
