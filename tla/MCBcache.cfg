CONSTANTS
  p1 = p1  p2 = p2  u1 = u1  u2 = u2  b1 = b1  b2 = b2  b3 = b3
  NoProc = NoProc  NoDesc = NoDesc  NoBlock = NoBlock  NoBuf = NoBuf
  Proc <- TwoProcs
  NUM = 8
  Buf <- TwoBufs
  Block <- ThreeBlocks
  Value <- Bits
SPECIFICATION CacheSpec
INVARIANTS OneBuffer CoherentReads
CHECK_DEADLOCK FALSE
SYMMETRY CallersAndBlocks
