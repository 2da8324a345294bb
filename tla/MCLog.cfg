CONSTANTS
  p1 = p1  p2 = p2  b1 = b1  b2 = b2  b3 = b3
  Block <- ThreeBlocks
  Value <- Bits
  Client <- TwoClients
  MAXOPBLOCKS = 2
  LOGSIZE = 4
  LogBlocks = 4
  OpBlocks = 2
  MaxCrashes = 2
SPECIFICATION Spec
INVARIANTS CacheAheadByLog ReservationKept SleepersWillWake
PROPERTIES ImplementsAtomicDisk
SYMMETRY Symmetry
CHECK_DEADLOCK FALSE
