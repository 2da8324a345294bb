CONSTANTS
  c1 = c1  NoProc = NoProc
  NPROC = 2
  CPU <- OneHart
  PsPriorities <- PsOne
  CfsPriorities <- OnlyHigh
  Policies <- AllPolicies
  MaxAcc = 1
  MaxSwitches = 2
SPECIFICATION FairSpec
PROPERTIES PsPicksMinimum  IdleMachineFindsWork
