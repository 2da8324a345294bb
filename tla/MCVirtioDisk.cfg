CONSTANTS
  p1 = p1  p2 = p2  p3 = p3  NoProc = NoProc  NoDesc = NoDesc
  Proc <- ThreeProcs
  NUM = 8
SPECIFICATION FairSpec
INVARIANTS DescriptorsOwned NobodyWaitsInVain
PROPERTIES RequestsFinish
