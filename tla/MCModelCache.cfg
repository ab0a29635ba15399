SPECIFICATION FairSpec
CONSTANTS
  p1 = p1
  p2 = p2
  Proc <- MCProc
  NoProc = NoProc
  Assets = 2
  MaxRuns = 2
  MaxPowerLosses = 1
INVARIANTS
  ReturnedIsComplete
  FetchedOnce
PROPERTIES
  GoodStays
  EveryCallEnds
