CONSTANTS
  w1 = w1
  w2 = w2
  Workers <- WorkersDef
  Caller = w1
  NItems = 2
  ItemsPerClaim = 1
  IntMax = 7
  SlotsPerClaim = 2
  Base = 2
  OldObjects = {0}
  Cap = 7
  Words = {"pmap", "pfilter", "pmap-reduce"}
  Outside = Outside
  MainNext = 2
  MaxAllocs = 2
  MaxMainAllocs = 2
SPECIFICATION FairSpec
INVARIANTS
  IInv
  ReachableExist
  NoLiveHandleOfferedInRegion
  AppliedOnce
PROPERTIES
  FailureLeavesNothing
  WordReturns
