CONSTANTS
  t1 = t1
  t2 = t2
  t3 = t3
  Threads <- ThreadsDef
  Caller = t1
  NItems = 5
  ItemsPerClaim = 2
  IntMax = 15
SPECIFICATION FoldFairSpec
INVARIANTS
  IInv
  ClaimsInDomain
  ClaimsDisjoint
  JoinedMeansAllClaimed
  ResultHasEveryItem
  SlotsInOrder
PROPERTY EventuallyJoined
