CONSTANTS
  t1 = t1
  t2 = t2
  t3 = t3
  Threads <- ThreadsDef
  Caller = t1
  NItems = 3
  ItemsPerClaim = 1
  IntMax = 15
SPECIFICATION FoldSpec
INVARIANT ResultInItemOrder
