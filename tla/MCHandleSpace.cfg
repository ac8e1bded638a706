CONSTANTS
  w1 = w1
  w2 = w2
  w3 = w3
  Workers <- WorkersDef
  SlotsPerClaim = 2
  Base = 1
  OldObjects = {0}
  Cap = 8
SPECIFICATION Spec
SYMMETRY Symmetry
INVARIANTS
  IInv
  ChunksDisjoint
  NoDanglingRoot
  NoRootOffered
  CounterSettled
PROPERTY PoolSpec
