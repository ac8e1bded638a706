SPECIFICATION Spec
CONSTANTS
  Words <- Leaky
  MaxHandle = 18
  MaxRounds = 2
  FullAt = {TRUE}
INVARIANT LiveOperands
