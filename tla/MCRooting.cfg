SPECIFICATION Spec
CONSTANTS
  Words <- Sound
  MaxHandle = 18
  MaxRounds = 2
  FullAt = {TRUE}
INVARIANTS TypeOK LiveOperands NothingUnwrittenMarked RootsBalanced EffectKept
