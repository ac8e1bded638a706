CONSTANTS
  Fragments <- FragmentsDef
  MaxOps = 6
SPECIFICATION Spec
INVARIANTS
  IInv
  NeverLost
  LocalsRight
  RaiseReachesPrompt
  ErrorReachesCatch
  CleanupsPaired
