CONSTANTS
  Fragments <- BrokenFragmentsDef
  MaxOps = 7
SPECIFICATION Spec
INVARIANT PromisesKept
