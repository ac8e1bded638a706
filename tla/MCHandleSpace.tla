--------------------------- MODULE MCHandleSpace ---------------------------
(* HandleSpace for TLC: three workers, chunks of two handles, and room for *)
(* two whole chunks and an odd handle, so that claims fail and race.       *)
EXTENDS HandleSpace, TLC

CONSTANTS w1, w2, w3

WorkersDef == {w1, w2, w3}
Symmetry == Permutations(WorkersDef)
=============================================================================
