-------------------------- MODULE MCParallelRegion --------------------------
(* ParallelRegion for TLC: two workers and two items, chunks of two        *)
(* handles, room for two chunks and an odd handle, and nothing left in the *)
(* main interpreter's chunk when the region begins, so that the main       *)
(* interpreter claims, meets the end of the table and collects.            *)
EXTENDS ParallelRegion

CONSTANTS w1, w2

WorkersDef == {w1, w2}
=============================================================================
