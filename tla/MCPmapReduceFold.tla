-------------------------- MODULE MCPmapReduceFold --------------------------
(* PmapReduceFold for TLC.                                                 *)
EXTENDS PmapReduceFold

CONSTANTS t1, t2, t3

ThreadsDef == {t1, t2, t3}
=============================================================================
