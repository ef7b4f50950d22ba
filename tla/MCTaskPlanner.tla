--------------------------- MODULE MCTaskPlanner ---------------------------
(* Instances of TaskPlanner for TLC.                                        *)
EXTENDS TaskPlanner

CONSTANTS r1, r2

MCRun == {r1, r2}
=============================================================================
