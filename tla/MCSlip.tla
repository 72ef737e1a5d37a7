-------------------------------- MODULE MCSlip --------------------------------
(* Instances of SlipPool for TLC.                                          *)
EXTENDS SlipPool, TLC

CONSTANTS p1, p2, g1, g2, f1, f2, v1   \* model values: pids and threads

SymWorkers == Permutations(FuseWorkers)
=============================================================================
