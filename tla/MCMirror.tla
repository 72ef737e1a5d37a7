------------------------------ MODULE MCMirror ------------------------------
(* Instances of MirrorSupervisor for TLC.                                   *)
EXTENDS MirrorSupervisor

CONSTANTS j1, j2, d1, d2   \* model values: jobs and destinations

(* Both jobs name one destination, so the second can only be registered    *)
(* once the first is gone; or each has its own.                            *)
SharedDest == [j \in Jobs |-> d1]
OwnDest == [j \in Jobs |-> IF j = j1 THEN d1 ELSE d2]
=============================================================================
