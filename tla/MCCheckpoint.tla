---------------------------- MODULE MCCheckpoint ----------------------------
(***************************************************************************)
(* Instances of Checkpoint: operation A creates x and changes y, operation *)
(* B changes y again.                                                      *)
(***************************************************************************)
EXTENDS Checkpoint

CONSTANTS A, B, x, y, c0, c1, c2, main

MCPathsOf   == [o \in Operations |-> IF o = A THEN {x, y} ELSE {y}]
MCContentOf == [o \in Operations |-> [f \in Files |-> IF o = A THEN c1 ELSE c2]]
MCBaseTree  == [f \in Files |-> IF f = x THEN Absent ELSE c0]
=============================================================================
