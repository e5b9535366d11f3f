--------------------------- MODULE MCCaptureQueue ---------------------------
(***************************************************************************)
(* Instances of CaptureQueue: where the workers run.                       *)
(***************************************************************************)
EXTENDS CaptureQueue

CONSTANTS w1, w2, w3, h1, h2, i1, i2, r1, r2

OneHost  == [w \in Workers |-> h1]
TwoHosts == [w \in Workers |-> IF w = w2 THEN h2 ELSE h1]
=============================================================================
