------------------------------ MODULE MCEventBus ------------------------------
(* The instance of EventBus for model checking: two handlers share a key. *)
EXTENDS EventBus

CONSTANTS s1, s2, s3, k1, k2

SharedKeys == [s \in Sub |-> IF s = s3 THEN k2 ELSE k1]
=============================================================================
