------------------------ MODULE MCConnectionLifecycle ------------------------
(* Instances of ConnectionLifecycle for model checking. *)
EXTENDS ConnectionLifecycle
=============================================================================
