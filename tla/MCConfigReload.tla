---------------------------- MODULE MCConfigReload ----------------------------
(* Instances of ConfigReload for model checking. *)
EXTENDS ConfigReload, TLC

\* Reloads are interchangeable, and so are connections.
Symmetry == Permutations(Reload) \cup Permutations(Conn)
=============================================================================
