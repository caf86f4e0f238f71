------------------------------ MODULE MCKeyFiles ------------------------------
(* The instance of KeyFiles for model checking. *)
EXTENDS KeyFiles, TLC

\* Runs are interchangeable.
Symmetry == Permutations(Run)
=============================================================================
