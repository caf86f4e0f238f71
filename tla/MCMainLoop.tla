----------------------------- MODULE MCMainLoop -----------------------------
(* RunMainLoop has no parameter to bound: its runs explore all of it. *)
EXTENDS MainLoop
=============================================================================
