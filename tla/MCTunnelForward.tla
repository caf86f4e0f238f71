--------------------------- MODULE MCTunnelForward ---------------------------
(* handleTunnelConnection has no parameter to bound: all of it is explored. *)
EXTENDS TunnelForward
=============================================================================
