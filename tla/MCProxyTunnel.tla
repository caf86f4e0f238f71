---------------------------- MODULE MCProxyTunnel ----------------------------
(* Instances of ProxyTunnel for model checking. *)
EXTENDS ProxyTunnel
=============================================================================
