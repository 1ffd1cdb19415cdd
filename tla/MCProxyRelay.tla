---------------------------- MODULE MCProxyRelay ----------------------------
(* TLC instance of ProxyRelay. *)
EXTENDS ProxyRelay
=============================================================================
