--------------------------- MODULE MCProxyServer ---------------------------
(* ProxyServer for TLC: three descriptors, every constant from the cfg. *)
EXTENDS ProxyServer
=============================================================================
