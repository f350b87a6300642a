-------------------------- MODULE MCLogProxyServer -------------------------
(* Small instances of LogProxyServer for TLC.                              *)
EXTENDS LogProxyServer
============================================================================
