-------------------------- MODULE MCConfigMonitor --------------------------
(* Small instances of ConfigMonitor for TLC.                               *)
EXTENDS ConfigMonitor
============================================================================
