--------------------------- MODULE MCLogPipeline ---------------------------
(* Small instances of LogPipeline for TLC.                                 *)
EXTENDS LogPipeline
============================================================================
