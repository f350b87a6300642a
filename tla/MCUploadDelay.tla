--------------------------- MODULE MCUploadDelay ----------------------------
(* Small instances of LogPipeline with the sleeps of its retries, for TLC. *)
EXTENDS UploadDelay
============================================================================
