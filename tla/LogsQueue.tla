----------------------------- MODULE LogsQueue -----------------------------
(***************************************************************************)
(* The vocabulary of the log pipe: what an entry of the process-wide       *)
(* `LogsQueue` is keyed by, when the queue refuses an entry, and what the  *)
(* servicer answers to a request to put one (_common.py, servicer.py).     *)
(* A message is an identity: its text is never looked at after the empty   *)
(* check, and its timestamp only travels with it.                          *)
(***************************************************************************)
EXTENDS Integers, Sequences

CONSTANTS
    Suffixes,     \* every log stream suffix in use: ECU ids and the server's own
    OwnSuffix,    \* SERVER_LOGSTREAM_SUFFIX, the suffix of the server's own log
    AllowedEcus,  \* ids listed by ecu_info.yaml; {} when there is no (valid) file
    MaxBacklog    \* MAX_LOGS_BACKLOG, an unvalidated int: Queue(maxsize=...)

ASSUME SuffixAssumption  == OwnSuffix \in Suffixes /\ AllowedEcus \subseteq Suffixes
ASSUME BacklogAssumption == MaxBacklog \in Int

LogGroupType == {"LOG", "METRICS"}
LogType      == {"LOG", "METRICS"}

\* What the uploader merges entries by: log group and log stream suffix.
Keys   == LogGroupType \X Suffixes
OwnKey == <<"LOG", OwnSuffix>>

\* An entry of the queue; `id` stands for the LogMessage it carries.
Entry == [key : Keys, id : Nat]

\* Mutant: one entry too many.
FullOneLater(q) == MaxBacklog > 0 /\ Len(q) > MaxBacklog

\* queue.Queue: a maxsize of zero or less is a queue without a bound.
Full(q) == MaxBacklog > 0 /\ Len(q) >= MaxBacklog

----------------------------------------------------------------------------
ErrorCode == {"NO_FAILURE", "NO_MESSAGE", "NOT_ALLOWED_ECU_ID", "SERVER_QUEUE_FULL"}

ConvertFromLogType(logType) == IF logType = "METRICS" THEN "METRICS" ELSE "LOG"

\* Mutant: the filter is not applied.
FilteredNever(ecu) == FALSE

\* An empty set of allowed ids is falsy in the code, and so filters nothing.
Filtered(ecu) == AllowedEcus # {} /\ ecu \notin AllowedEcus

\* The answer of _put_log, whose early returns are taken in this order.
PutLogCode(ecu, hasMessage, q) ==
    CASE ~hasMessage                               -> "NO_MESSAGE"
      [] hasMessage /\ Filtered(ecu)               -> "NOT_ALLOWED_ECU_ID"
      [] hasMessage /\ ~Filtered(ecu) /\ Full(q)   -> "SERVER_QUEUE_FULL"
      [] hasMessage /\ ~Filtered(ecu) /\ ~Full(q)  -> "NO_FAILURE"
============================================================================
