---------------------------- MODULE UploadDelay -----------------------------
(***************************************************************************)
(* How long the retries of one batch keep the uploader from the next: the  *)
(* sleeps of `retry` (_utils.py), whose parameters aws_iot_logger.py gives  *)
(* for put_log_events and for _create_log_stream.  A retry is a step of     *)
(* LogPipeline that counts putTry or createTry up.  Time is in units of     *)
(* which all parameters are multiples.                                     *)
(***************************************************************************)
EXTENDS LogPipeline

CONSTANTS
    PutFactor, PutMax,        \* backoff_factor and backoff_max of put_log_events (2, 6)
    CreateFactor, CreateMax   \* those of _create_log_stream (2, 32)

ASSUME BackoffAssumption ==
    PutFactor \in Nat /\ PutMax \in Nat /\ CreateFactor \in Nat /\ CreateMax \in Nat

VARIABLE slept  \* history: how long the batch under way has made the uploader sleep

\* Mutant: the sleep is not limited.
SleeptimeUnlimited(factor, max, count) == factor * 2^count

\* min(backoff_factor * 2 ** _retry_count, backoff_max)
Sleeptime(factor, max, count) ==
    IF factor * 2^count \in 0 .. max THEN factor * 2^count ELSE max

DelayInit == Init /\ slept = 0

\* Between two batches nothing is slept for either.
Trying == pc \in {"putting", "creating"}

SleepsBetween ==
    slept' = IF ~Trying' THEN 0
             ELSE slept + (IF putTry' > putTry THEN Sleeptime(PutFactor, PutMax, putTry) ELSE 0)
                        + (IF createTry' > createTry
                           THEN Sleeptime(CreateFactor, CreateMax, createTry) ELSE 0)

DelayNext == Next /\ SleepsBetween

DelaySpec == DelayInit /\ [][DelayNext]_<<vars, slept>>

\* Both loops have gone on as often as they may: 6 * 6 + 7 * 16 * 32 s, about an hour.
SleepLimit == PutMaxRetry * PutMax + (PutMaxRetry + 1) * CreateMaxRetry * CreateMax

\* Whatever the cloud answers, one batch keeps the uploader from the queue, which fills
\* meanwhile, for a bounded time: the inner loop starts anew for each put and its sleeps
\* grow only up to backoff_max.
SleepBounded == PutMaxRetry > 0 /\ CreateMaxRetry > 0 => slept <= SleepLimit
============================================================================
