---------------------------- MODULE LogPipeline ----------------------------
(***************************************************************************)
(* The core of the logging server: clients and the server's own loggers    *)
(* put entries into one bounded queue, and one uploader thread merges them *)
(* per (log group, suffix) and puts each merged batch to a CloudWatch log  *)
(* stream, creating the stream when it does not exist                      *)
(* (servicer.py, _log_setting.py, aws_iot_logger.py, _utils.py).           *)
(*                                                                         *)
(* Every call of the cloud is one step, together with the log record the   *)
(* code writes about its outcome: the call touches only the cloud and the  *)
(* record only the queue, so whatever happens between them commutes with   *)
(* one of the two.  Sleeping (the upload interval and the back-off of      *)
(* `retry`) is the time that may pass before the next step.                *)
(***************************************************************************)
EXTENDS LogsQueue, Functions

CONSTANTS
    MaxLogsPerMerge,   \* MAX_LOGS_PER_MERGE, an unvalidated int
    MaxLogsPerPut,     \* MAX_LOGS_PER_PUT, the limit of one put_log_events call
    PutMaxRetry,       \* max_retry of put_log_events (the default, 6)
    CreateMaxRetry,    \* max_retry of _create_log_stream (16)
    UploadServerLogs,  \* the tee handler is installed
    LoggingLevel,      \* SERVER_LOGGING_LEVEL
    Days,              \* the UTC dates the log streams are named after
    MaxAccepted        \* bound of the model: entries ever accepted by the queue

Severity == [DEBUG |-> 10, INFO |-> 20, WARNING |-> 30, ERROR |-> 40, CRITICAL |-> 50]

ASSUME MergeAssumption  == MaxLogsPerMerge \in Int /\ MaxLogsPerPut \in Nat \ {0}
ASSUME RetryAssumption  == PutMaxRetry \in Int /\ CreateMaxRetry \in Int
ASSUME LevelAssumption  == UploadServerLogs \in BOOLEAN /\ LoggingLevel \in DOMAIN Severity
ASSUME BoundsAssumption == Days # {} /\ MaxAccepted \in Nat

VARIABLES
    queue,        \* the LogsQueue, shared by every thread
    servicer,     \* "dropped": between a Full and the record written about it
    pc,           \* where the uploader thread is
    mergeCount,   \* _merge_count
    messageDict,  \* message_dict: the ids merged for each key and not yet settled
    order,        \* the keys of message_dict still to be put, in insertion order
    stream,       \* <<date, key>>: the log stream of the put under way
    putTry,       \* _retry_count of put_log_events
    createTry,    \* _retry_count of _create_log_stream
    today,        \* the UTC date, read from the system clock
    streams,      \* CloudWatch: the log streams that exist
    stored,       \* CloudWatch: what was ingested for each key, in that order
    accepted,     \* history: the key of each entry the queue ever accepted
    lost,         \* history: ids that left the process without being ingested
    calls         \* history: calls of the cloud made for the batch under way

cloud    == <<streams, stored>>
uploader == <<pc, mergeCount, messageDict, order, stream, putTry, createTry, calls>>
intake   == <<queue, accepted>>
vars     == <<intake, servicer, uploader, today, cloud, lost>>

\* Mutant: the limit of put_log_events is forgotten.
MergeLimitNoMin == MaxLogsPerMerge

\* min(max_logs_per_merge, MAX_LOGS_PER_PUT)
MergeLimit == IF MaxLogsPerMerge <= MaxLogsPerPut THEN MaxLogsPerMerge ELSE MaxLogsPerPut

\* Mutants: one retry too many, and one too few.
MayRetryOnceMore(count, maxRetry) == maxRetry <= 0 \/ count <= maxRetry
MayRetryOnceLess(count, maxRetry) == maxRetry <= 0 \/ count + 1 < maxRetry

\* `retry` goes on after a failure; a max_retry of zero or less is without limit.
MayRetry(count, maxRetry) == maxRetry <= 0 \/ count < maxRetry

\* The key and the messages of the batch the loop over message_dict is at.
Key   == Head(order)
Batch == messageDict[Key]

Streams == Days \X Keys

\* Every put may be followed by a whole series of creations: the most calls of the
\* cloud that one batch can cost (7 * 18 = 126 with the code's numbers).
CallsLimit == (PutMaxRetry + 1) * (CreateMaxRetry + 2)

\* The history counts one call more, and stops there.
CountCall == calls' = IF calls <= CallsLimit THEN calls + 1 ELSE calls

Init ==
    /\ queue = <<>> /\ accepted = <<>>
    /\ servicer = "ready"
    /\ pc = "merging" /\ mergeCount = 0
    /\ messageDict = [k \in Keys |-> <<>>] /\ order = <<>>
    /\ stream \in Streams /\ putTry = 0 /\ createTry = 0 /\ calls = 0
    /\ today \in Days
    /\ streams = {} /\ stored = [k \in Keys |-> <<>>]
    /\ lost = {}

----------------------------------------------------------------------------
(* Intake: whatever is put into the queue.                                 *)

Accept(key) ==
    /\ Len(accepted) < MaxAccepted
    /\ queue' = Append(queue, [key |-> key, id |-> Len(accepted) + 1])
    /\ accepted' = Append(accepted, key)

Teed(level) == UploadServerLogs /\ Severity[level] >= Severity[LoggingLevel]

\* Mutant: the tee handler does not look whether the queue is full.
LogRecordUnchecked(level) == IF Teed(level) THEN Accept(OwnKey) ELSE UNCHANGED intake

\* A record written by a module of the package: the tee handler puts it into the
\* queue, and suppresses the exception of a full one.
LogRecord(level) ==
    IF Teed(level) /\ ~Full(queue) THEN Accept(OwnKey) ELSE UNCHANGED intake

\* _put_log with the answer NO_FAILURE.
PutLog(ecu, logType) ==
    /\ servicer = "ready"
    /\ PutLogCode(ecu, TRUE, queue) = "NO_FAILURE"
    /\ Accept(<<ConvertFromLogType(logType), ecu>>)
    /\ UNCHANGED <<servicer, uploader, today, cloud, lost>>

\* _put_log finds the queue full...
PutLogFull(ecu) ==
    /\ servicer = "ready"
    /\ PutLogCode(ecu, TRUE, queue) = "SERVER_QUEUE_FULL"
    /\ servicer' = "dropped"
    /\ UNCHANGED <<intake, uploader, today, cloud, lost>>

\* ...and writes a record about it, when the uploader may have made room.
LogDropped ==
    /\ servicer = "dropped"
    /\ servicer' = "ready"
    /\ LogRecord("DEBUG")
    /\ UNCHANGED <<uploader, today, cloud, lost>>

\* Any other module of the server writes a record that reaches the queue.
ServerLogs(level) ==
    /\ Teed(level) /\ ~Full(queue)
    /\ Accept(OwnKey)
    /\ UNCHANGED <<servicer, uploader, today, cloud, lost>>

----------------------------------------------------------------------------
(* The uploader thread, merging.                                           *)

\* Mutants: a message replaces the one merged before it; messages are merged by
\* their suffix alone; the key seen last is put first.
MergeGetAs(key, logs, keys) ==
    /\ pc = "merging" /\ mergeCount < MergeLimit /\ queue # <<>>
    /\ messageDict' = [messageDict EXCEPT ![key] = logs]
    /\ order' = IF messageDict[key] = <<>> THEN keys ELSE order
    /\ queue' = Tail(queue)
    /\ mergeCount' = mergeCount + 1
    /\ UNCHANGED <<accepted, servicer, pc, stream, putTry, createTry, calls, today, cloud, lost>>
MergeGetReplaces ==
    LET entry == Head(queue) IN MergeGetAs(entry.key, <<entry.id>>, Append(order, entry.key))
MergeGetBySuffix ==
    LET entry == Head(queue)
        key   == <<"LOG", entry.key[2]>>
    IN  MergeGetAs(key, Append(messageDict[key], entry.id), Append(order, key))
MergeGetNewestFirst ==
    LET entry == Head(queue)
    IN  MergeGetAs(entry.key, Append(messageDict[entry.key], entry.id), <<entry.key>> \o order)

MergeGet ==
    /\ pc = "merging" /\ mergeCount < MergeLimit /\ queue # <<>>
    /\ LET entry == Head(queue) IN
         /\ messageDict' = [messageDict EXCEPT ![entry.key] = Append(@, entry.id)]
         /\ order' = IF messageDict[entry.key] = <<>> THEN Append(order, entry.key) ELSE order
    /\ queue' = Tail(queue)
    /\ mergeCount' = mergeCount + 1
    /\ UNCHANGED <<accepted, servicer, pc, stream, putTry, createTry, calls, today, cloud, lost>>

MergeEnd ==
    /\ pc = "merging" /\ (mergeCount >= MergeLimit \/ queue = <<>>)
    /\ pc' = "uploading"
    /\ UNCHANGED <<intake, servicer, mergeCount, messageDict, order, stream, putTry, createTry,
                   calls, today, cloud, lost>>

\* The next item of message_dict: the stream name is composed here, once.
BeginPut ==
    /\ pc = "uploading" /\ order # <<>>
    /\ stream' = <<today, Key>>
    /\ pc' = "putting" /\ putTry' = 0 /\ calls' = 0
    /\ UNCHANGED <<intake, servicer, mergeCount, messageDict, order, createTry, today, cloud, lost>>

\* Every batch was tried: sleep, then a new merge.
Sleep ==
    /\ pc = "uploading" /\ order = <<>>
    /\ pc' = "merging" /\ mergeCount' = 0
    /\ UNCHANGED <<intake, servicer, messageDict, order, stream, putTry, createTry, calls,
                   today, cloud, lost>>

----------------------------------------------------------------------------
(* The uploader thread, putting: one action for each outcome of a call.    *)

\* Mutant: an exception leaves the loop over message_dict.
NextBatchLeavesLoop ==
    /\ pc' = "uploading"
    /\ messageDict' = [messageDict EXCEPT ![Key] = <<>>]
    /\ order' = <<>>

NextBatch ==
    /\ pc' = "uploading"
    /\ messageDict' = [messageDict EXCEPT ![Key] = <<>>]
    /\ order' = Tail(order)

Ingest == stored' = [stored EXCEPT ![stream[2]] = @ \o Batch]

PutOk ==
    /\ pc = "putting" /\ stream \in streams
    /\ Ingest /\ NextBatch
    /\ CountCall
    /\ UNCHANGED <<intake, servicer, mergeCount, stream, putTry, createTry, today, streams, lost>>

\* The stream is not there, or not visible yet: go and create it.
PutNotFound ==
    /\ pc = "putting"
    /\ LogRecord("DEBUG")
    /\ pc' = "creating" /\ createTry' = 0
    /\ CountCall
    /\ UNCHANGED <<servicer, mergeCount, messageDict, order, stream, putTry, today, cloud, lost>>

\* Mutant: a batch that failed goes back to the end of the queue.
PutFailedRequeues ==
    /\ pc = "putting"
    /\ queue' = queue \o [i \in DOMAIN Batch |-> [key |-> Key, id |-> Batch[i]]]
    /\ NextBatch
    /\ CountCall
    /\ UNCHANGED <<accepted, lost, servicer, mergeCount, stream, putTry, createTry, today, cloud>>

\* Any other exception is logged and ignored: the batch was not ingested...
PutFailed ==
    /\ pc = "putting"
    /\ LogRecord("ERROR")
    /\ NextBatch
    /\ lost' = lost \cup Range(Batch)
    /\ CountCall
    /\ UNCHANGED <<servicer, mergeCount, stream, putTry, createTry, today, cloud>>

\* Mutant: the put is tried again whatever the exception is.
PutReplyLostRetries ==
    /\ pc = "putting" /\ stream \in streams /\ MayRetry(putTry, PutMaxRetry)
    /\ LogRecord("ERROR")
    /\ Ingest
    /\ putTry' = putTry + 1
    /\ CountCall
    /\ UNCHANGED <<pc, messageDict, order, servicer, mergeCount, stream, createTry, today, streams, lost>>

\* ...or it was, and only the reply was lost.
PutReplyLost ==
    /\ pc = "putting" /\ stream \in streams
    /\ LogRecord("ERROR")
    /\ Ingest /\ NextBatch
    /\ CountCall
    /\ UNCHANGED <<servicer, mergeCount, stream, putTry, createTry, today, streams, lost>>

\* Mutant: the retry is not counted.
PutAgainUncounted ==
    /\ MayRetry(putTry, PutMaxRetry)
    /\ pc' = "putting"
    /\ UNCHANGED <<putTry, messageDict, order, lost>>

\* The ResourceNotFound leaves put_log_events: put again, or give the batch up.
PutAgain ==
    /\ MayRetry(putTry, PutMaxRetry)
    /\ pc' = "putting" /\ putTry' = putTry + 1
    /\ UNCHANGED <<messageDict, order, lost>>

GiveUp ==
    /\ ~MayRetry(putTry, PutMaxRetry)
    /\ NextBatch
    /\ lost' = lost \cup Range(Batch)
    /\ UNCHANGED putTry

\* Mutant: put_log_events returns after the creation instead of raising.
PutRaisesSwallowed == NextBatch /\ UNCHANGED <<putTry, lost>>

PutRaises == PutAgain \/ GiveUp

CreateOk ==
    /\ pc = "creating" /\ stream \notin streams
    /\ LogRecord("INFO")
    /\ streams' = streams \cup {stream}
    /\ PutRaises
    /\ CountCall
    /\ UNCHANGED <<servicer, mergeCount, stream, createTry, today, stored>>

CreateExists ==
    /\ pc = "creating" /\ stream \in streams
    /\ LogRecord("DEBUG")
    /\ PutRaises
    /\ CountCall
    /\ UNCHANGED <<servicer, mergeCount, stream, createTry, today, cloud>>

CreateAgain ==
    /\ MayRetry(createTry, CreateMaxRetry)
    /\ createTry' = createTry + 1
    /\ UNCHANGED <<pc, messageDict, order, putTry, lost>>

\* The last failure leaves _create_log_stream, and put_log_events with it.
CreateRaises ==
    /\ ~MayRetry(createTry, CreateMaxRetry)
    /\ PutRaises
    /\ UNCHANGED createTry

\* Any other exception; the stream may have been created all the same.
CreateFailed(created) ==
    /\ pc = "creating" /\ (created => stream \notin streams)
    /\ LogRecord("ERROR")
    /\ streams' = IF created THEN streams \cup {stream} ELSE streams
    /\ (CreateAgain \/ CreateRaises)
    /\ CountCall
    /\ UNCHANGED <<servicer, mergeCount, stream, today, stored>>

----------------------------------------------------------------------------
(* The world.                                                              *)

\* Midnight, or a correction of the system clock.
ClockMoves ==
    /\ today' \in Days \ {today}
    /\ UNCHANGED <<intake, servicer, uploader, cloud, lost>>

\* The process is killed and started again: queue and merged batches are memory.
Restart ==
    /\ lost' = lost \cup {queue[i].id : i \in DOMAIN queue}
                    \cup UNION {Range(messageDict[k]) : k \in Keys}
    /\ queue' = <<>> /\ servicer' = "ready"
    /\ pc' = "merging" /\ mergeCount' = 0
    /\ messageDict' = [k \in Keys |-> <<>>] /\ order' = <<>>
    /\ putTry' = 0 /\ createTry' = 0 /\ calls' = 0
    /\ UNCHANGED <<accepted, stream, today, cloud>>

----------------------------------------------------------------------------
Clients ==
    \/ \E ecu \in Suffixes, logType \in LogType : PutLog(ecu, logType)
    \/ \E ecu \in Suffixes : PutLogFull(ecu)

Loggers == LogDropped \/ \E level \in {"DEBUG", "INFO", "WARNING", "ERROR"} : ServerLogs(level)

Merging == MergeGet \/ MergeEnd \/ BeginPut \/ Sleep

\* What a healthy cloud answers, and what it answers when it is not.
Answers == PutOk \/ (stream \notin streams /\ PutNotFound) \/ CreateOk \/ CreateExists
Faults  ==
    \/ stream \in streams /\ PutNotFound
    \/ PutFailed \/ PutReplyLost
    \/ \E created \in BOOLEAN : CreateFailed(created)

Uploader == Merging \/ Answers \/ Faults

Next == Clients \/ Loggers \/ Uploader \/ ClockMoves \/ Restart

Spec == Init /\ [][Next]_vars

\* The uploader thread is scheduled, and every call of the cloud ends: the
\* library gives up on a connection or a reply by its own timeouts.
FairSpec == Spec /\ WF_vars(Uploader)

\* The same with a cloud that answers and a process that is not killed.
HealthySpec ==
    Init /\ [][Clients \/ Loggers \/ Merging \/ Answers \/ ClockMoves]_vars
         /\ WF_vars(Merging \/ Answers)

----------------------------------------------------------------------------
(* Properties.                                                             *)

\* Type invariant; the queue never holds more than MAX_LOGS_BACKLOG entries,
\* although the servicer, the uploader and the other loggers all put into it.
TypeOK ==
    /\ queue \in Seq(Entry)
    /\ MaxBacklog > 0 => Len(queue) <= MaxBacklog
    /\ servicer \in {"ready", "dropped"}
    /\ pc \in {"merging", "uploading", "putting", "creating"}
    /\ mergeCount \in Nat
    /\ messageDict \in [Keys -> Seq(Nat)]
    /\ order \in Seq(Keys)
    /\ stream \in Streams
    /\ putTry \in Nat /\ createTry \in Nat /\ calls \in Nat
    /\ today \in Days
    /\ streams \subseteq Streams
    /\ stored \in [Keys -> Seq(Nat)]
    /\ accepted \in Seq(Keys)
    /\ lost \subseteq Nat

\* CloudWatch gets the messages of a key in the order the queue accepted them,
\* and no message twice: across merges, put retries, stream creations, midnights
\* and restarts.
StoredInOrder ==
    \A k \in Keys : \A i, j \in DOMAIN stored[k] : i < j => stored[k][i] < stored[k][j]

\* A message is only ever stored under the log group and suffix it was accepted
\* with, although the loop over message_dict serves many keys.
RoutedToOwnStream ==
    \A k \in Keys : \A i \in DOMAIN stored[k] :
        stored[k][i] \in DOMAIN accepted /\ accepted[stored[k][i]] = k

Queued == {queue[i].id : i \in DOMAIN queue}
Merged == UNION {Range(messageDict[k]) : k \in Keys}
Stored == UNION {Range(stored[k]) : k \in Keys}

\* Every message accepted with NO_FAILURE is in exactly one place: still queued,
\* merged, ingested, or lost (given up, failed or killed with the process).
Accounted ==
    /\ Queued \cup Merged \cup Stored \cup lost = 1 .. Len(accepted)
    /\ Queued \cap Merged = {} /\ (Queued \cup Merged) \cap Stored = {}
    /\ (Queued \cup Merged \cup Stored) \cap lost = {}

\* A put carries at least one message and at most what the API takes in a call
\* (the NOTE at aws_iot_logger.py:83), whatever MAX_LOGS_PER_MERGE is set to.
PutWithinLimit == pc \in {"putting", "creating"} => Len(Batch) \in 1 .. MaxLogsPerPut

\* Batches are put in the order of their oldest message, and what is merged is
\* older than what is queued: no key is overtaken by a later one.
OldestFirst ==
    /\ \A i, j \in DOMAIN order :
           i < j => Head(messageDict[order[i]]) < Head(messageDict[order[j]])
    /\ \A k \in Merged, n \in Queued : k < n

\* Only the streams of ECUs listed in ecu_info.yaml, and the server's own, ever
\* hold a message.
KnownEcusOnly ==
    AllowedEcus # {} => \A k \in Keys : stored[k] # <<>> => k = OwnKey \/ k[2] \in AllowedEcus

\* However the cloud fails, a batch costs a bounded number of calls, and so holds
\* up the batches behind it for a bounded time.
CallsBounded == PutMaxRetry > 0 /\ CreateMaxRetry > 0 => calls <= CallsLimit

\* For each key the server is a FIFO channel that may lose: see LossyFifo.
Pending(k) == Range(messageDict[k]) \cup {queue[i].id : i \in {j \in DOMAIN queue : queue[j].key = k}}
Fifo == INSTANCE LossyFifo WITH
            sent      <- Len(accepted),
            pending   <- [k \in Keys |-> Pending(k)],
            delivered <- stored
IsLossyFifo == Fifo!Spec

\* Whoever puts into the queue and whatever is restarted, the uploader finds in it what
\* the contract of the queue says, and no more than that: see Intake.
Contract == INSTANCE Intake WITH put <- 1 .. Len(accepted), Messages <- 1 .. MaxAccepted
KeepsContract == Contract!Spec

\* With a cloud that answers, no message is given up: midnight or a stream that
\* does not exist yet costs a retry, never a batch.
NothingLost == lost = {}

\* Every message accepted is ingested or lost in the end, whatever the cloud does:
\* none stays in the process for ever (FairSpec).
EverySettles ==
    \A n \in 1 .. MaxAccepted : n <= Len(accepted) ~> n \in Stored \cup lost

\* The uploader always comes back to the queue: no batch holds it for ever.
UploaderReturns == []<>(pc = "merging")

\* With a cloud that answers, every message accepted is ingested (HealthySpec).
EveryDelivered ==
    \A n \in 1 .. MaxAccepted : n <= Len(accepted) ~> n \in Stored
============================================================================
