-------------------------- MODULE LogProxyServer ---------------------------
(***************************************************************************)
(* The two servers of the event loop: how they start, when systemd is told *)
(* that they are ready, and what becomes of the requests they get          *)
(* (log_proxy_server.py, servicer.py, v1/api_stub.py, _sd_notify.py).      *)
(*                                                                         *)
(* The loop runs one coroutine at a time: what a handler does between two  *)
(* awaits is one step.  Of the uploader only the fact that it takes the    *)
(* oldest entry is kept (LogPipeline has the rest), the tee handler is off. *)
(***************************************************************************)
EXTENDS LogsQueue

CONSTANTS
    Levels,       \* the log levels that clients send
    MaxRequests   \* bound of the model: requests ever sent

\* enum LogLevel of the proto file, and of the wrapper.
ProtoLogLevel == {"UNSPECIFIC_LOG_LEVEL", "TRACE", "DEBUG", "INFO", "WARN", "ERROR", "FATAL"}
LogLevel      == ProtoLogLevel \ {"TRACE"}

ASSUME LevelsAssumption   == Levels \subseteq ProtoLogLevel
ASSUME RequestsAssumption == MaxRequests \in Nat

VARIABLES
    loop,      \* the event loop: "running", or "failed" and the process with it
    http,      \* the HTTP site: "starting", "serving" or "failed"
    grpc,      \* the gRPC server: "starting" or "serving"
    ready,     \* READY=1: "off" (no NOTIFY_SOCKET), "armed", "sent" or "failed"
    requests,  \* the requests of all clients, in the order they were sent
    queue,     \* the LogsQueue; an entry's id is the number of its request
    accepted   \* history: the entries ever put into the queue

servers == <<loop, http, grpc, ready>>
vars    == <<servers, requests, queue, accepted>>

\* HTTP carries neither a type nor a level: _put_log has them by default.
HttpContent == [via : {"http"}, ecu : Suffixes, hasMessage : BOOLEAN,
                logType : {"LOG"}, level : {"UNSPECIFIC_LOG_LEVEL"}]
GrpcContent == [via : {"grpc"}, ecu : Suffixes, hasMessage : BOOLEAN,
                logType : LogType, level : Levels]

HttpStatuses == {"OK", "BAD_REQUEST", "SERVICE_UNAVAILABLE"}

\* A request: what it says, which requests were answered when it was sent, where it
\* is, and the answer prepared for it (or given).
Answers == ErrorCode \cup HttpStatuses \cup {"none"}
Request ==
    [content : HttpContent \cup GrpcContent, after : SUBSET (1 .. MaxRequests),
     at : {"sending", "received", "replying", "answered", "ended"}, answer : Answers]

Init ==
    /\ loop = "running" /\ http = "starting" /\ grpc = "starting"
    /\ ready \in {"off", "armed"}
    /\ requests = <<>> /\ queue = <<>> /\ accepted = <<>>

----------------------------------------------------------------------------
(* Starting: both servers at once (asyncio.gather), and a timer.           *)

\* A failure to listen for HTTP is logged...
StartHttpServer ==
    /\ loop = "running" /\ http = "starting"
    /\ http' \in {"serving", "failed"}
    /\ UNCHANGED <<loop, grpc, ready, requests, queue, accepted>>

\* ...one to listen for gRPC leaves launch_server, and the process ends.
StartGrpcServer ==
    /\ loop = "running" /\ grpc = "starting"
    /\ \/ grpc' = "serving" /\ loop' = loop
       \/ grpc' = grpc /\ loop' = "failed"
    /\ UNCHANGED <<http, ready, requests, queue, accepted>>

\* WAIT_BEFORE_SEND_READY_MSG seconds are over.
SdNotify ==
    /\ loop = "running" /\ ready = "armed"
    /\ ready' \in {"sent", "failed"}
    /\ UNCHANGED <<loop, http, grpc, requests, queue, accepted>>

----------------------------------------------------------------------------
(* Clients.                                                                *)

Answered == {r \in DOMAIN requests : requests[r].at = "answered"}

Move(r, from, to) == requests[r].at = from /\ requests' = [requests EXCEPT ![r].at = to]

Send(content) ==
    /\ loop = "running"
    /\ (content.via = "http" => http = "serving") /\ (content.via = "grpc" => grpc = "serving")
    /\ Len(requests) < MaxRequests
    /\ requests' = Append(requests, [content |-> content, after |-> Answered,
                                     at |-> "sending", answer |-> "none"])
    /\ UNCHANGED <<servers, queue, accepted>>

\* The whole body has arrived: `await request.text()` returns; gRPC calls PutLog.
Receive(r) ==
    /\ loop = "running" /\ Move(r, "sending", "received")
    /\ UNCHANGED <<servers, queue, accepted>>

\* The client goes away before that, or sends more than the server takes.
BodyFails(r) ==
    /\ loop = "running" /\ Move(r, "sending", "ended")
    /\ UNCHANGED <<servers, queue, accepted>>

----------------------------------------------------------------------------
(* Handlers.                                                               *)

\* Mutant: the status of a full queue is forgotten.
HttpStatusOfRefused(code) ==
    IF code \in {"NO_MESSAGE", "NOT_ALLOWED_ECU_ID"} THEN "BAD_REQUEST" ELSE "OK"

HttpStatus(code) ==
    CASE code \in {"NO_MESSAGE", "NOT_ALLOWED_ECU_ID"} -> "BAD_REQUEST"
      [] code = "SERVER_QUEUE_FULL"                    -> "SERVICE_UNAVAILABLE"
      [] OTHER                                         -> "OK"

\* Mutant: the queue gives back the youngest entry first.
PutEntryInFront(entry) ==
    /\ queue' = <<entry>> \o queue
    /\ accepted' = <<entry>> \o accepted
PutEntry(entry) ==
    /\ queue' = Append(queue, entry)
    /\ accepted' = Append(accepted, entry)

\* _put_log with the code it returns, and the answer the handler makes of it.
PutLog(r, code, answer) ==
    LET c == requests[r].content IN
    /\ requests[r].at = "received"
    /\ requests' = [requests EXCEPT ![r].at = "replying", ![r].answer = answer]
    /\ IF code = "NO_FAILURE"
       THEN PutEntry([key |-> <<ConvertFromLogType(c.logType), c.ecu>>, id |-> r])
       ELSE UNCHANGED <<queue, accepted>>
    /\ UNCHANGED servers

\* Mutant: the limit of the queue is not looked at.
CodeWithoutLimit(r) ==
    PutLogCode(requests[r].content.ecu, requests[r].content.hasMessage, <<>>)

Code(r) == PutLogCode(requests[r].content.ecu, requests[r].content.hasMessage, queue)

\* Mutant: put instead of put_nowait, which waits for room.
HttpPutLogWaits(r) ==
    /\ loop = "running" /\ requests[r].content.via = "http" /\ Code(r) # "SERVER_QUEUE_FULL"
    /\ PutLog(r, Code(r), HttpStatus(Code(r)))

HttpPutLog(r) ==
    /\ loop = "running" /\ requests[r].content.via = "http"
    /\ PutLog(r, Code(r), HttpStatus(Code(r)))

GrpcPutLog(r) ==
    /\ loop = "running" /\ requests[r].content.via = "grpc"
    /\ requests[r].content.level \in LogLevel
    /\ PutLog(r, Code(r), Code(r))

\* The wrapper does not know the level: the exception ends the RPC with an error
\* status and no PutLogResponse.
GrpcConvertFails(r) ==
    /\ loop = "running" /\ requests[r].content.via = "grpc"
    /\ requests[r].content.level \notin LogLevel
    /\ Move(r, "received", "ended")
    /\ UNCHANGED <<servers, queue, accepted>>

Reply(r) ==
    /\ loop = "running" /\ Move(r, "replying", "answered")
    /\ UNCHANGED <<servers, queue, accepted>>

\* The client is gone; the handler is not cancelled, only its answer is.
ReplyLost(r) ==
    /\ loop = "running" /\ Move(r, "replying", "ended")
    /\ UNCHANGED <<servers, queue, accepted>>

\* The uploader takes the oldest entry.
Take ==
    /\ loop = "running" /\ queue # <<>>
    /\ queue' = Tail(queue)
    /\ UNCHANGED <<servers, requests, accepted>>

----------------------------------------------------------------------------
Starting  == StartHttpServer \/ StartGrpcServer \/ SdNotify
Handle(r) == HttpPutLog(r) \/ GrpcPutLog(r) \/ GrpcConvertFails(r) \/ Reply(r)

Next ==
    \/ Starting
    \/ \E content \in HttpContent \cup GrpcContent : Send(content)
    \/ \E r \in DOMAIN requests : Receive(r) \/ BodyFails(r) \/ Handle(r) \/ ReplyLost(r)
    \/ Take

Spec == Init /\ [][Next]_vars

\* The loop runs what is ready to run; clients and the uploader may do nothing.
FairSpec ==
    /\ Spec /\ WF_vars(Starting)
    /\ \A r \in 1 .. MaxRequests : WF_vars(r \in DOMAIN requests /\ Handle(r))

----------------------------------------------------------------------------
(* Properties.                                                             *)

\* Type invariant.
TypeOK ==
    /\ loop \in {"running", "failed"} /\ http \in {"starting", "serving", "failed"}
    /\ grpc \in {"starting", "serving"} /\ ready \in {"off", "armed", "sent", "failed"}
    /\ requests \in Seq(Request)
    /\ queue \in Seq(Entry) /\ accepted \in Seq(Entry)
    /\ MaxBacklog > 0 => Len(queue) <= MaxBacklog

Success == {"NO_FAILURE", "OK"}
Retry   == {"SERVER_QUEUE_FULL", "SERVICE_UNAVAILABLE"}

PutBy(r) == {i \in DOMAIN accepted : accepted[i].id = r}

\* A client that is told of success has its message in the queue exactly once, under
\* its own key; one that is refused has not, so sending again is safe, and is asked
\* to only when the request itself was good.  The same over HTTP and gRPC.
AnswerIsTruthful ==
    \A r \in Answered :
        LET c    == requests[r].content
            good == c.hasMessage /\ (AllowedEcus = {} \/ c.ecu \in AllowedEcus)
        IN  /\ requests[r].answer \in Success =>
                 \E i \in DOMAIN accepted :
                     PutBy(r) = {i} /\ accepted[i].key = <<ConvertFromLogType(c.logType), c.ecu>>
            /\ requests[r].answer \notin Success => PutBy(r) = {}
            /\ requests[r].answer \in Retry => good
            /\ requests[r].answer \notin Success \cup Retry => ~good

\* Messages of a client that waits for each answer are queued in the order sent, over
\* whichever of the two servers and whatever other requests are in flight ("ensure the all msgs are sent in order", tests/test_log_proxy_server.py).
QueuedInOrderSent ==
    \A i, j \in DOMAIN accepted :
        accepted[i].id \in requests[accepted[j].id].after => i < j

\* What the handlers of both servers put, and when, is what the contract of the queue
\* allows, which is all that LogPipeline assumes of its clients: see Intake.
Contract == INSTANCE Intake WITH
                put      <- {accepted[i].id : i \in DOMAIN accepted},
                Messages <- 1 .. MaxRequests
KeepsContract == Contract!Spec

\* Whatever the queue holds, a request whose body has arrived is answered or ends
\* with its connection: a full queue never holds up the loop.
EveryRequestEnds ==
    \A r \in 1 .. MaxRequests :
        (r \in DOMAIN requests /\ requests[r].at \in {"received", "replying"}) ~>
            (loop = "failed" \/ (r \in DOMAIN requests /\ requests[r].at \in {"answered", "ended"}))

\* systemd is told that the service is ready after the servers have started up
\* (log_proxy_server.py:103), and so never once one of them has failed to.
ReadyMeansServing ==
    [][ready = "armed" /\ ready' = "sent" => http # "failed" /\ loop # "failed"]_vars

\* A good request is put or told that the queue is full, whichever of the levels of the
\* proto file it carries: its handling never ends without an answer of the API.
EveryLevelIsHandled ==
    [][\A r \in DOMAIN requests :
         requests[r].at = "received" /\ requests'[r].at # "received" =>
             requests'[r].answer # "none"]_vars
============================================================================
