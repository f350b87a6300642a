# Formal model of the OTAClient AWS IoT logging server

TLA+ modules, TLC configurations and TLAPS proofs for the program under
`src/otaclient_iot_logging_server` and `src/proto_wrapper` of this repository. Paths below are
relative to the package unless they say otherwise.

## 1. The system

One process. An asyncio event loop serves HTTP (`POST /{ecu_id}`) and gRPC (`PutLog`, `Check`); a
thread uploads; another thread watches configuration files; every module writes records with
`logging`, and a handler on the package's logger may put those into the same queue.

```
  otaclient --HTTP/gRPC--> servicer._put_log --+
                                               +--> Queue(MAX_LOGS_BACKLOG) --> uploader thread --> CloudWatch Logs
  logging records --> _LogTeeHandler.emit -----+              (merge per (log group, suffix), put, create)

  config files --read once at start--> process <--SIGINT-- monitor thread        systemd --start/Restart=--> process
```

| Component | State it keeps | Operations | Interacts with |
|---|---|---|---|
| Queue (`_common.py`, `__main__.py:31`) | bounded FIFO of (group, suffix, message) | `put_nowait`, `get_nowait` | servicer, tee handler, uploader |
| Servicer (`servicer.py`) | allowed ECU ids | `_put_log`, `http_put_log`, `grpc_put_log`, `grpc_check` | queue |
| Tee handler (`_log_setting.py`) | none | `emit`, `config_logging` | queue; called on any thread that logs |
| Uploader (`aws_iot_logger.py`) | `message_dict`, `_merge_count`, the retry counters | `thread_main`, `put_log_events`, `_create_log_stream` | queue, cloud, clock |
| Retry (`_utils.py`) | `_retry_count` of each call | `retry` | uploader |
| Config monitor (`config_file_monitor.py`) | `monitored_config_files`, `_monitored_files_stat` | `_config_file_monitor` | file system, the process (SIGINT) |
| Settings (`configs.py`), ECU info (`ecu_info.py`), Greengrass (`greengrass_config.py`) | values read once | parsing at import / start | register files with the monitor |
| Servers (`log_proxy_server.py`, `_sd_notify.py`, `v1/api_stub.py`) | listening sockets, the timer of READY | `launch_server` | servicer, systemd |
| Session (`boto3_session.py`) | refreshable credentials | `get_session`, `_refresh` | uploader, credential provider |
| Protobuf wrapper (`proto_wrapper`) | none | `convert`, `export_pb` | gRPC handlers |

What is hard: three kinds of threads on one queue; records *about* the uploader's failures that
re-enter the queue it drains; two nested retry loops whose outer one depends on an exception raised
after a success; calls whose reply may be lost; midnight between naming a stream and using it; a
process that is killed on purpose whenever a file changes; comparison of truncated times.
`PROJECT.json` lists the hazards by line. What makes each component correct:

- queue and servicer: never more than the limit; refused ids never pass; the answer fits what
  happened to the message;
- uploader: order, routing, at most once, everything accounted for, bounded work for a batch, always
  returns to the queue;
- monitor: kills for a reason only, and a change ends in a process that serves it;
- servers: ready means serving, every request is answered truthfully;
- session: signs only with what is valid and came whole, and never holds up the uploader;
- wrapper: messages share only what the caller shared, and a refusal changes nothing;
- retry: bounded sleeps for one batch;
- start: one vehicle's thing, role, account and endpoint, whichever format describes it; exactly the
  files in use are watched; files in a documented form start a server that can fetch credentials.

## 2. Modules

| Module | What it is |
|---|---|
| `LogsQueue` | vocabulary: keys, entries, when the queue is full, the answers of `_put_log` |
| `LogPipeline` | the core: clients, tee handler, uploader, cloud, clock, restarts |
| `LossyFifo` | the abstract specification of what the core promises for each key |
| `Intake` | the abstract specification of the queue between the servers and the uploader, which both sides implement |
| `ConfigMonitor` | files, the loading order, the monitor thread, SIGINT, the service manager |
| `LogProxyServer` | the two servers, READY, requests in flight and their answers |
| `UploadDelay` | the core with the sleeps of its retries |
| `Greengrass` | pure operators: names, ARN, profiles, both Greengrass formats, what a session needs |
| `Startup` | the start from the imports to the session, over what may be on the disk; then `IoTSession` |
| `IoTSession` | the session that signs the uploader's calls: refreshes, time-outs, callbacks of the request |
| `ProtoWrapper` | wrappers of protobuf messages as objects: what is shared, copied and refused |
| `MCLogPipeline`, `MCUploadDelay`, `MCConfigMonitor`, `MCLogProxyServer`, `MCStartup`, `MCProtoWrapper` | instances for TLC |
| `LogPipelineProofs` | types, order, routing; the invariant the others rest on |
| `LogPipelineUploadProofs`, `LogPipelineFifoProofs` | limits, order of batches, filter, calls and sleeps, the cloud that answers; accounting, the refinements |
| `ConfigMonitorProofs` | types, and every kill has a reason |
| `LogProxyServerProofs` | types, truthful answers, order and contract of the queue |
| `IoTSessionProofs` | types, validity of what signs, credentials from one answer |
| `StartupProofs` | the profile of a thing, the refinement of `IoTSession`, the vehicle, the watched files |
| `ProtoWrapperProofs` | types, what is shared, what a step changes, the arithmetic of Duration |

### LogPipeline and the code

| State | Code |
|---|---|
| `queue` | the `Queue` built in `__main__.py:31`; an entry is its key and a number that stands for the message |
| `servicer` | whether `_put_log` is between `except Full` and the record it writes |
| `pc`, `mergeCount`, `messageDict`, `order` | where `thread_main` is, `_merge_count`, `message_dict` and what is left of the loop over its items |
| `stream`, `putTry`, `createTry` | arguments of `put_log_events` and the `_retry_count` of its decorator and of `_create_log_stream`'s |
| `today` | the UTC date that `get_log_stream_name` reads |
| `streams`, `stored` | CloudWatch: streams there are, messages ingested for a key (over all dates) |
| `accepted`, `lost`, `calls` | history: who sent message n, what left without being ingested, calls made for the batch under way |

Actions follow the control flow: `PutLog`, `PutLogFull`, `LogDropped` (servicer), `ServerLogs`
(other records through the tee handler), `MergeGet`, `MergeEnd`, `BeginPut`, `Sleep` (`thread_main`),
`PutOk`, `PutNotFound`, `PutFailed`, `PutReplyLost` (outcomes of the put), `CreateOk`,
`CreateExists`, `CreateFailed` (outcomes of the creation, each followed by the exception that leaves
`put_log_events`: `PutAgain` or `GiveUp`), `ClockMoves`, `Restart`.

Choices that matter:

- A call of the cloud and the log record about its outcome are one step. The call touches only the
  cloud and the record only the queue, so anything between the two can be moved before or after.
- `_put_log` that refuses a message for another reason than a full queue changes nothing and is
  a stuttering step; the order of its returns is in `PutLogCode`.
- A put is whole: CloudWatch takes all events of a call or none. The rejected part that the
  response may name is ignored by the code and not modelled. Retries inside botocore are below the
  call; a call that ingested twice because of them is not modelled.
- A restart in the middle of a call is either before or after its effect on the cloud.
- `ClockMoves` may go back as well as forward.
- Retry limits, merge limits and queue sizes are any integers, as in the code, where zero or less
  means "for ever" (retry), "without bound" (queue) and "never" (merge).

### UploadDelay and the code

`slept` adds up what `retry` sleeps: each step of the core that counts `putTry` or `createTry` up is
one sleep of `Sleeptime(factor, max, count)`, and what is slept for a batch is forgotten with the batch.
`SleepLimit` with the numbers of `aws_iot_logger.py` is 6 x 6 + 7 x 16 x 32 seconds, about an hour, in
which nobody takes anything from the queue. The interval between merges and the time calls take are
not counted.

### ConfigMonitor and the code

`file` is the disk, `main` the step of the import and start-up order (`configs.py:81`,
`ecu_info.py:71`, `greengrass_config.py:256`, then the monitor thread), `loaded` the content the
process has read, `monitored`, `known` are `monitored_config_files` and `_monitored_files_stat`,
`todo` what the pass under way still has to look at (any order: it is a set in the code), `sigint`
the signal on its way. Times are whole seconds because `_MCTime.from_stat` truncates. A written file
may carry an older mtime (a copy that preserves it) but always a ctime of now. The clock may be set back
(`SetBack`), and what is written then has times that are not newer than those recorded; `Hidden` is that case.
`ChangeIsServed` is about a file already recorded and written in a later second, and excepts it; the other changes
that stay unseen are those of the two violated runs. `RestartsAfter`
is the policy of systemd: death by SIGINT is a clean exit.

### LogProxyServer and the code

`loop`, `http`, `grpc` follow `launch_server` and the two coroutines that `asyncio.gather` runs:
`StartHttpServer` may fail and only logs it, `StartGrpcServer` may fail and ends the process
(`add_insecure_port` raises), `SdNotify` is the timer of `launch_server`, which knows nothing of the two.
A request is `sending` until its body is there (the `await` of `http_put_log`; grpc.aio reads the whole
message before it calls `PutLog`), `received`, `replying` once the handler has run to its return
without another await, and `answered`, or `ended` without an answer. `HttpPutLog` and `GrpcPutLog` are
the handlers with `_put_log` inlined, `GrpcConvertFails` is the exception of
`PutLogRequest.convert`. The module shares `LogsQueue` with the core; of the uploader it keeps only
that it takes the oldest entry, and the tee handler is off, so the record that `_put_log` writes about
a full queue (`LogDropped` in `LogPipeline`) is left out here.

### IoTSession and the code

`state` is where the thread is in a signed call: `checking` the credentials, `connecting` and `waiting`
for the two futures of `_fetch_iot_credentials_via_awscrt`, each with its own `waited`. `stream`, `answer`
and `collected` are kept for each refresh, because a request that timed out is not cancelled and its
callbacks `on_response` and `on_body` may run later, on a thread of awscrt, into the variables of their own
call (`Cell`). Time is in seconds, left for the credentials in `left`; it passes while the thread waits and
between calls, and what the code computes takes none. That both waits fit into the mandatory window
(2 x 10 s < 600 s) is the assumption `TimeoutAssumption`. The rules of botocore, when a refresh is
due and when its failure matters, are external; a local clock that is set is not modelled. Every way in
which the connection cannot be made (files, PKCS#11, TLS, network) is `ConnectFails`; `GetSession` may fail,
and when it does is what `Startup` says. The session and the
core meet in the outcome of a call: to `LogPipeline` a refresh that fails is a put or a creation that fails.

### Greengrass, Startup and the code

A document is a function from the paths that are there to their values, so that `chain_query` is a
question about its domain. A thing name is a sequence of words between hyphens after an optional prefix:
the greedy pattern `THINGNAME_PA` takes the last `-edge-` that leaves an id and a word behind it. Its length
is counted in words, the optional prefix as one. An ARN is the sequence of its fields between colons, which
`split(":", 6)` may leave in seven parts. What raises returns the empty set, anything else the set of its one
result. Of a value only what the code tells apart is kept: a PIN is text or a number, a slot is a
number or a label, an account id is text or what YAML makes of digits in octal, a file is PEM or not.

`Startup` follows the imports and `start_aws_iot_logger_thread`: `LoadProfileInfo` (`configs.py`),
`LoadEcuInfo` (`ecu_info.py`), `LoadGreengrass` (`parse_config`), `CreateSession`; the first two run at
import, so a bad list of profiles ends the process before the rest is read, a bad ECU info only turns
the filter off. `CreateSession` is the `GetSession` of `IoTSession`, from which on the state is that
of that module, and the files are forgotten except for `usable`: whether a TLS context and a connection
can come about with them. `V1Documents` and `V2Documents` are the documented forms (`tests/data`, the README of
the repository); `Describes` relates what is on the disk to a vehicle.

### ProtoWrapper and the code

One message type with a field of each kind stands for all. A message is a record of references: to a
Duration in `one`, to containers in `many`, `keyed` and `marks`. `Convert` is `convert` of a protobuf message,
`DeepCopy` is `__deepcopy__`, whose copies are made with a memo for each field, so that a Duration that is twice
in one container is copied once. `SetOne` keeps the wrapper it is passed, as
`convert` gives back its argument; `SetMany`, `SetKeyed` and `SetMarks` always build a container. Of an `int` in
a list only its Python type is kept: `append` takes a bool and `convert` refuses it. Methods that the
containers inherit from list and dict, and that check nothing (marked TODO in the source), are not called.
An object that no message refers to is forgotten; a caller that still holds one is not modelled. A new Duration
has any identity that is free; a new container has one that is chosen among the free ones, as no definition
looks at which it is. What comes from outside (the messages that are received, the Durations and the lists that are
assigned or appended) are constants, so that the theorems are for all of them.

## 3. Runs

| Run | Instance | Shows |
|---|---|---|
| `pipeline_safety` | `MCPipelineSafety.cfg`: `DelaySpec`, one listed and one unlisted ECU and the server, backlog 2, a merge setting above the put limit, 1 retry of a put and 2 of a creation, tee at DEBUG, 2 dates, 4 messages | all safety invariants of the core, that the retries of a batch sleep for a bounded time, and that every step keeps the contract of the queue (`Intake`) |
| `pipeline_channel` | `MCPipelineChannel.cfg`: `FairSpec`, tee at ERROR (records of other modules included), one ECU and the server, 3 messages, faults for ever | every step is a step of `LossyFifo` or stutters; every message leaves the process, the uploader comes back |
| `pipeline_healthy` | `MCPipelineHealthy.cfg`: `HealthySpec` | nothing is lost and everything is ingested when the cloud answers |
| `monitor` | `MCMonitor.cfg`: 2 edited files, 2 edits, 3 seconds, a clock that may be set back, `Restart=always` | killed for a reason only, and a change is served in the end |
| `monitor_shipped_unit` | the same with `on-failure` | **violated**: the shipped unit leaves the server down after a change |
| `monitor_startup` | the same with `always` | **violated**: a change between loading and the first pass is never acted on |
| `monitor_same_second` | the same, 3 edited files | **violated**: a second write within the second recorded is never seen |
| `server` | `MCServer.cfg`: backlog 1, 2 requests of every content with two levels | answers are truthful and given, queue order is the order of a waiting client, what is put keeps the contract of the queue |
| `session` | `MCStartup.cfg`: `FairStart`, 3 vehicles, every combination of a list of profiles, an ECU info and configurations of both versions, sound, damaged or odd (21,840 starts); then time-out 1, windows 3 and 4, lifetime 5, 3 refreshes, a body of 2 chunks | the server is that of the vehicle described, documented files serve, the right files are watched; no call is signed with what expired or was put together from two answers; every call ends |
| `proto_wrapper` | `MCProtoWrapper.cfg`: 2 messages, 3 Durations, 2 elements, a second of 2 ns | messages change together only through a Duration that was assigned to both; conversions are faithful, refusals change nothing |
| `server_ready` | `MCServerReady.cfg` | **violated**: READY is sent after the HTTP server failed to start |
| `server_levels` | `MCServerLevels.cfg` | **violated**: a request with the level TRACE is neither put nor answered |

Why the bounds are enough. Four messages fill a queue of two, a merge of two and leave
one to be accepted behind them; two keys in a merge are needed to see routing, order of batches and
a batch lost between others. `PutMaxRetry = 1` has every branch of `MayRetry` and
every nesting of the loops, and `CreateMaxRetry = 2` (1 in the runs with liveness) a second sleep of the
inner one; the numbers of the code (6 and 16) only make them longer, and the
theorems are for all numbers, those of `UploadDelay` for all back-off parameters in `Nat` (`BackoffAssumption`). Back-off factors and limits of 1 make the
first sleep reach the limit, so that the second one is capped. Two dates are one midnight (and one step back). The bound on messages
is `MaxAccepted`, a guard of `Accept`; restarts and failures are not bounded. In `ConfigMonitor`
two edits are one change and one interference with it; `MaxTime = 2` gives the second before, of,
and after a recorded time; the two edited files are one the server can do without (`ecu_info`) and one with a
fallback (`greengrass_v2`), the others are not edited in `monitor`.
In `LogProxyServer` two requests
are one that fills the queue of one and one that finds it full, or drained, in either order and over
either server. In `Startup` one profile has the word `edge` in it and one
id has, so that the last `-edge-` is not always the right one; `MaxThingName = 6` is the length of the
longest thing name that is described, and a name of two words more is refused. In `IoTSession` the numbers keep the order of the code's, 2 x 10 s < 600 s < 900 s; three
refreshes are one whose request is abandoned, one that is collected while the first is still answered, and one
that finds credentials of the second. In `ProtoWrapper` sharing needs two messages and two places in one
container, hence 2 elements and 3 Durations; six containers are those of two messages, and are what bounds the
number of messages. The symmetry permutes identities of Durations,
which no definition compares with a constant or chooses among, and only safety is checked. When the time is spent `ConfigMonitor` still runs its passes, and `LogPipeline` can always restart
or move its clock, so deadlock is checked; it is switched off only where
the program really stops: `monitor_shipped_unit`, `LogProxyServer`, whose process may end and
whose clients send a bounded number of requests, and `Startup`, whose process ends
when a file it needs is missing or not valid.

Fairness. `FairSpec` asks for weak fairness of the uploader thread as a whole: it is
an OS thread that blocks only in calls with time-outs (botocore's, and the ten seconds of
`boto3_session.py:47`) and in bounded sleeps. Nothing is asked of clients, the clock, restarts or
of which outcome a call has, so the cloud may fail for ever. With the tee handler
on, a cloud that always fails feeds the uploader records about its own failures; each of them still
settles, and `MaxAccepted` is what ends the loop in the model.
`HealthySpec` drops faults and restarts and keeps the fairness of the uploader. In
`ConfigMonitor` each thread, the arrival of the signal and the service manager are weakly fair;
edits and the clock are not. In `LogProxyServer` the event loop runs what is ready to run; a client
need not send its body, and the uploader need not take anything. In `Startup`, as in `IoTSession`, the thread
that signs runs and time passes, which is what ends a wait; the provider need never answer.

## 4. Proofs

All theorems are about the specification of their module (`Spec`, `StartSpec` of `Startup`,
`DelaySpec` and `HealthySpec` where the table says so) and for every value of the constants that satisfies the named
assumptions: `OwnSuffix` is a suffix and the allowed ids are suffixes (`SuffixAssumption`), the
settings are integers (`BacklogAssumption`, `MergeAssumption`, `RetryAssumption`), the tee
setting and level are legal values (`LevelAssumption`), there is a date (`BoundsAssumption`).
They hold in particular for the numbers of the code, and for every `MaxAccepted`. Those of
`IoTSession` assume that the time-outs fit into the mandatory window (`TimeoutAssumption`) and that the advisory
window is not the smaller one (`RefreshAssumption`). Those of `Startup` are for any vehicles whose profile and id have
a word at least (`VehiclesAssumption`) and any disk with at most one of each file (`FilesAssumption`), over
any words that include `edge` and `Core` (`WordAssumption`) and any limit of names (`LengthAssumption`). Those of
`ConfigMonitor` are for any set of edited files and policy (`EditableAssumption`, `PolicyAssumption`), those of
`LogProxyServer` for clients that send any levels of the proto file (`LevelsAssumption`). Those of
`ProtoWrapper` are for any enum with a member 0 whose members are legal numbers (`EnumAssumption`), any length of a second and any steps
(`SecondAssumption`), and any protobuf messages, Durations and lists from outside, with as many elements
as they like (`InputAssumption`). The bounds of the
models, on edits, seconds and requests, are any natural numbers (`BoundsAssumption`, `RequestsAssumption`), those on objects and
seconds any sets (`BoundAssumption`).

| Theorem | Property |
|---|---|
| `TypeCorrect` (`LogPipelineProofs`) | `TypeOK`, with the limit of the queue |
| `OrderCorrect` | `StoredInOrder` |
| `RoutingCorrect` | `RoutedToOwnStream` |
| `AccountCorrect` | `Accounted` |
| `PutLimitCorrect` | `PutWithinLimit` |
| `OldestFirstCorrect` | `OldestFirst` |
| `KnownEcusCorrect` | `KnownEcusOnly` |
| `CallsCorrect` | `CallsBounded` |
| `SleepCorrect` | `SleepBounded` (`DelaySpec`) |
| `HealthyCorrect` | `NothingLost` (`HealthySpec`) |
| `FifoCorrect` | `IsLossyFifo` (initial states and every step of the refinement) |
| `ContractCorrect` (`LogPipelineFifoProofs`) | `KeepsContract` of `LogPipeline`: it implements `Intake` |
| `SessionTypeCorrect` | `TypeOK` of `IoTSession` |
| `SignedCorrect` | `SignedWhileValid` |
| `OneAnswerCorrect` | `CredentialsFromOneAnswer` |
| `TypeCorrect` (`ConfigMonitorProofs`) | `TypeOK` of `ConfigMonitor` |
| `KilledCorrect` | `KilledForAReason` |
| `ServerTypeCorrect` | `TypeOK` of `LogProxyServer`, with the limit of its queue |
| `AnswersCorrect` | `AnswerIsTruthful` |
| `OrderCorrect` (`LogProxyServerProofs`) | `QueuedInOrderSent` |
| `ContractCorrect` (`LogProxyServerProofs`) | `KeepsContract` of `LogProxyServer`: it implements `Intake` |
| `StartImplementsSession` | `StartSpec` implies `Spec` of `IoTSession` |
| `ProfileOfThing` | the profile found in a thing name is that of the vehicle |
| `StartTypeCorrect` | `StartTypeOK` |
| `OwnVehicleCorrect` | `ServesOwnVehicle` |
| `WellFormedCorrect` | `WellFormedServes` |
| `MonitorsCorrect` | `MonitorsWhatItUses` |
| `StartedSessionCorrect` | the properties of the session, of a server that was started |
| `WrapperTypeCorrect` | `TypeOK` of `ProtoWrapper` |
| `ContainersCorrect` | `ContainersNotShared` |
| `NewSharesNothingCorrect` | `NewSharesNothing` |
| `MadeIsFaithfulCorrect` | `MadeIsFaithful` |
| `IsolationCorrect` | `ChangesAreIsolated` |
| `RefusalCorrect` | `RefusedChangesNothing` |
| `NanosecondsCorrect` | `NoNanosecondLost` |

The argument. None of the properties is inductive alone: that the cloud's messages are in order says
nothing about the batch appended next. `TypeInv` adds to the types that a call under way is for the
first key of the order (`AtBatch`). `FlowInv` follows a message through the process: in the queue
(`QueueSound`), in a batch (`MergedSound`), in the cloud (`StoredSound`), each place holds messages
that were accepted for its key, in increasing order, and everything in one place is older than what
is in the places before it. So that each invariant has few cases, `StepKinds` sorts the steps by what
they do to messages: they stay, one batch is lost, one is stored, one entry is merged, or the
process restarts; every other invariant is proved over those five kinds. `AccountCorrect`
adds that the ids in flight and those gone cover everything accepted; `MergeInv` that the order
lists exactly the keys with a batch by their oldest message and that no batch is longer than the
count of its merge; `FilterInv` that everything accepted is allowed. `CallsInv` counts: a put that is
about to begin round n has cost at most n rounds of `CreateMaxRetry + 2` calls. `DelayInv` does the same
for the sleeps, none of which is longer than its limit whatever the power of two is. `HealthyInv` says that while
the cloud answers a batch that is put again has its stream, so the first retry, which
every setting allows, is the last. For the
refinement, each kind of step maps to a step of `LossyFifo`: staying to `Send` or a stutter, a lost
batch to `Lose`, a stored one to `Deliver`, a merge to a stutter, a restart to `Crash`.

`LogPipeline` keeps of the servers only what they put, and `LogProxyServer` of the uploader only that it
takes. That the two are halves of one program is what `Intake` is for: a queue into which a message is put once, under an
admitted key and when there is room, from which the oldest is taken and which a restart empties. Each half
implements it, so that neither is shown correct against a queue the other would not leave it. For the core
every kind of step with an arrival maps to `Put`, `MergeGet` to `Take`, `Restart` to `Clear`; for the servers
a handled request maps to `Put` or a stutter, and that it was not put before is the part of `TruthInv` about requests
that were received only.

For the session, `SpareTime` says that during a refresh that need not succeed more time is left for the
credentials than its remaining waits can take: it starts with `MandatoryRefresh` seconds or more and
the two waits spend one second for one, so a refresh that fails leaves credentials that are valid.
`OneAnswer` says that each cell holds what was sent on its own stream, and that a stream which ended is not
written to again.

For the start, `StartInv` says of every step what has been read so far: the list is what `Loaded` makes of
the disk, the configuration what `Parsed` makes of both, the monitored files are `MonitoredSoFar`, and a
process that ended did so because something was `Refused`. What these are for a vehicle's
own files is a matter of the operators alone: the last `-edge-` of its thing name is the one after the
profile because the id has none (`ProfileOfThing`), the first entry of that name is its own, and so
each of the two formats gives one configuration that is the vehicle's (`ParsedV1`, `ParsedV2`, `DescribedFits`).
Every step of the start is a step of `IoTSession` or a stutter, so its theorems carry over.

For the monitor, `KilledForAReason` needs that the recorded times of a file that did not change since
are its times: `BaselineInv` says so, and that no version is beyond the number of edits. `TypeInv` adds to the types what
the monitor thread, the signal and the main thread can be doing together (`MonitorState`).

For the servers, `TruthInv` says for each request, wherever it is, whether its message was put, and that
the answer on its way fits that; `AnswerIsTruthful` is about the answers that have arrived only. `OrderInv` adds that a request
was sent after requests which were answered then, so their messages were put, if at all, before it.

For the wrappers, what the properties are about is what a message exports, which hangs on two levels of
references. `Safe` says that every reference is to an object there is and of the right kind, and that no container is
in two fields (`NotShared`); without the second part an append to one message could change another, and
neither types nor isolation would be inductive. Under `Safe` the heap is read by a few operators over any heap
(`ExportOf`, `HeldIn`): `SameExport` says that a message exports the same over two heaps that agree on what it
reaches, and forgetting what nothing refers to is such a change. `StepKinds` then sorts the steps
by what they touch: nothing, one new message made of fresh objects, one message, or the value of one Duration. Two
messages can change in one step only in the last case, and both hold that Duration. `CarryLosesNothing` is the
arithmetic: quotient and remainder give back the sum for either sign of the step.

Only model-checked: the liveness properties (`EverySettles`, `UploaderReturns`, `EveryDelivered`,
`ChangeIsServed`, `EveryRequestEnds`, `EveryCallEnds`), which need fairness.

## 5. Disagreements found

- `examples/otaclient-logger.service:13` (`Restart=on-failure`) against `README.md:22` of the
  repository, which promises a restart on changed files.
- `config_file_monitor.py:68`: the baseline is taken after the files were read, against
  `configs.py:57`.
- `config_file_monitor.py:53`: truncation to seconds, against the comment at line 16.
- `log_proxy_server.py:106`: READY is sent whether or not the HTTP server started, against the record
  at line 102.
- `v1/_types.py:33`: the wrapper lacks the level TRACE of the proto file, and a request that carries it
  fails without an answer of the API.

## 6. Plan

Done: the core, its retries and its proofs; the monitor, the servers, the start, the session, the wrapper and their
proofs. Left:

- `ProtoWrapper`: a caller that holds a Duration that no message refers to, and the map of scalars.

Not modelled: the generated protobuf code and the hook that generates it when the package is built, which
have no state of their own; formatting of records; YAML and JSON parsing, of which `Greengrass` takes the result;
TLS and PKCS#11 themselves, of which `Startup` takes whether the settings can work; the methods that the
wrapper's containers inherit from list and dict, which check nothing (marked TODO in the source).

Two hazards have no property. A backlog setting of zero or less makes the queue unbounded and a merge setting
of zero or less makes the uploader never merge; the theorems allow both, the settings are the operator's.
A certificate that PKCS#11 reads once while the key is looked up at each refresh may become stale when
the token is written to, and the token is outside this program.
