------------------------- MODULE LogPipelineProofs -------------------------
(***************************************************************************)
(* Theorems about LogPipeline, for every set of ECUs, every queue and      *)
(* merge limit, every number of retries and every bound on acceptances:    *)
(* type correctness, the order of the messages and their routing.          *)
(***************************************************************************)
EXTENDS LogPipeline, TLAPS, SequenceTheorems

USE SuffixAssumption, BacklogAssumption, MergeAssumption, RetryAssumption,
    LevelAssumption, BoundsAssumption

----------------------------------------------------------------------------
(* Type correctness.  A call of the cloud is under way only for the first  *)
(* key of the order, which is therefore not empty: AtBatch.                *)

AtBatch == pc \in {"putting", "creating"} => order # <<>> /\ stream[2] = Head(order)

TypeInv == TypeOK /\ AtBatch

IntakeOK ==
    /\ queue \in Seq(Entry) /\ accepted \in Seq(Keys)
    /\ MaxBacklog > 0 => Len(queue) <= MaxBacklog

UploaderOK ==
    /\ pc \in {"merging", "uploading", "putting", "creating"}
    /\ mergeCount \in Nat
    /\ messageDict \in [Keys -> Seq(Nat)] /\ order \in Seq(Keys)
    /\ stream \in Streams
    /\ putTry \in Nat /\ createTry \in Nat /\ calls \in Nat

CloudOK == streams \subseteq Streams /\ stored \in [Keys -> Seq(Nat)] /\ lost \subseteq Nat

\* The type invariant, by who owns the state.
LEMMA TypeParts ==
    TypeOK <=> IntakeOK /\ UploaderOK /\ CloudOK /\ servicer \in {"ready", "dropped"}
                        /\ today \in Days
BY DEF TypeOK, IntakeOK, UploaderOK, CloudOK

LEMMA OwnKeyInKeys == OwnKey \in Keys
BY DEF OwnKey, Keys, LogGroupType

\* Putting one entry into a queue that is not full.
LEMMA AcceptType ==
    ASSUME IntakeOK, NEW key \in Keys, Accept(key), ~Full(queue)
    PROVE  IntakeOK'
<1>1. Len(accepted) + 1 \in Nat
  BY DEF IntakeOK
<1>2. [key |-> key, id |-> Len(accepted) + 1] \in Entry
  BY <1>1 DEF Entry
<1> QED
  BY <1>2 DEF IntakeOK, Accept, Full

LEMMA LogRecordType ==
    ASSUME IntakeOK, NEW level, LogRecord(level)
    PROVE  IntakeOK'
BY AcceptType, OwnKeyInKeys DEF LogRecord, IntakeOK, intake

\* The batch under way is a sequence of messages of a key.
LEMMA BatchType ==
    ASSUME TypeInv, pc \in {"putting", "creating"}
    PROVE  /\ Key \in Keys /\ stream[2] = Key
           /\ Batch \in Seq(Nat) /\ Range(Batch) \subseteq Nat
           /\ Tail(order) \in Seq(Keys)
BY DEF TypeInv, AtBatch, TypeOK, Key, Batch, Range

LEMMA NextBatchType ==
    ASSUME TypeInv, pc \in {"putting", "creating"}, NextBatch
    PROVE  /\ pc' = "uploading" /\ messageDict' \in [Keys -> Seq(Nat)]
           /\ order' \in Seq(Keys)
BY BatchType DEF NextBatch, TypeInv, TypeOK

LEMMA IngestType ==
    ASSUME TypeInv, pc = "putting", Ingest
    PROVE  stored' \in [Keys -> Seq(Nat)]
BY BatchType DEF Ingest, TypeInv, TypeOK

LEMMA CountCallType == ASSUME UploaderOK, CountCall PROVE calls' \in Nat
BY DEF UploaderOK, CountCall

\* A put that raised leaves the uploader at the batch or past it.
LEMMA PutRaisesType ==
    ASSUME TypeInv, pc = "creating", PutRaises, UNCHANGED stream
    PROVE  /\ pc' \in {"uploading", "putting"} /\ AtBatch'
           /\ messageDict' \in [Keys -> Seq(Nat)] /\ order' \in Seq(Keys)
           /\ putTry' \in Nat /\ lost' \subseteq Nat
<1>1. CASE PutAgain
  BY <1>1 DEF PutAgain, TypeInv, TypeOK, AtBatch
<1>2. CASE GiveUp
  BY <1>2, BatchType, NextBatchType DEF GiveUp, TypeInv, TypeOK, AtBatch
<1> QED
  BY <1>1, <1>2 DEF PutRaises

LEMMA TypeInit == Init => TypeInv
<1> SUFFICES ASSUME Init PROVE TypeInv
  OBVIOUS
<1>1. IntakeOK /\ UploaderOK /\ CloudOK
  BY DEF Init, IntakeOK, UploaderOK, CloudOK, Streams
<1> QED
  BY <1>1, TypeParts DEF Init, TypeInv, AtBatch

LEMMA TypeStep == TypeInv /\ [Next]_vars => TypeInv'
<1> SUFFICES ASSUME TypeInv, [Next]_vars PROVE TypeInv'
  OBVIOUS
<1>p. /\ TypeOK /\ AtBatch /\ IntakeOK /\ UploaderOK /\ CloudOK
      /\ servicer \in {"ready", "dropped"} /\ today \in Days
  BY TypeParts DEF TypeInv
<1>q. SUFFICES /\ IntakeOK' /\ UploaderOK' /\ CloudOK'
               /\ servicer' \in {"ready", "dropped"} /\ today' \in Days /\ AtBatch'
  BY DEF TypeInv, TypeOK, IntakeOK, UploaderOK, CloudOK
<1>1. ASSUME NEW ecu \in Suffixes, NEW logType \in LogType, PutLog(ecu, logType)
      PROVE  /\ IntakeOK' /\ UploaderOK' /\ CloudOK'
             /\ servicer' \in {"ready", "dropped"} /\ today' \in Days /\ AtBatch'
  <2>1. ~Full(queue)
    BY <1>1 DEF PutLog, PutLogCode
  <2>2. <<ConvertFromLogType(logType), ecu>> \in Keys
    BY DEF ConvertFromLogType, Keys, LogGroupType
  <2>3. IntakeOK'
    BY <1>1, <1>p, <2>1, <2>2, AcceptType DEF PutLog
  <2> QED
    BY <1>1, <1>p, <2>3 DEF PutLog, UploaderOK, CloudOK, AtBatch, uploader, cloud
<1>2. ASSUME NEW ecu \in Suffixes, PutLogFull(ecu)
      PROVE  /\ IntakeOK' /\ UploaderOK' /\ CloudOK'
             /\ servicer' \in {"ready", "dropped"} /\ today' \in Days /\ AtBatch'
  BY <1>2, <1>p DEF PutLogFull, IntakeOK, UploaderOK, CloudOK, AtBatch, intake, uploader, cloud
<1>3. CASE LogDropped
  BY <1>3, <1>p, LogRecordType DEF LogDropped, UploaderOK, CloudOK, AtBatch, uploader, cloud
<1>4. ASSUME NEW level, ServerLogs(level)
      PROVE  /\ IntakeOK' /\ UploaderOK' /\ CloudOK'
             /\ servicer' \in {"ready", "dropped"} /\ today' \in Days /\ AtBatch'
  BY <1>4, <1>p, AcceptType, OwnKeyInKeys
  DEF ServerLogs, UploaderOK, CloudOK, AtBatch, uploader, cloud
<1>5. CASE MergeGet
  <2>1. /\ Head(queue) \in Entry /\ Tail(queue) \in Seq(Entry)
        /\ Len(Tail(queue)) = Len(queue) - 1
    BY <1>5, <1>p, HeadTailProperties DEF MergeGet, IntakeOK
  <2>2. Head(queue).key \in Keys /\ Head(queue).id \in Nat
    BY <2>1 DEF Entry
  <2>3. IntakeOK'
    BY <1>5, <1>p, <2>1 DEF MergeGet, IntakeOK
  <2>4. messageDict' \in [Keys -> Seq(Nat)]
    BY <1>5, <1>p, <2>2 DEF MergeGet, UploaderOK
  <2>5. order' \in Seq(Keys)
    BY <1>5, <1>p, <2>2 DEF MergeGet, UploaderOK
  <2> QED
    BY <1>5, <1>p, <2>3, <2>4, <2>5 DEF MergeGet, UploaderOK, CloudOK, AtBatch, cloud
<1>6. CASE MergeEnd
  BY <1>6, <1>p DEF MergeEnd, IntakeOK, UploaderOK, CloudOK, AtBatch, intake, cloud
<1>7. CASE BeginPut
  <2>1. Key \in Keys
    BY <1>7, <1>p DEF BeginPut, Key, UploaderOK
  <2> QED
    BY <1>7, <1>p, <2>1
    DEF BeginPut, Key, IntakeOK, UploaderOK, CloudOK, AtBatch, Streams, intake, cloud
<1>8. CASE Sleep
  BY <1>8, <1>p DEF Sleep, IntakeOK, UploaderOK, CloudOK, AtBatch, intake, cloud
<1>9. CASE PutOk
  BY <1>9, <1>p, NextBatchType, IngestType, CountCallType
  DEF PutOk, IntakeOK, UploaderOK, CloudOK, AtBatch, intake
<1>10. CASE PutNotFound
  BY <1>10, <1>p, LogRecordType, CountCallType DEF PutNotFound, UploaderOK, CloudOK, AtBatch, cloud
<1>11. CASE PutFailed
  <2>1. IntakeOK' /\ UploaderOK' /\ AtBatch'
    BY <1>11, <1>p, LogRecordType, NextBatchType, CountCallType DEF PutFailed, UploaderOK, AtBatch
  <2>2. CloudOK'
    BY <1>11, <1>p, BatchType DEF PutFailed, CloudOK, cloud
  <2> QED
    BY <1>11, <1>p, <2>1, <2>2 DEF PutFailed
<1>12. CASE PutReplyLost
  BY <1>12, <1>p, LogRecordType, NextBatchType, IngestType, CountCallType
  DEF PutReplyLost, UploaderOK, CloudOK, AtBatch
<1>13. CASE CreateOk
  BY <1>13, <1>p, LogRecordType, PutRaisesType, CountCallType DEF CreateOk, UploaderOK, CloudOK
<1>14. CASE CreateExists
  BY <1>14, <1>p, LogRecordType, PutRaisesType, CountCallType
  DEF CreateExists, UploaderOK, CloudOK, cloud
<1>15. ASSUME NEW created \in BOOLEAN, CreateFailed(created)
       PROVE  /\ IntakeOK' /\ UploaderOK' /\ CloudOK'
              /\ servicer' \in {"ready", "dropped"} /\ today' \in Days /\ AtBatch'
  <2>1. IntakeOK' /\ streams' \subseteq Streams
    BY <1>15, <1>p, LogRecordType DEF CreateFailed, UploaderOK, CloudOK
  <2>2. CASE CreateAgain
    BY <1>15, <1>p, <2>1, <2>2, CountCallType
    DEF CreateFailed, CreateAgain, UploaderOK, CloudOK, AtBatch
  <2>3. CASE CreateRaises
    BY <1>15, <1>p, <2>1, <2>3, PutRaisesType, CountCallType
    DEF CreateFailed, CreateRaises, UploaderOK, CloudOK
  <2> QED
    BY <1>15, <2>2, <2>3 DEF CreateFailed
<1>16. CASE ClockMoves
  BY <1>16, <1>p DEF ClockMoves, IntakeOK, UploaderOK, CloudOK, AtBatch, intake, uploader, cloud
<1>17. CASE Restart
  <2>1. {queue[i].id : i \in DOMAIN queue} \subseteq Nat
    <3>1. \A i \in DOMAIN queue : queue[i] \in Entry
      BY <1>p, LenProperties, ElementOfSeq DEF IntakeOK
    <3> QED
      BY <3>1 DEF Entry
  <2>2. UNION {Range(messageDict[k]) : k \in Keys} \subseteq Nat
    BY <1>p DEF UploaderOK, Range
  <2>3. CloudOK'
    BY <1>17, <1>p, <2>1, <2>2 DEF Restart, CloudOK, cloud
  <2>4. IntakeOK' /\ UploaderOK' /\ AtBatch'
    BY <1>17, <1>p DEF Restart, IntakeOK, UploaderOK, AtBatch
  <2> QED
    BY <1>17, <1>p, <2>3, <2>4 DEF Restart
<1>18. CASE UNCHANGED vars
  BY <1>18, <1>p DEF vars, IntakeOK, UploaderOK, CloudOK, AtBatch, intake, uploader, cloud
<1> QED
  BY <1>1, <1>2, <1>3, <1>4, <1>5, <1>6, <1>7, <1>8, <1>9, <1>10, <1>11, <1>12, <1>13, <1>14,
     <1>15, <1>16, <1>17, <1>18
  DEF Next, Clients, Loggers, Uploader, Merging, Answers, Faults

\* Every state the server can reach is typed; in particular no interleaving of
\* the threads overfills the queue.
THEOREM TypeCorrect == Spec => []TypeOK
<1>1. TypeInv => TypeOK
  BY DEF TypeInv
<1> QED
  BY <1>1, TypeInit, TypeStep, PTL DEF Spec

----------------------------------------------------------------------------
(* Order and routing.  What makes StoredInOrder inductive is that the ids  *)
(* of a key only ever move forward, from the queue to the merged batch to  *)
(* the log stream, and that each stage holds older messages than the one   *)
(* before it.                                                              *)

QueueSound ==
    /\ \A i \in 1 .. Len(queue) : /\ queue[i].id \in 1 .. Len(accepted)
                                  /\ accepted[queue[i].id] = queue[i].key
    /\ \A i, j \in 1 .. Len(queue) : i < j => queue[i].id < queue[j].id

MergedSound ==
    \A k \in Keys : \A i \in 1 .. Len(messageDict[k]) :
        /\ messageDict[k][i] \in 1 .. Len(accepted)
        /\ accepted[messageDict[k][i]] = k
        /\ \A j \in 1 .. Len(messageDict[k]) : i < j => messageDict[k][i] < messageDict[k][j]
        /\ \A j \in 1 .. Len(queue) : messageDict[k][i] < queue[j].id

StoredSound ==
    \A k \in Keys : \A i \in 1 .. Len(stored[k]) :
        /\ stored[k][i] \in 1 .. Len(accepted)
        /\ accepted[stored[k][i]] = k
        /\ \A j \in 1 .. Len(stored[k]) : i < j => stored[k][i] < stored[k][j]
        /\ \A j \in 1 .. Len(messageDict[k]) : stored[k][i] < messageDict[k][j]
        /\ \A j \in 1 .. Len(queue) : stored[k][i] < queue[j].id

FlowInv == QueueSound /\ MergedSound /\ StoredSound

(* Every step of the server is one of five kinds, as far as the messages   *)
(* are concerned.                                                          *)

\* The keys that entries arrive with: the server's own, and those of known ECUs.
Allowed(key) == key = OwnKey \/ ~Filtered(key[2])

Arrive ==
    \/ UNCHANGED intake
    \/ ~Full(queue) /\ \E key \in Keys : Allowed(key) /\ Accept(key)

\* Messages stay where they are; a merge may end that left nothing.
Stay ==
    /\ Arrive /\ UNCHANGED <<messageDict, order, stored, lost>>
    /\ mergeCount' = mergeCount \/ (order = <<>> /\ mergeCount' = 0)

\* The batch under way leaves the process, lost...
BatchLost ==
    /\ Arrive /\ order # <<>> /\ Key \in Keys
    /\ messageDict' = [messageDict EXCEPT ![Key] = <<>>] /\ order' = Tail(order)
    /\ lost' = lost \cup Range(Batch) /\ UNCHANGED <<stored, mergeCount>>

\* ...or ingested.
BatchStored ==
    /\ Arrive /\ order # <<>> /\ Key \in Keys
    /\ messageDict' = [messageDict EXCEPT ![Key] = <<>>] /\ order' = Tail(order)
    /\ stored' = [stored EXCEPT ![Key] = @ \o Batch] /\ UNCHANGED <<lost, mergeCount>>

LEMMA LogRecordArrives == ASSUME NEW level, LogRecord(level) PROVE Arrive
BY OwnKeyInKeys DEF LogRecord, Arrive, Allowed

LEMMA PutRaisesKind ==
    ASSUME TypeInv, pc = "creating", PutRaises, Arrive, UNCHANGED <<stored, mergeCount>>
    PROVE  Stay \/ BatchLost
<1>1. CASE PutAgain
  BY <1>1 DEF PutAgain, Stay
<1>2. CASE GiveUp
  BY <1>2, BatchType DEF GiveUp, NextBatch, BatchLost, TypeInv, AtBatch
<1> QED
  BY <1>1, <1>2 DEF PutRaises

LEMMA StepKinds ==
    ASSUME TypeInv, [Next]_vars
    PROVE  Stay \/ BatchLost \/ BatchStored \/ MergeGet \/ Restart
<1>1. ASSUME NEW ecu \in Suffixes, NEW logType \in LogType, PutLog(ecu, logType)
      PROVE  Stay
  <2>1. ~Full(queue)
    BY <1>1 DEF PutLog, PutLogCode
  <2>2. <<ConvertFromLogType(logType), ecu>> \in Keys
    BY DEF ConvertFromLogType, Keys, LogGroupType
  <2>3. Allowed(<<ConvertFromLogType(logType), ecu>>)
    BY <1>1 DEF PutLog, PutLogCode, Allowed
  <2> QED
    BY <1>1, <2>1, <2>2, <2>3 DEF PutLog, Stay, Arrive, uploader, cloud
<1>2. ASSUME NEW ecu \in Suffixes, PutLogFull(ecu)
      PROVE  Stay
  BY <1>2 DEF PutLogFull, Stay, Arrive, uploader, cloud
<1>3. CASE LogDropped
  BY <1>3, LogRecordArrives DEF LogDropped, Stay, uploader, cloud
<1>4. ASSUME NEW level, ServerLogs(level)
      PROVE  Stay
  BY <1>4, OwnKeyInKeys DEF ServerLogs, Stay, Arrive, Allowed, uploader, cloud
<1>5. CASE MergeEnd
  BY <1>5 DEF MergeEnd, Stay, Arrive, cloud
<1>6. CASE BeginPut
  BY <1>6 DEF BeginPut, Stay, Arrive, cloud
<1>7. CASE Sleep
  BY <1>7 DEF Sleep, Stay, Arrive, cloud
<1>8. CASE PutOk
  BY <1>8, BatchType DEF PutOk, Ingest, NextBatch, BatchStored, Arrive, TypeInv, AtBatch
<1>9. CASE PutNotFound
  BY <1>9, LogRecordArrives DEF PutNotFound, Stay, cloud
<1>10. CASE PutFailed
  BY <1>10, BatchType, LogRecordArrives DEF PutFailed, NextBatch, BatchLost, TypeInv, AtBatch, cloud
<1>11. CASE PutReplyLost
  BY <1>11, BatchType, LogRecordArrives
  DEF PutReplyLost, Ingest, NextBatch, BatchStored, TypeInv, AtBatch
<1>12. CASE CreateOk
  BY <1>12, PutRaisesKind, LogRecordArrives DEF CreateOk
<1>13. CASE CreateExists
  BY <1>13, PutRaisesKind, LogRecordArrives DEF CreateExists, cloud
<1>14. ASSUME NEW created \in BOOLEAN, CreateFailed(created)
       PROVE  Stay \/ BatchLost
  <2>1. Arrive /\ UNCHANGED <<stored, mergeCount>>
    BY <1>14, LogRecordArrives DEF CreateFailed
  <2>2. CASE CreateAgain
    BY <2>1, <2>2 DEF CreateAgain, Stay
  <2>3. CASE CreateRaises
    BY <1>14, <2>1, <2>3, PutRaisesKind DEF CreateRaises, CreateFailed
  <2> QED
    BY <1>14, <2>2, <2>3 DEF CreateFailed
<1>15. CASE ClockMoves
  BY <1>15 DEF ClockMoves, Stay, Arrive, uploader, cloud
<1>16. CASE UNCHANGED vars
  BY <1>16 DEF vars, Stay, Arrive, uploader, cloud
<1> QED
  BY <1>1, <1>2, <1>3, <1>4, <1>5, <1>6, <1>7, <1>8, <1>9, <1>10, <1>11, <1>12, <1>13, <1>14,
     <1>15, <1>16
  DEF Next, Clients, Loggers, Uploader, Merging, Answers, Faults

(* How the queue and the history of acceptances change in a step.          *)

\* What was accepted keeps its number and its key.
LEMMA AcceptedGrows ==
    ASSUME TypeInv, Arrive
    PROVE  /\ Len(accepted') >= Len(accepted) /\ Len(accepted') \in Nat
           /\ \A n \in 1 .. Len(accepted) : n \in 1 .. Len(accepted') /\ accepted'[n] = accepted[n]
<1>t. accepted \in Seq(Keys) /\ Len(accepted) \in Nat
  BY DEF TypeInv, TypeOK
<1>1. CASE UNCHANGED intake
  BY <1>1, <1>t DEF intake
<1>2. ASSUME NEW key \in Keys, Accept(key)
      PROVE  /\ Len(accepted') >= Len(accepted) /\ Len(accepted') \in Nat
             /\ \A n \in 1 .. Len(accepted) : /\ n \in 1 .. Len(accepted')
                                              /\ accepted'[n] = accepted[n]
  BY <1>2, <1>t DEF Accept
<1> QED
  BY <1>1, <1>2 DEF Arrive

\* What is queued afterwards was queued before at the same place, or is new.
LEMMA QueueGrows ==
    ASSUME TypeInv, Arrive, NEW i \in 1 .. Len(queue')
    PROVE  \/ i \in 1 .. Len(queue) /\ queue'[i] = queue[i]
           \/ /\ i = Len(queue) + 1 /\ Len(queue') = i
              /\ Len(accepted') = Len(accepted) + 1
              /\ queue'[i].id = Len(accepted) + 1
              /\ accepted'[Len(accepted) + 1] = queue'[i].key
<1>t. accepted \in Seq(Keys) /\ Len(accepted) \in Nat /\ queue \in Seq(Entry) /\ Len(queue) \in Nat
  BY DEF TypeInv, TypeOK
<1>1. CASE UNCHANGED intake
  BY <1>1, <1>t DEF intake
<1>2. ASSUME NEW key \in Keys, Accept(key)
      PROVE  \/ i \in 1 .. Len(queue) /\ queue'[i] = queue[i]
             \/ /\ i = Len(queue) + 1 /\ Len(queue') = i
                /\ Len(accepted') = Len(accepted) + 1
                /\ queue'[i].id = Len(accepted) + 1
                /\ accepted'[Len(accepted) + 1] = queue'[i].key
  <2>1. [key |-> key, id |-> Len(accepted) + 1] \in Entry
    BY <1>t DEF Entry
  <2> QED
    BY <1>2, <1>t, <2>1 DEF Accept
<1> QED
  BY <1>1, <1>2 DEF Arrive

LEMMA ArriveSound ==
    ASSUME TypeInv, FlowInv, Arrive
    PROVE  QueueSound'
<1>t. /\ Len(accepted) \in Nat /\ Len(queue) \in Nat
      /\ \A i \in 1 .. Len(queue) : queue[i].id \in Nat
  <2>1. queue \in Seq(Entry) /\ accepted \in Seq(Keys)
    BY DEF TypeInv, TypeOK
  <2>2. \A i \in 1 .. Len(queue) : queue[i] \in Entry
    BY <2>1, ElementOfSeq
  <2> QED
    BY <2>1, <2>2 DEF Entry
<1>1. ASSUME NEW i \in 1 .. Len(queue')
      PROVE  queue'[i].id \in 1 .. Len(accepted') /\ accepted'[queue'[i].id] = queue'[i].key
  BY <1>1, <1>t, AcceptedGrows, QueueGrows DEF FlowInv, QueueSound
<1>2. ASSUME NEW i \in 1 .. Len(queue'), NEW j \in 1 .. Len(queue'), i < j
      PROVE  queue'[i].id < queue'[j].id
  BY <1>2, <1>t, QueueGrows DEF FlowInv, QueueSound
<1> QED
  BY <1>1, <1>2 DEF QueueSound

\* A message that is older than the queue stays older than it.
LEMMA OlderThanQueue ==
    ASSUME TypeInv, Arrive, NEW n \in 1 .. Len(accepted),
           \A j \in 1 .. Len(queue) : n < queue[j].id
    PROVE  /\ n \in 1 .. Len(accepted') /\ accepted'[n] = accepted[n]
           /\ \A j \in 1 .. Len(queue') : n < queue'[j].id
<1>t. Len(accepted) \in Nat
  BY DEF TypeInv, TypeOK
<1> QED
  BY <1>t, AcceptedGrows, QueueGrows

(* Each kind of step keeps the flow in order.                              *)

LEMMA StaySound == ASSUME TypeInv, FlowInv, Stay PROVE FlowInv'
<1>1. QueueSound'
  BY ArriveSound DEF Stay
<1>2. MergedSound'
  BY OlderThanQueue DEF Stay, FlowInv, MergedSound
<1>3. StoredSound'
  BY OlderThanQueue DEF Stay, FlowInv, StoredSound
<1> QED
  BY <1>1, <1>2, <1>3 DEF FlowInv

\* Emptying the batch under way disturbs no other key.
LEMMA EmptiedBatch ==
    ASSUME TypeInv, Key \in Keys, messageDict' = [messageDict EXCEPT ![Key] = <<>>],
           NEW k \in Keys, NEW i \in 1 .. Len(messageDict'[k])
    PROVE  k # Key /\ messageDict'[k] = messageDict[k]
<1>1. messageDict \in [Keys -> Seq(Nat)]
  BY DEF TypeInv, TypeOK
<1> QED
  BY <1>1

LEMMA EmptiedSound ==
    ASSUME TypeInv, FlowInv, Arrive, Key \in Keys,
           messageDict' = [messageDict EXCEPT ![Key] = <<>>]
    PROVE  MergedSound'
<1> SUFFICES ASSUME NEW k \in Keys, NEW i \in 1 .. Len(messageDict'[k])
             PROVE  /\ messageDict'[k][i] \in 1 .. Len(accepted')
                    /\ accepted'[messageDict'[k][i]] = k
                    /\ \A j \in 1 .. Len(messageDict'[k]) :
                           i < j => messageDict'[k][i] < messageDict'[k][j]
                    /\ \A j \in 1 .. Len(queue') : messageDict'[k][i] < queue'[j].id
  BY DEF MergedSound
<1>1. messageDict'[k] = messageDict[k]
  BY EmptiedBatch
<1>2. /\ messageDict[k][i] \in 1 .. Len(accepted)
      /\ accepted[messageDict[k][i]] = k
      /\ \A j \in 1 .. Len(messageDict[k]) : i < j => messageDict[k][i] < messageDict[k][j]
      /\ \A j \in 1 .. Len(queue) : messageDict[k][i] < queue[j].id
  BY <1>1 DEF FlowInv, MergedSound
<1> QED
  BY <1>1, <1>2, OlderThanQueue

LEMMA BatchLostSound == ASSUME TypeInv, FlowInv, BatchLost PROVE FlowInv'
<1>1. QueueSound'
  BY ArriveSound DEF BatchLost
<1>2. MergedSound'
  BY EmptiedSound DEF BatchLost
<1>3. StoredSound'
  BY OlderThanQueue, EmptiedBatch DEF BatchLost, FlowInv, StoredSound
<1> QED
  BY <1>1, <1>2, <1>3 DEF FlowInv

LEMMA BatchStoredSound == ASSUME TypeInv, FlowInv, BatchStored PROVE FlowInv'
<1>1. QueueSound'
  BY ArriveSound DEF BatchStored
<1>2. MergedSound'
  BY EmptiedSound DEF BatchStored
<1>3. ASSUME NEW k \in Keys, k # Key
      PROVE  stored'[k] = stored[k] /\ messageDict'[k] = messageDict[k]
  BY <1>3 DEF BatchStored, TypeInv, TypeOK
<1>4. /\ stored[Key] \in Seq(Nat) /\ Batch \in Seq(Nat)
      /\ stored'[Key] = stored[Key] \o Batch /\ messageDict'[Key] = <<>>
  BY DEF BatchStored, Batch, TypeInv, TypeOK
<1>5. ASSUME NEW i \in 1 .. Len(stored'[Key])
      PROVE  \/ i \in 1 .. Len(stored[Key]) /\ stored'[Key][i] = stored[Key][i]
             \/ /\ i > Len(stored[Key]) /\ i - Len(stored[Key]) \in 1 .. Len(Batch)
                /\ stored'[Key][i] = Batch[i - Len(stored[Key])]
  BY <1>4, <1>5, ConcatProperties
<1>6. ASSUME NEW i \in 1 .. Len(stored'[Key])
      PROVE  /\ stored'[Key][i] \in 1 .. Len(accepted)
             /\ accepted[stored'[Key][i]] = Key
             /\ \A j \in 1 .. Len(queue) : stored'[Key][i] < queue[j].id
  BY <1>5 DEF FlowInv, StoredSound, MergedSound, Batch, BatchStored
<1>7. ASSUME NEW i \in 1 .. Len(stored'[Key]), NEW j \in 1 .. Len(stored'[Key]), i < j
      PROVE  stored'[Key][i] < stored'[Key][j]
  <2>1. CASE j \in 1 .. Len(stored[Key]) /\ stored'[Key][j] = stored[Key][j]
    BY <1>4, <1>5, <1>7, <2>1 DEF FlowInv, StoredSound, BatchStored
  <2>2. CASE /\ j > Len(stored[Key]) /\ j - Len(stored[Key]) \in 1 .. Len(Batch)
             /\ stored'[Key][j] = Batch[j - Len(stored[Key])]
    <3>1. CASE i \in 1 .. Len(stored[Key]) /\ stored'[Key][i] = stored[Key][i]
      BY <2>2, <3>1 DEF FlowInv, StoredSound, BatchStored, Batch
    <3>2. CASE /\ i > Len(stored[Key]) /\ i - Len(stored[Key]) \in 1 .. Len(Batch)
               /\ stored'[Key][i] = Batch[i - Len(stored[Key])]
      <4>1. i - Len(stored[Key]) < j - Len(stored[Key])
        BY <1>4, <1>7
      <4> QED
        BY <2>2, <3>2, <4>1 DEF FlowInv, MergedSound, BatchStored, Batch
    <3> QED
      BY <1>5, <3>1, <3>2
  <2> QED
    BY <1>5, <2>1, <2>2
<1>8. ASSUME NEW k \in Keys, NEW i \in 1 .. Len(stored'[k])
      PROVE  /\ stored'[k][i] \in 1 .. Len(accepted')
             /\ accepted'[stored'[k][i]] = k
             /\ \A j \in 1 .. Len(queue') : stored'[k][i] < queue'[j].id
             /\ \A j \in 1 .. Len(messageDict'[k]) : stored'[k][i] < messageDict'[k][j]
             /\ \A j \in 1 .. Len(stored'[k]) : i < j => stored'[k][i] < stored'[k][j]
  <2>1. CASE k = Key
    <3>1. /\ stored'[k][i] \in 1 .. Len(accepted') /\ accepted'[stored'[k][i]] = k
          /\ \A j \in 1 .. Len(queue') : stored'[k][i] < queue'[j].id
      BY <1>6, <1>8, <2>1, OlderThanQueue DEF BatchStored
    <3>2. Len(messageDict'[k]) = 0
      BY <1>4, <2>1
    <3> QED
      BY <1>7, <1>8, <2>1, <3>1, <3>2
  <2>2. CASE k # Key
    <3>1. stored'[k] = stored[k] /\ messageDict'[k] = messageDict[k]
      BY <1>3, <2>2
    <3>2. /\ stored[k][i] \in 1 .. Len(accepted) /\ accepted[stored[k][i]] = k
          /\ \A j \in 1 .. Len(stored[k]) : i < j => stored[k][i] < stored[k][j]
          /\ \A j \in 1 .. Len(messageDict[k]) : stored[k][i] < messageDict[k][j]
          /\ \A j \in 1 .. Len(queue) : stored[k][i] < queue[j].id
      BY <1>8, <3>1 DEF FlowInv, StoredSound
    <3> QED
      BY <3>1, <3>2, OlderThanQueue DEF BatchStored
  <2> QED
    BY <2>1, <2>2
<1>9. StoredSound'
  BY <1>8 DEF StoredSound
<1> QED
  BY <1>1, <1>2, <1>9 DEF FlowInv

\* The oldest entry of the queue becomes the newest message merged.
LEMMA MergeGetSound == ASSUME TypeInv, FlowInv, MergeGet PROVE FlowInv'
<1> DEFINE entry == Head(queue)
<1>1. /\ queue \in Seq(Entry) /\ Len(queue) \in Nat \ {0} /\ entry = queue[1] /\ entry \in Entry
      /\ entry.key \in Keys /\ entry.id \in Nat
      /\ Len(queue') = Len(queue) - 1
      /\ \A i \in 1 .. Len(queue') : i + 1 \in 1 .. Len(queue) /\ queue'[i] = queue[i + 1]
  <2>1. queue \in Seq(Entry) /\ queue # <<>> /\ queue' = Tail(queue)
    BY DEF MergeGet, TypeInv, TypeOK
  <2>2. Len(queue) \in Nat \ {0} /\ entry = queue[1]
    BY <2>1, EmptySeq
  <2>3. entry \in Entry /\ Len(queue') = Len(queue) - 1
        /\ \A i \in 1 .. Len(queue') : queue'[i] = queue[i + 1]
    BY <2>1, HeadTailProperties
  <2> QED
    BY <2>1, <2>2, <2>3 DEF Entry
<1>2. /\ entry.id \in 1 .. Len(accepted) /\ accepted[entry.id] = entry.key
      /\ \A i \in 1 .. Len(queue') : entry.id < queue'[i].id
  <2>1. 1 \in 1 .. Len(queue)
    BY <1>1
  <2>2. entry.id \in 1 .. Len(accepted) /\ accepted[entry.id] = entry.key
    BY <1>1, <2>1 DEF FlowInv, QueueSound
  <2>3. ASSUME NEW i \in 1 .. Len(queue')
        PROVE  entry.id < queue'[i].id
    <3>1. i + 1 \in 1 .. Len(queue) /\ 1 < i + 1 /\ queue'[i] = queue[i + 1]
      BY <1>1
    <3> QED
      BY <1>1, <2>1, <3>1 DEF FlowInv, QueueSound
  <2> QED
    BY <2>2, <2>3
<1>3. accepted' = accepted /\ stored' = stored
  BY DEF MergeGet, cloud
<1>4. \A k \in Keys : \A i \in 1 .. Len(messageDict'[k]) :
        \/ i \in 1 .. Len(messageDict[k]) /\ messageDict'[k][i] = messageDict[k][i]
        \/ k = entry.key /\ i = Len(messageDict[k]) + 1 /\ messageDict'[k][i] = entry.id
           /\ Len(messageDict'[k]) = i
  <2>1. messageDict \in [Keys -> Seq(Nat)]
    BY DEF TypeInv, TypeOK
  <2>2. messageDict' = [messageDict EXCEPT ![entry.key] = Append(@, entry.id)]
    BY DEF MergeGet
  <2> QED
    BY <1>1, <2>1, <2>2
<1>5. QueueSound'
  <2>1. ASSUME NEW i \in 1 .. Len(queue')
        PROVE  queue'[i].id \in 1 .. Len(accepted') /\ accepted'[queue'[i].id] = queue'[i].key
    BY <1>1, <1>3, <2>1 DEF FlowInv, QueueSound
  <2>2. ASSUME NEW i \in 1 .. Len(queue'), NEW j \in 1 .. Len(queue'), i < j
        PROVE  queue'[i].id < queue'[j].id
    <3>1. i + 1 \in 1 .. Len(queue) /\ j + 1 \in 1 .. Len(queue) /\ i + 1 < j + 1
      BY <1>1, <2>2
    <3> QED
      BY <1>1, <3>1 DEF FlowInv, QueueSound
  <2> QED
    BY <2>1, <2>2 DEF QueueSound
<1>6. ASSUME NEW k \in Keys, NEW i \in 1 .. Len(messageDict'[k])
      PROVE  /\ messageDict'[k][i] \in 1 .. Len(accepted')
             /\ accepted'[messageDict'[k][i]] = k
             /\ \A j \in 1 .. Len(queue') : messageDict'[k][i] < queue'[j].id
  <2>1. CASE i \in 1 .. Len(messageDict[k]) /\ messageDict'[k][i] = messageDict[k][i]
    <3>1. /\ messageDict[k][i] \in 1 .. Len(accepted) /\ accepted[messageDict[k][i]] = k
          /\ \A j \in 1 .. Len(queue) : messageDict[k][i] < queue[j].id
      BY <2>1 DEF FlowInv, MergedSound
    <3> QED
      BY <1>1, <1>3, <2>1, <3>1
  <2>2. CASE k = entry.key /\ messageDict'[k][i] = entry.id
    BY <1>2, <1>3, <2>2
  <2> QED
    BY <1>4, <1>6, <2>1, <2>2
<1>7. ASSUME NEW k \in Keys, NEW i \in 1 .. Len(messageDict'[k]),
             NEW j \in 1 .. Len(messageDict'[k]), i < j
      PROVE  messageDict'[k][i] < messageDict'[k][j]
  <2>1. i \in 1 .. Len(messageDict[k]) /\ messageDict'[k][i] = messageDict[k][i]
    BY <1>4, <1>7
  <2>2. CASE j \in 1 .. Len(messageDict[k]) /\ messageDict'[k][j] = messageDict[k][j]
    BY <1>7, <2>1, <2>2 DEF FlowInv, MergedSound
  <2>3. CASE messageDict'[k][j] = entry.id
    BY <1>1, <2>1, <2>3 DEF FlowInv, MergedSound
  <2> QED
    BY <1>4, <2>2, <2>3
<1>8. MergedSound'
  BY <1>6, <1>7 DEF MergedSound
<1>9. ASSUME NEW k \in Keys, NEW i \in 1 .. Len(stored[k])
      PROVE  /\ \A j \in 1 .. Len(messageDict'[k]) : stored[k][i] < messageDict'[k][j]
             /\ \A j \in 1 .. Len(queue') : stored[k][i] < queue'[j].id
  <2>1. /\ \A j \in 1 .. Len(messageDict[k]) : stored[k][i] < messageDict[k][j]
        /\ \A j \in 1 .. Len(queue) : stored[k][i] < queue[j].id
    BY <1>9 DEF FlowInv, StoredSound
  <2>2. 1 \in 1 .. Len(queue)
    BY <1>1
  <2>3. stored[k][i] < entry.id
    BY <1>1, <2>1, <2>2
  <2> QED
    BY <1>1, <1>4, <2>1, <2>3
<1>10. StoredSound'
  BY <1>3, <1>9 DEF FlowInv, StoredSound
<1> QED
  BY <1>5, <1>8, <1>10 DEF FlowInv

LEMMA RestartSound == ASSUME TypeInv, FlowInv, Restart PROVE FlowInv'
<1>1. /\ Len(queue') = 0 /\ \A k \in Keys : Len(messageDict'[k]) = 0
      /\ accepted' = accepted /\ stored' = stored
  BY DEF Restart, cloud
<1> QED
  BY <1>1 DEF FlowInv, QueueSound, MergedSound, StoredSound

LEMMA FlowInit == Init => FlowInv
BY DEF Init, FlowInv, QueueSound, MergedSound, StoredSound

LEMMA FlowStep == TypeInv /\ FlowInv /\ [Next]_vars => FlowInv'
BY StepKinds, StaySound, BatchLostSound, BatchStoredSound, MergeGetSound, RestartSound

LEMMA FlowCorrect == Spec => [](TypeInv /\ FlowInv)
BY TypeInit, TypeStep, FlowInit, FlowStep, PTL DEF Spec

\* For each key the cloud holds the messages in the order they were accepted and
\* none twice, whatever interleaving, failure, midnight or restart.
THEOREM OrderCorrect == Spec => []StoredInOrder
<1>1. TypeInv /\ FlowInv => StoredInOrder
  <2> SUFFICES ASSUME TypeInv, FlowInv, NEW k \in Keys,
                      NEW i \in DOMAIN stored[k], NEW j \in DOMAIN stored[k], i < j
               PROVE  stored[k][i] < stored[k][j]
    BY DEF StoredInOrder
  <2>1. DOMAIN stored[k] = 1 .. Len(stored[k])
    BY LenProperties DEF TypeInv, TypeOK
  <2> QED
    BY <2>1 DEF FlowInv, StoredSound
<1> QED
  BY <1>1, FlowCorrect, PTL

\* No message is ever stored in a stream of another ECU or group.
THEOREM RoutingCorrect == Spec => []RoutedToOwnStream
<1>1. TypeInv /\ FlowInv => RoutedToOwnStream
  <2> SUFFICES ASSUME TypeInv, FlowInv, NEW k \in Keys, NEW i \in DOMAIN stored[k]
               PROVE  stored[k][i] \in DOMAIN accepted /\ accepted[stored[k][i]] = k
    BY DEF RoutedToOwnStream
  <2>1. DOMAIN stored[k] = 1 .. Len(stored[k]) /\ DOMAIN accepted = 1 .. Len(accepted)
    BY LenProperties DEF TypeInv, TypeOK
  <2> QED
    BY <2>1 DEF FlowInv, StoredSound
<1> QED
  BY <1>1, FlowCorrect, PTL

(* The places of Accounted, by position.                                   *)

LEMMA InQueued ==
    ASSUME queue \in Seq(Entry), NEW n
    PROVE  n \in Queued <=> \E i \in 1 .. Len(queue) : n = queue[i].id
BY LenProperties DEF Queued

LEMMA InMerged ==
    ASSUME messageDict \in [Keys -> Seq(Nat)], NEW n
    PROVE  n \in Merged <=> \E k \in Keys : \E i \in 1 .. Len(messageDict[k]) : n = messageDict[k][i]
<1>1. \A k \in Keys : DOMAIN messageDict[k] = 1 .. Len(messageDict[k])
  BY LenProperties
<1> QED
  BY <1>1 DEF Merged, Range

LEMMA InStored ==
    ASSUME stored \in [Keys -> Seq(Nat)], NEW n
    PROVE  n \in Stored <=> \E k \in Keys : \E i \in 1 .. Len(stored[k]) : n = stored[k][i]
<1>1. \A k \in Keys : DOMAIN stored[k] = 1 .. Len(stored[k])
  BY LenProperties
<1> QED
  BY <1>1 DEF Stored, Range
============================================================================
