----------------------- MODULE LogPipelineFifoProofs -----------------------
(***************************************************************************)
(* Where the messages of LogPipeline are.                                  *)
(*                                                                         *)
(* Accounting: no message is forgotten or in two places.  That none is in  *)
(* two stages of the flow follows from its order; AccountInv says where    *)
(* the lost ones are not.                                                  *)
(*                                                                         *)
(* Refinement: LogPipeline implements LossyFifo: every step of the server  *)
(* is a step of the lossy FIFO channel, or changes nothing of it.          *)
(***************************************************************************)
EXTENDS LogPipelineProofs

USE SuffixAssumption, BacklogAssumption, MergeAssumption, RetryAssumption,
    LevelAssumption, BoundsAssumption

----------------------------------------------------------------------------
(* Accounting.                                                             *)

AccountInv ==
    /\ Queued \cup Merged \cup Stored \cup lost = 1 .. Len(accepted)
    /\ (Queued \cup Merged \cup Stored) \cap lost = {}

\* No message is in two stages of the flow.
LEMMA StagesApart ==
    ASSUME TypeOK, FlowInv
    PROVE  /\ Queued \cap Merged = {} /\ Queued \cap Stored = {} /\ Merged \cap Stored = {}
<1>t. /\ queue \in Seq(Entry) /\ messageDict \in [Keys -> Seq(Nat)] /\ stored \in [Keys -> Seq(Nat)]
  BY DEF TypeOK
<1>1. ASSUME NEW n \in Queued, n \in Merged PROVE FALSE
  <2>1. PICK i \in 1 .. Len(queue) : n = queue[i].id
    BY <1>t, InQueued
  <2>2. PICK k \in Keys : \E j \in 1 .. Len(messageDict[k]) : n = messageDict[k][j]
    BY <1>t, <1>1, InMerged
  <2>3. n \in 1 .. Len(accepted) /\ n < n
    BY <2>1, <2>2 DEF FlowInv, MergedSound
  <2> QED
    BY <2>3
<1>2. ASSUME NEW n \in Queued, n \in Stored PROVE FALSE
  <2>1. PICK i \in 1 .. Len(queue) : n = queue[i].id
    BY <1>t, InQueued
  <2>2. PICK k \in Keys : \E j \in 1 .. Len(stored[k]) : n = stored[k][j]
    BY <1>t, <1>2, InStored
  <2>3. n \in 1 .. Len(accepted) /\ n < n
    BY <2>1, <2>2 DEF FlowInv, StoredSound
  <2> QED
    BY <2>3
<1>3. ASSUME NEW n \in Merged, n \in Stored PROVE FALSE
  <2>1. PICK k \in Keys : \E i \in 1 .. Len(messageDict[k]) : n = messageDict[k][i]
    BY <1>t, InMerged
  <2>2. PICK i \in 1 .. Len(messageDict[k]) : n = messageDict[k][i]
    BY <2>1
  <2>3. PICK m \in Keys : \E j \in 1 .. Len(stored[m]) : n = stored[m][j]
    BY <1>t, <1>3, InStored
  <2>4. PICK j \in 1 .. Len(stored[m]) : n = stored[m][j]
    BY <2>3
  <2>5. accepted[n] = k
    BY <2>2 DEF FlowInv, MergedSound
  <2>6. accepted[n] = m /\ n \in 1 .. Len(accepted)
    BY <2>4 DEF FlowInv, StoredSound
  <2>7. stored[k][j] < messageDict[k][i]
    BY <2>2, <2>4, <2>5, <2>6 DEF FlowInv, StoredSound
  <2> QED
    BY <2>2, <2>4, <2>5, <2>6, <2>7
<1> QED
  BY <1>1, <1>2, <1>3

(* How the places change in each kind of step.                             *)

LEMMA ArrivePlaces ==
    ASSUME TypeInv, Arrive
    PROVE  \/ Queued' = Queued /\ Len(accepted') = Len(accepted)
           \/ /\ Queued' = Queued \cup {Len(accepted) + 1}
              /\ Len(accepted') = Len(accepted) + 1
<1>t. /\ accepted \in Seq(Keys) /\ Len(accepted) \in Nat
      /\ queue \in Seq(Entry) /\ Len(queue) \in Nat
  BY DEF TypeInv, TypeOK
<1>1. CASE UNCHANGED intake
  BY <1>1 DEF intake, Queued
<1>2. ASSUME NEW key \in Keys, Accept(key)
      PROVE  Queued' = Queued \cup {Len(accepted) + 1} /\ Len(accepted') = Len(accepted) + 1
  <2> DEFINE entry == [key |-> key, id |-> Len(accepted) + 1]
  <2>1. entry \in Entry /\ entry.id = Len(accepted) + 1
    BY <1>t DEF Entry
  <2>2. queue' = Append(queue, entry) /\ Len(accepted') = Len(accepted) + 1
    BY <1>2, <1>t DEF Accept
  <2> HIDE DEF entry
  <2>3. /\ queue' \in Seq(Entry) /\ Len(queue') = Len(queue) + 1
        /\ \A i \in 1 .. Len(queue) : queue'[i] = queue[i]
        /\ queue'[Len(queue) + 1] = entry
    BY <1>t, <2>1, <2>2
  <2>4. DOMAIN queue' = 1 .. Len(queue) + 1 /\ DOMAIN queue = 1 .. Len(queue)
    BY <1>t, <2>3, LenProperties
  <2>5. DOMAIN queue' = DOMAIN queue \cup {Len(queue) + 1}
    BY <1>t, <2>4
  <2>6. Queued' = Queued \cup {Len(accepted) + 1}
    BY <2>1, <2>3, <2>4, <2>5 DEF Queued
  <2> QED
    BY <2>2, <2>6
<1> QED
  BY <1>1, <1>2 DEF Arrive

LEMMA EmptiedPlaces ==
    ASSUME TypeInv, FlowInv, Key \in Keys, messageDict' = [messageDict EXCEPT ![Key] = <<>>]
    PROVE  Merged = Merged' \cup Range(Batch) /\ Merged' \cap Range(Batch) = {}
<1>t. messageDict \in [Keys -> Seq(Nat)] /\ messageDict' \in [Keys -> Seq(Nat)]
      /\ Batch = messageDict[Key] /\ DOMAIN Batch = 1 .. Len(Batch)
  BY LenProperties DEF TypeInv, TypeOK, Batch
<1>1. \A k \in Keys : k # Key => messageDict'[k] = messageDict[k]
  BY <1>t
<1>2. Range(messageDict'[Key]) = {}
  BY <1>t DEF Range
<1>3. Merged = Merged' \cup Range(Batch)
  BY <1>t, <1>1, <1>2 DEF Merged
<1>4. ASSUME NEW n \in Merged', n \in Range(Batch) PROVE FALSE
  <2>1. PICK k \in Keys : n \in Range(messageDict'[k])
    BY DEF Merged
  <2>2. k # Key /\ n \in Range(messageDict[k])
    BY <1>1, <1>2, <2>1
  <2>3. DOMAIN messageDict[k] = 1 .. Len(messageDict[k])
    BY <1>t, LenProperties
  <2>4. accepted[n] = k
    BY <2>2, <2>3 DEF Range, FlowInv, MergedSound
  <2>5. accepted[n] = Key
    BY <1>t, <1>4 DEF Range, FlowInv, MergedSound
  <2> QED
    BY <2>2, <2>4, <2>5
<1> QED
  BY <1>3, <1>4

LEMMA IngestedPlaces ==
    ASSUME TypeInv, Key \in Keys, stored' = [stored EXCEPT ![Key] = @ \o Batch]
    PROVE  Stored' = Stored \cup Range(Batch)
<1>t. stored \in [Keys -> Seq(Nat)] /\ Batch \in Seq(Nat)
  BY DEF TypeInv, TypeOK, Batch
<1>1. stored'[Key] = stored[Key] \o Batch /\ \A k \in Keys : k # Key => stored'[k] = stored[k]
  BY <1>t
<1>2. Range(stored[Key] \o Batch) = Range(stored[Key]) \cup Range(Batch)
  <2>1. stored[Key] \in Seq(Nat) /\ Len(stored[Key]) \in Nat /\ Len(Batch) \in Nat
    BY <1>t, LenProperties
  <2>2. /\ DOMAIN stored[Key] = 1 .. Len(stored[Key]) /\ DOMAIN Batch = 1 .. Len(Batch)
        /\ DOMAIN (stored[Key] \o Batch) = 1 .. Len(stored[Key]) + Len(Batch)
    BY <1>t, <2>1, LenProperties, ConcatProperties
  <2>3. \A i \in 1 .. Len(stored[Key]) + Len(Batch) :
           (stored[Key] \o Batch)[i] =
             IF i <= Len(stored[Key]) THEN stored[Key][i] ELSE Batch[i - Len(stored[Key])]
    BY <1>t, <2>1, ConcatProperties
  <2>4. ASSUME NEW n \in Range(stored[Key] \o Batch) PROVE n \in Range(stored[Key]) \cup Range(Batch)
    BY <2>1, <2>2, <2>3, <2>4 DEF Range
  <2>5. ASSUME NEW n \in Range(stored[Key]) PROVE n \in Range(stored[Key] \o Batch)
    BY <2>1, <2>2, <2>3, <2>5 DEF Range
  <2>6. ASSUME NEW n \in Range(Batch) PROVE n \in Range(stored[Key] \o Batch)
    <3>1. PICK i \in 1 .. Len(Batch) : n = Batch[i]
      BY <2>2, <2>6 DEF Range
    <3>2. /\ i + Len(stored[Key]) \in 1 .. Len(stored[Key]) + Len(Batch)
          /\ (stored[Key] \o Batch)[i + Len(stored[Key])] = n
      BY <2>1, <2>3, <3>1
    <3> QED
      BY <2>2, <3>2 DEF Range
  <2> QED
    BY <2>4, <2>5, <2>6
<1> QED
  BY <1>1, <1>2 DEF Stored

LEMMA MergeGetPlaces ==
    ASSUME TypeInv, MergeGet
    PROVE  /\ Queued = Queued' \cup {Head(queue).id}
           /\ Merged' = Merged \cup {Head(queue).id}
           /\ accepted' = accepted /\ Stored' = Stored /\ lost' = lost
<1> DEFINE entry == Head(queue)
<1>1. /\ queue \in Seq(Entry) /\ queue # <<>> /\ queue' = Tail(queue)
      /\ messageDict \in [Keys -> Seq(Nat)]
      /\ messageDict' = [messageDict EXCEPT ![entry.key] = Append(@, entry.id)]
      /\ accepted' = accepted /\ stored' = stored /\ lost' = lost
  BY DEF MergeGet, TypeInv, TypeOK, cloud
<1>2. entry \in Entry /\ entry = queue[1] /\ Len(queue) \in Nat \ {0}
  BY <1>1, EmptySeq, HeadTailProperties
<1>3. entry.key \in Keys /\ entry.id \in Nat
  BY <1>2 DEF Entry
<1>4. Queued = Queued' \cup {entry.id}
  <2>1. /\ queue' \in Seq(Entry) /\ Len(queue') = Len(queue) - 1
        /\ \A i \in 1 .. Len(queue') : queue'[i] = queue[i + 1]
    BY <1>1, HeadTailProperties
  <2>2. DOMAIN queue = 1 .. Len(queue) /\ DOMAIN queue' = 1 .. Len(queue')
    BY <1>1, <2>1, LenProperties
  <2>3. ASSUME NEW n \in Queued PROVE n \in Queued' \cup {entry.id}
    <3>1. PICK i \in 1 .. Len(queue) : n = queue[i].id
      BY <2>2 DEF Queued
    <3>2. CASE i = 1
      BY <1>2, <3>1, <3>2
    <3>3. CASE i # 1
      <4>1. i - 1 \in 1 .. Len(queue') /\ queue'[i - 1] = queue[i]
        BY <1>2, <2>1, <3>1, <3>3
      <4> QED
        BY <2>2, <3>1, <4>1 DEF Queued
    <3> QED
      BY <3>2, <3>3
  <2>4. ASSUME NEW n \in Queued' PROVE n \in Queued
    <3>1. PICK i \in 1 .. Len(queue') : n = queue'[i].id
      BY <2>2 DEF Queued
    <3>2. i + 1 \in 1 .. Len(queue) /\ queue'[i] = queue[i + 1]
      BY <1>2, <2>1, <3>1
    <3> QED
      BY <2>2, <3>1, <3>2 DEF Queued
  <2>5. entry.id \in Queued
    BY <1>2, <2>2 DEF Queued
  <2> QED
    BY <2>3, <2>4, <2>5
<1>5. Merged' = Merged \cup {entry.id}
  <2>1. /\ \A k \in Keys : k # entry.key => messageDict'[k] = messageDict[k]
        /\ messageDict'[entry.key] = Append(messageDict[entry.key], entry.id)
        /\ messageDict[entry.key] \in Seq(Nat)
    BY <1>1, <1>3
  <2>2. Range(Append(messageDict[entry.key], entry.id)) = Range(messageDict[entry.key]) \cup {entry.id}
    <3> DEFINE logs == messageDict[entry.key]
    <3>1. /\ Len(logs) \in Nat /\ DOMAIN logs = 1 .. Len(logs)
          /\ DOMAIN Append(logs, entry.id) = 1 .. Len(logs) + 1
          /\ \A i \in 1 .. Len(logs) : Append(logs, entry.id)[i] = logs[i]
          /\ Append(logs, entry.id)[Len(logs) + 1] = entry.id
      BY <1>3, <2>1, LenProperties, AppendProperties
    <3> QED
      BY <3>1 DEF Range
  <2> QED
    <3>1. \A k \in Keys : Range(messageDict'[k]) =
                             IF k = entry.key THEN Range(messageDict[k]) \cup {entry.id}
                                              ELSE Range(messageDict[k])
      BY <2>1, <2>2
    <3>2. ASSUME NEW n PROVE n \in Merged' <=> n \in Merged \cup {entry.id}
      <4>1. n \in Merged' <=> \E k \in Keys : n \in Range(messageDict'[k])
        BY DEF Merged
      <4>2. n \in Merged <=> \E k \in Keys : n \in Range(messageDict[k])
        BY DEF Merged
      <4> HIDE DEF entry
      <4> QED
        BY <1>3, <3>1, <4>1, <4>2
    <3> QED
      BY <3>2
<1> QED
  BY <1>1, <1>4, <1>5 DEF Stored

LEMMA RestartPlaces ==
    ASSUME Restart
    PROVE  /\ Queued' = {} /\ Merged' = {} /\ Stored' = Stored /\ accepted' = accepted
           /\ lost' = lost \cup Queued \cup Merged
BY DEF Restart, Queued, Merged, Stored, Range, cloud

LEMMA AccountInit == Init => AccountInv
<1> SUFFICES ASSUME Init PROVE AccountInv
  OBVIOUS
<1>1. Queued = {} /\ Merged = {} /\ Stored = {} /\ lost = {} /\ Len(accepted) = 0
  BY DEF Init, Queued, Merged, Stored, Range
<1> QED
  BY <1>1 DEF AccountInv

LEMMA AccountStep == TypeInv /\ FlowInv /\ AccountInv /\ [Next]_vars => AccountInv'
<1> SUFFICES ASSUME TypeInv, FlowInv, AccountInv, [Next]_vars PROVE AccountInv'
  OBVIOUS
<1>t. Len(accepted) \in Nat /\ TypeOK
  BY DEF TypeInv, TypeOK
<1>a. Queued \cap Merged = {} /\ Queued \cap Stored = {} /\ Merged \cap Stored = {}
  BY <1>t, StagesApart
<1>n. /\ Len(accepted) + 1 \notin 1 .. Len(accepted)
      /\ 1 .. Len(accepted) + 1 = (1 .. Len(accepted)) \cup {Len(accepted) + 1}
  BY <1>t
<1>1. CASE Stay
  <2>1. Merged' = Merged /\ Stored' = Stored /\ lost' = lost
    BY <1>1 DEF Stay, Merged, Stored
  <2> QED
    BY <1>1, <1>n, <2>1, ArrivePlaces DEF Stay, AccountInv
<1>2. CASE BatchLost
  <2>1. Merged = Merged' \cup Range(Batch) /\ Merged' \cap Range(Batch) = {}
    BY <1>2, EmptiedPlaces DEF BatchLost
  <2>2. Stored' = Stored /\ lost' = lost \cup Range(Batch)
    BY <1>2 DEF BatchLost, Stored
  <2> QED
    BY <1>2, <1>a, <1>n, <2>1, <2>2, ArrivePlaces DEF BatchLost, AccountInv
<1>3. CASE BatchStored
  <2>1. Merged = Merged' \cup Range(Batch)
    BY <1>3, EmptiedPlaces DEF BatchStored
  <2>2. Stored' = Stored \cup Range(Batch) /\ lost' = lost
    BY <1>3, IngestedPlaces DEF BatchStored
  <2> QED
    BY <1>3, <1>n, <2>1, <2>2, ArrivePlaces DEF BatchStored, AccountInv
<1>4. CASE MergeGet
  BY <1>4, MergeGetPlaces DEF AccountInv
<1>5. CASE Restart
  BY <1>5, <1>a, RestartPlaces DEF AccountInv
<1> QED
  BY <1>1, <1>2, <1>3, <1>4, <1>5, StepKinds

\* Every message accepted is queued, merged, ingested or lost, and in one place only:
\* no interleaving loses track of one.
THEOREM AccountCorrect == Spec => []Accounted
<1>1. TypeInv /\ FlowInv /\ AccountInv => Accounted
  BY StagesApart DEF AccountInv, Accounted, TypeInv
<1> QED
  BY <1>1, TypeInit, TypeStep, FlowInit, FlowStep, AccountInit, AccountStep, PTL DEF Spec

----------------------------------------------------------------------------
(* The refinement.                                                         *)

\* The channel of the refinement mapping, and its part that is still queued.
Channel      == [k \in Keys |-> Pending(k)]
QueuedFor(k) == {queue[i].id : i \in {j \in DOMAIN queue : queue[j].key = k}}

\* What an arrival does to the queue, seen per key.
LEMMA ArriveQueuedFor ==
    ASSUME TypeInv, Arrive
    PROVE  \/ /\ Len(accepted') = Len(accepted)
              /\ \A k \in Keys : QueuedFor(k)' = QueuedFor(k)
           \/ /\ Len(accepted') = Len(accepted) + 1
              /\ \E key \in Keys : \A k \in Keys :
                   QueuedFor(k)' = IF k = key THEN QueuedFor(k) \cup {Len(accepted) + 1}
                                              ELSE QueuedFor(k)
<1>t. /\ accepted \in Seq(Keys) /\ Len(accepted) \in Nat
      /\ queue \in Seq(Entry) /\ Len(queue) \in Nat
  BY DEF TypeInv, TypeOK
<1>1. CASE UNCHANGED intake
  BY <1>1 DEF intake, QueuedFor
<1>2. ASSUME NEW key \in Keys, Accept(key)
      PROVE  /\ Len(accepted') = Len(accepted) + 1
             /\ \A k \in Keys : QueuedFor(k)' = IF k = key THEN QueuedFor(k) \cup {Len(accepted) + 1}
                                                           ELSE QueuedFor(k)
  <2> DEFINE entry == [key |-> key, id |-> Len(accepted) + 1]
  <2>1. entry \in Entry /\ entry.id = Len(accepted) + 1 /\ entry.key = key
    BY <1>t DEF Entry
  <2>2. queue' = Append(queue, entry) /\ Len(accepted') = Len(accepted) + 1
    BY <1>2, <1>t DEF Accept
  <2> HIDE DEF entry
  <2>3. /\ queue' \in Seq(Entry) /\ Len(queue') = Len(queue) + 1
        /\ \A i \in 1 .. Len(queue) : queue'[i] = queue[i]
        /\ queue'[Len(queue) + 1] = entry
    BY <1>t, <2>1, <2>2
  <2>4. DOMAIN queue' = 1 .. Len(queue) + 1 /\ DOMAIN queue = 1 .. Len(queue)
    BY <1>t, <2>3, LenProperties
  <2>5. DOMAIN queue' = DOMAIN queue \cup {Len(queue) + 1}
    BY <1>t, <2>4
  <2>6. ASSUME NEW k \in Keys
        PROVE  QueuedFor(k)' = IF k = key THEN QueuedFor(k) \cup {Len(accepted) + 1}
                                          ELSE QueuedFor(k)
    <3>1. ASSUME NEW n \in QueuedFor(k)
          PROVE  n \in QueuedFor(k)'
      BY <2>3, <2>4, <2>5 DEF QueuedFor
    <3>2. ASSUME NEW n \in QueuedFor(k)'
          PROVE  n \in QueuedFor(k) \/ (k = key /\ n = Len(accepted) + 1)
      BY <2>1, <2>3, <2>4, <2>5 DEF QueuedFor
    <3>3. ASSUME k = key PROVE Len(accepted) + 1 \in QueuedFor(k)'
      BY <2>1, <2>3, <2>4, <2>5, <3>3 DEF QueuedFor
    <3> QED
      BY <3>1, <3>2, <3>3
  <2> QED
    BY <2>2, <2>6
<1> QED
  BY <1>1, <1>2 DEF Arrive

\* Hence the channel becomes what was queued and what is still merged, with at most
\* one message sent.
LEMMA ArriveBecomes ==
    ASSUME TypeInv, Arrive
    PROVE  Fifo!Become([k \in Keys |-> Range(messageDict'[k]) \cup QueuedFor(k)])
<1> DEFINE p == [k \in Keys |-> Range(messageDict'[k]) \cup QueuedFor(k)]
<1>1. Channel' = [k \in Keys |-> Range(messageDict'[k]) \cup QueuedFor(k)']
  BY DEF Channel, Pending, QueuedFor
<1>2. CASE /\ Len(accepted') = Len(accepted)
           /\ \A k \in Keys : QueuedFor(k)' = QueuedFor(k)
  <2>1. Channel' = p
    BY <1>1, <1>2
  <2> QED
    BY <1>2, <2>1 DEF Fifo!Become, Channel
<1>3. ASSUME NEW key \in Keys, Len(accepted') = Len(accepted) + 1,
             \A k \in Keys : QueuedFor(k)' = IF k = key THEN QueuedFor(k) \cup {Len(accepted) + 1}
                                                        ELSE QueuedFor(k)
      PROVE  Fifo!Become(p)
  <2>1. Channel' = [p EXCEPT ![key] = @ \cup {Len(accepted) + 1}]
    BY <1>1, <1>3
  <2> QED
    BY <1>3, <2>1 DEF Fifo!Become, Channel
<1> QED
  BY <1>2, <1>3, ArriveQueuedFor

\* The batch under way is the oldest part of the channel of its key.
LEMMA BatchIsOldest ==
    ASSUME TypeInv, FlowInv, Key \in Keys
    PROVE  /\ Fifo!Oldest(Range(Batch), Channel[Key])
           /\ Channel[Key] \ Range(Batch) = QueuedFor(Key)
<1>t. /\ messageDict[Key] \in Seq(Nat) /\ Batch = messageDict[Key]
      /\ DOMAIN Batch = 1 .. Len(Batch) /\ DOMAIN queue = 1 .. Len(queue)
      /\ Channel[Key] = Range(Batch) \cup QueuedFor(Key)
  BY LenProperties DEF TypeInv, TypeOK, Batch, Channel, Pending, QueuedFor
<1>1. ASSUME NEW m \in Range(Batch), NEW n \in QueuedFor(Key) PROVE m < n /\ m # n
  <2>1. PICK i \in 1 .. Len(messageDict[Key]) : m = messageDict[Key][i]
    BY <1>t DEF Range
  <2>2. PICK j \in 1 .. Len(queue) : n = queue[j].id
    BY <1>t DEF QueuedFor
  <2>3. m < n /\ m \in Nat
    BY <1>t, <2>1, <2>2 DEF FlowInv, MergedSound
  <2>4. n \in 1 .. Len(accepted)
    BY <2>2 DEF FlowInv, QueueSound
  <2> QED
    BY <2>3, <2>4
<1> QED
  BY <1>t, <1>1 DEF Fifo!Oldest

\* A batch that leaves the process leaves the channel.
LEMMA BatchLeaves ==
    ASSUME TypeInv, FlowInv, Arrive, Key \in Keys,
           messageDict' = [messageDict EXCEPT ![Key] = <<>>]
    PROVE  Fifo!Leave(Key, Range(Batch))
<1>1. messageDict \in [Keys -> Seq(Nat)]
  BY DEF TypeInv, TypeOK
<1>2. Range(messageDict'[Key]) = {} /\ \A k \in Keys : k # Key => messageDict'[k] = messageDict[k]
  BY <1>1 DEF Range
<1>3. [k \in Keys |-> Range(messageDict'[k]) \cup QueuedFor(k)]
        = [Channel EXCEPT ![Key] = @ \ Range(Batch)]
  <2>1. ASSUME NEW k \in Keys
        PROVE  Range(messageDict'[k]) \cup QueuedFor(k)
                 = [Channel EXCEPT ![Key] = @ \ Range(Batch)][k]
    <3>1. CASE k = Key
      BY <1>2, <3>1, BatchIsOldest DEF Channel
    <3>2. CASE k # Key
      BY <1>2, <3>2 DEF Channel, Pending, QueuedFor
    <3> QED
      BY <3>1, <3>2
  <2> QED
    BY <2>1 DEF Channel
<1>4. Fifo!Become([Channel EXCEPT ![Key] = @ \ Range(Batch)])
  BY <1>3, ArriveBecomes
<1> QED
  BY <1>4, BatchIsOldest DEF Fifo!Leave, Channel

LEMMA StayFifo == ASSUME TypeInv, Stay PROVE Fifo!Next
<1>1. [k \in Keys |-> Range(messageDict'[k]) \cup QueuedFor(k)] = Channel
  BY DEF Stay, Channel, Pending, QueuedFor
<1>2. Fifo!Become(Channel)
  BY <1>1, ArriveBecomes DEF Stay
<1> QED
  BY <1>2 DEF Stay, Fifo!Next, Fifo!Send, Channel

LEMMA BatchLostFifo == ASSUME TypeInv, FlowInv, BatchLost PROVE Fifo!Next
<1>1. Fifo!Leave(Key, Range(Batch))
  BY BatchLeaves DEF BatchLost
<1>2. Range(Batch) \in SUBSET Channel[Key]
  BY BatchIsOldest DEF BatchLost, Fifo!Oldest
<1>3. Fifo!Lose(Key, Range(Batch))
  BY <1>1 DEF Fifo!Lose, BatchLost
<1> QED
  BY <1>2, <1>3 DEF Fifo!Next, Channel, BatchLost

\* What is appended to a sequence is what follows it.
LEMMA SuffixOfConcat ==
    ASSUME NEW S, NEW a \in Seq(S), NEW b \in Seq(S)
    PROVE  SubSeq(a \o b, Len(a) + 1, Len(a \o b)) = b
<1> DEFINE s == a \o b
           t == SubSeq(s, Len(a) + 1, Len(s))
<1>1. /\ Len(a) \in Nat /\ Len(b) \in Nat /\ s \in Seq(S) /\ Len(s) = Len(a) + Len(b)
      /\ \A i \in 1 .. Len(a) + Len(b) : s[i] = IF i <= Len(a) THEN a[i] ELSE b[i - Len(a)]
  BY LenProperties, ConcatProperties
<1> HIDE DEF s
<1>2. Len(a) + 1 \in Int /\ Len(s) \in Int /\ \A i \in Len(a) + 1 .. Len(s) : s[i] \in S
  BY <1>1, ElementOfSeq
<1>3. /\ t \in Seq(S)
      /\ Len(t) = IF Len(a) + 1 <= Len(s) THEN Len(s) - (Len(a) + 1) + 1 ELSE 0
      /\ \A i \in 1 .. Len(s) - (Len(a) + 1) + 1 : t[i] = s[Len(a) + 1 + i - 1]
  BY ONLY <1>2, SubSeqProperties
<1> HIDE DEF t
<1>4. Len(t) = Len(b)
  BY <1>1, <1>3
<1>5. ASSUME NEW i \in 1 .. Len(b) PROVE t[i] = b[i]
  <2>1. i \in 1 .. Len(s) - (Len(a) + 1) + 1
    BY <1>1
  <2>2. t[i] = s[Len(a) + 1 + i - 1]
    BY <1>3, <2>1
  <2>3. /\ Len(a) + 1 + i - 1 = Len(a) + i /\ Len(a) + i \in 1 .. Len(a) + Len(b)
        /\ ~(Len(a) + i <= Len(a)) /\ Len(a) + i - Len(a) = i
    BY <1>1
  <2> QED
    BY <1>1, <2>2, <2>3
<1>6. t = b
  BY <1>3, <1>4, <1>5, SeqEqual
<1> QED
  BY <1>6 DEF t, s

LEMMA BatchStoredFifo == ASSUME TypeInv, FlowInv, BatchStored PROVE Fifo!Next
<1>t. /\ Key \in Keys /\ stored[Key] \in Seq(Nat) /\ Batch \in Seq(Nat)
      /\ stored'[Key] = stored[Key] \o Batch
      /\ Len(stored[Key]) \in Nat /\ Len(Batch) \in Nat
  BY LenProperties DEF BatchStored, Batch, TypeInv, TypeOK
<1>1. Fifo!New(Key) = Batch
  BY <1>t, SuffixOfConcat DEF Fifo!New
<1>2. Fifo!Increasing(Batch)
  <2>1. DOMAIN Batch = 1 .. Len(Batch)
    BY <1>t, LenProperties
  <2> QED
    BY <1>t, <2>1 DEF Fifo!Increasing, Batch, FlowInv, MergedSound
<1>3. Fifo!Leave(Key, Range(Batch))
  BY BatchLeaves DEF BatchStored
<1>4. Fifo!Range(Batch) = Range(Batch)
  BY DEF Fifo!Range, Range
<1>5. Fifo!Deliver(Key)
  BY <1>1, <1>2, <1>3, <1>4 DEF Fifo!Deliver, BatchStored
<1> QED
  BY <1>t, <1>5 DEF Fifo!Next

\* Merging moves a message within the channel.
LEMMA MergeGetFifo == ASSUME TypeInv, FlowInv, MergeGet PROVE UNCHANGED Fifo!vars
<1> DEFINE entry == Head(queue)
<1>1. /\ queue \in Seq(Entry) /\ queue # <<>> /\ queue' = Tail(queue)
      /\ messageDict \in [Keys -> Seq(Nat)]
      /\ messageDict' = [messageDict EXCEPT ![entry.key] = Append(@, entry.id)]
      /\ accepted' = accepted /\ stored' = stored
  BY DEF MergeGet, TypeInv, TypeOK, cloud
<1>2. /\ entry \in Entry /\ entry = queue[1] /\ Len(queue) \in Nat \ {0}
      /\ queue' \in Seq(Entry) /\ Len(queue') = Len(queue) - 1
      /\ \A i \in 1 .. Len(queue') : queue'[i] = queue[i + 1]
  BY <1>1, EmptySeq, HeadTailProperties
<1>3. entry.key \in Keys /\ entry.id \in Nat
  BY <1>2 DEF Entry
<1>4. DOMAIN queue = 1 .. Len(queue) /\ DOMAIN queue' = 1 .. Len(queue')
  BY <1>1, <1>2, LenProperties
<1>5. /\ \A k \in Keys : k # entry.key => messageDict'[k] = messageDict[k]
      /\ messageDict'[entry.key] = Append(messageDict[entry.key], entry.id)
      /\ messageDict[entry.key] \in Seq(Nat)
  BY <1>1, <1>3
<1>6. Range(Append(messageDict[entry.key], entry.id)) = Range(messageDict[entry.key]) \cup {entry.id}
  <2> DEFINE logs == messageDict[entry.key]
  <2>1. /\ Len(logs) \in Nat /\ DOMAIN logs = 1 .. Len(logs)
        /\ DOMAIN Append(logs, entry.id) = 1 .. Len(logs) + 1
        /\ \A i \in 1 .. Len(logs) : Append(logs, entry.id)[i] = logs[i]
        /\ Append(logs, entry.id)[Len(logs) + 1] = entry.id
    BY <1>3, <1>5, LenProperties, AppendProperties
  <2> QED
    BY <2>1 DEF Range
<1>7. \A k \in Keys : QueuedFor(k) = QueuedFor(k)' \cup (IF k = entry.key THEN {entry.id} ELSE {})
  <2> SUFFICES ASSUME NEW k \in Keys
               PROVE  QueuedFor(k) = QueuedFor(k)' \cup (IF k = entry.key THEN {entry.id} ELSE {})
    OBVIOUS
  <2>1. ASSUME NEW n \in QueuedFor(k)
        PROVE  n \in QueuedFor(k)' \cup (IF k = entry.key THEN {entry.id} ELSE {})
    <3>1. PICK i \in 1 .. Len(queue) : n = queue[i].id /\ queue[i].key = k
      BY <1>4 DEF QueuedFor
    <3>2. CASE i = 1
      BY <1>2, <3>1, <3>2
    <3>3. CASE i # 1
      <4>1. i - 1 \in 1 .. Len(queue') /\ queue'[i - 1] = queue[i]
        BY <1>2, <3>1, <3>3
      <4> QED
        BY <1>4, <3>1, <4>1 DEF QueuedFor
    <3> QED
      BY <3>2, <3>3
  <2>2. ASSUME NEW n \in QueuedFor(k)' PROVE n \in QueuedFor(k)
    <3>1. PICK i \in 1 .. Len(queue') : n = queue'[i].id /\ queue'[i].key = k
      BY <1>4 DEF QueuedFor
    <3>2. i + 1 \in 1 .. Len(queue) /\ queue'[i] = queue[i + 1]
      BY <1>2, <3>1
    <3> QED
      BY <1>4, <3>1, <3>2 DEF QueuedFor
  <2>3. k = entry.key => entry.id \in QueuedFor(k)
    BY <1>2, <1>4 DEF QueuedFor
  <2> QED
    BY <2>1, <2>2, <2>3
<1>8. ASSUME NEW k \in Keys PROVE Pending(k)' = Pending(k)
  <2>1. Pending(k) = Range(messageDict[k]) \cup QueuedFor(k)
    BY DEF Pending, QueuedFor
  <2>2. Pending(k)' = Range(messageDict'[k]) \cup QueuedFor(k)'
    BY DEF Pending, QueuedFor
  <2> HIDE DEF entry
  <2>3. CASE k = entry.key
    BY <1>5, <1>6, <1>7, <2>1, <2>2, <2>3
  <2>4. CASE k # entry.key
    BY <1>5, <1>7, <2>1, <2>2, <2>4
  <2> QED
    BY <2>3, <2>4
<1> QED
  BY <1>1, <1>8 DEF Fifo!vars

LEMMA RestartFifo == ASSUME Restart PROVE Fifo!Next
<1>1. queue' = <<>> /\ (\A k \in Keys : messageDict'[k] = <<>>) /\ accepted' = accepted
      /\ stored' = stored
  BY DEF Restart, cloud
<1>2. \A k \in Keys : Pending(k)' = {}
  BY <1>1 DEF Pending, Range
<1> QED
  BY <1>1, <1>2 DEF Fifo!Next, Fifo!Crash

\* For each log group and suffix the server is a lossy FIFO channel: whatever the
\* interleaving and the failures, messages leave oldest first, in whole batches, and
\* are never delivered twice nor after they were lost.
THEOREM FifoCorrect == Spec => IsLossyFifo
<1>1. Init => Fifo!Init
  BY DEF Init, Fifo!Init, Pending, Range
<1>2. TypeInv /\ FlowInv /\ [Next]_vars => [Fifo!Next]_(Fifo!vars)
  BY StepKinds, StayFifo, BatchLostFifo, BatchStoredFifo, MergeGetFifo, RestartFifo
<1> QED
  BY <1>1, <1>2, FlowCorrect, PTL DEF Spec, IsLossyFifo, Fifo!Spec
----------------------------------------------------------------------------
(* The contract of the queue: an arrival is a put of a new number, merging  *)
(* takes, a restart empties, and nothing else touches the queue.            *)

LEMMA SameContract == ASSUME NEW key PROVE Contract!Admitted(key) <=> Allowed(key)
BY DEF Contract!Admitted, Contract!Filtered, Contract!OwnKey, Allowed, Filtered, OwnKey

LEMMA ArriveContract == ASSUME TypeInv, Arrive PROVE [Contract!Next]_(Contract!vars)
<1>t. accepted \in Seq(Keys) /\ Len(accepted) \in Nat
  BY DEF TypeInv, TypeOK
<1>1. CASE UNCHANGED intake
  BY <1>1 DEF intake, Contract!vars
<1>2. ASSUME NEW key \in Keys, Allowed(key), ~Full(queue), Accept(key) PROVE Contract!Next
  <2> DEFINE n == Len(accepted) + 1
  <2>1. n \in 1 .. MaxAccepted /\ n \notin 1 .. Len(accepted)
    BY <1>t, <1>2 DEF Accept
  <2>2. Len(accepted') = n /\ 1 .. Len(accepted') = (1 .. Len(accepted)) \cup {n}
    BY <1>t, <1>2 DEF Accept
  <2>3. Contract!Put(key, n)
    BY <1>2, <2>1, <2>2, SameContract DEF Contract!Put, Contract!Full, Full, Accept
  <2>4. key \in Contract!Keys
    BY DEF Contract!Keys, Contract!LogGroupType, Keys, LogGroupType
  <2> QED
    BY <2>1, <2>3, <2>4 DEF Contract!Next
<1> QED
  BY <1>1, <1>2 DEF Arrive

\* All that ever happens to the queue is that a message is put once, under a key that may
\* be and when there is room, that the oldest is taken, and that a restart empties it.
THEOREM ContractCorrect == Spec => KeepsContract
<1>1. Init => Contract!Init
  BY DEF Init, Contract!Init
<1>2. TypeInv /\ [Next]_vars => [Contract!Next]_(Contract!vars)
  <2> SUFFICES ASSUME TypeInv, [Next]_vars PROVE [Contract!Next]_(Contract!vars)
    OBVIOUS
  <2>1. CASE Stay \/ BatchLost \/ BatchStored
    BY <2>1, ArriveContract DEF Stay, BatchLost, BatchStored
  <2>2. CASE MergeGet
    BY <2>2 DEF MergeGet, Contract!Next, Contract!Take
  <2>3. CASE Restart
    BY <2>3 DEF Restart, Contract!Next, Contract!Clear
  <2> QED
    BY <2>1, <2>2, <2>3, StepKinds
<1> QED
  BY <1>1, <1>2, FlowCorrect, PTL DEF Spec, KeepsContract, Contract!Spec
============================================================================
