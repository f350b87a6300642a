---------------------- MODULE LogPipelineUploadProofs ----------------------
(***************************************************************************)
(* The uploader of LogPipeline: what a put carries, in which order batches *)
(* are put, whose messages they are, how many calls and how long a sleep   *)
(* one may cost, and that a cloud which answers gets all of them.          *)
(***************************************************************************)
EXTENDS LogPipelineProofs, UploadDelay

USE SuffixAssumption, BacklogAssumption, MergeAssumption, RetryAssumption,
    LevelAssumption, BoundsAssumption

----------------------------------------------------------------------------
(* The merge.  The keys of the order are those with a batch, each once, by *)
(* their oldest message, and no batch is longer than the count of the      *)
(* merge it comes from.                                                    *)

OrderSound ==
    /\ \A i \in 1 .. Len(order) : Len(messageDict[order[i]]) > 0
    /\ \A i, j \in 1 .. Len(order) :
           i < j => messageDict[order[i]][1] < messageDict[order[j]][1]
    /\ \A k \in Keys : Len(messageDict[k]) > 0 => \E i \in 1 .. Len(order) : order[i] = k

CountSound ==
    /\ mergeCount = 0 \/ mergeCount <= MergeLimit
    /\ \A k \in Keys : Len(messageDict[k]) <= mergeCount

MergeInv == OrderSound /\ CountSound

LEMMA MergeTypes ==
    ASSUME TypeInv
    PROVE  /\ order \in Seq(Keys) /\ Len(order) \in Nat
           /\ \A i \in 1 .. Len(order) : order[i] \in Keys
           /\ messageDict \in [Keys -> Seq(Nat)]
           /\ \A k \in Keys : /\ Len(messageDict[k]) \in Nat
                              /\ \A i \in 1 .. Len(messageDict[k]) : messageDict[k][i] \in Nat
           /\ mergeCount \in Nat /\ MergeLimit \in Int
<1>1. /\ order \in Seq(Keys) /\ messageDict \in [Keys -> Seq(Nat)] /\ mergeCount \in Nat
  BY DEF TypeInv, TypeOK
<1>2. MergeLimit \in Int
  BY DEF MergeLimit
<1>3. \A k \in Keys : messageDict[k] \in Seq(Nat)
  BY <1>1
<1> QED
  BY <1>1, <1>2, <1>3, ElementOfSeq, LenProperties

LEMMA StayMerge == ASSUME TypeInv, MergeInv, Stay PROVE MergeInv'
<1>1. OrderSound'
  BY DEF Stay, MergeInv, OrderSound
<1>2. CASE mergeCount' = mergeCount
  BY <1>1, <1>2 DEF Stay, MergeInv, CountSound, MergeLimit
<1>3. CASE order = <<>> /\ mergeCount' = 0
  <2>1. \A k \in Keys : Len(messageDict[k]) = 0
    BY <1>3, MergeTypes DEF MergeInv, OrderSound
  <2> QED
    BY <1>1, <1>3, <2>1 DEF Stay, MergeInv, CountSound
<1> QED
  BY <1>2, <1>3 DEF Stay

\* The batch at the head of the order is done with.
LEMMA NextBatchMerge ==
    ASSUME TypeInv, MergeInv, order # <<>>, order' = Tail(order), mergeCount' = mergeCount,
           messageDict' = [messageDict EXCEPT ![Key] = <<>>]
    PROVE  MergeInv'
<1>1. /\ Len(order) \in Nat \ {0} /\ Key = order[1] /\ Key \in Keys
      /\ Len(order') = Len(order) - 1
      /\ \A i \in 1 .. Len(order') : i + 1 \in 1 .. Len(order) /\ order'[i] = order[i + 1]
  <2>1. order \in Seq(Keys)
    BY MergeTypes
  <2>2. Len(order) \in Nat \ {0} /\ Key = order[1]
    BY <2>1, EmptySeq DEF Key
  <2>3. Key \in Keys /\ Len(order') = Len(order) - 1
        /\ \A i \in 1 .. Len(order') : order'[i] = order[i + 1]
    BY <2>1, HeadTailProperties DEF Key
  <2> QED
    BY <2>2, <2>3
<1>2. /\ \A k \in Keys : k # Key => messageDict'[k] = messageDict[k]
      /\ messageDict'[Key] = <<>> /\ Len(messageDict'[Key]) = 0
  BY <1>1, MergeTypes
<1>3. ASSUME NEW i \in 1 .. Len(order')
      PROVE  order'[i] \in Keys /\ order'[i] # Key /\ messageDict'[order'[i]] = messageDict[order'[i]]
  <2>1. i + 1 \in 1 .. Len(order) /\ 1 \in 1 .. Len(order) /\ 1 < i + 1 /\ order'[i] = order[i + 1]
    BY <1>1
  <2>2. messageDict[order[1]][1] < messageDict[order[i + 1]][1]
    BY <2>1 DEF MergeInv, OrderSound
  <2>3. order[1] # order[i + 1]
    <3>1. 1 \in 1 .. Len(messageDict[Key])
      BY <1>1, <2>1, MergeTypes DEF MergeInv, OrderSound
    <3>2. messageDict[Key][1] \in Nat
      BY <1>1, <3>1, MergeTypes
    <3> QED
      BY <1>1, <2>2, <3>2
  <2> QED
    BY <1>1, <1>2, <2>1, <2>3, MergeTypes
<1>4. ASSUME NEW i \in 1 .. Len(order') PROVE Len(messageDict'[order'[i]]) > 0
  BY <1>1, <1>3 DEF MergeInv, OrderSound
<1>5. ASSUME NEW i \in 1 .. Len(order'), NEW j \in 1 .. Len(order'), i < j
      PROVE  messageDict'[order'[i]][1] < messageDict'[order'[j]][1]
  <2>1. /\ i + 1 \in 1 .. Len(order) /\ j + 1 \in 1 .. Len(order) /\ i + 1 < j + 1
        /\ order'[i] = order[i + 1] /\ order'[j] = order[j + 1]
    BY <1>1, <1>5
  <2> QED
    BY <1>3, <2>1 DEF MergeInv, OrderSound
<1>6. ASSUME NEW k \in Keys, Len(messageDict'[k]) > 0
      PROVE  \E i \in 1 .. Len(order') : order'[i] = k
  <2>1. k # Key /\ messageDict'[k] = messageDict[k]
    BY <1>2, <1>6
  <2>2. PICK j \in 1 .. Len(order) : order[j] = k
    BY <1>6, <2>1 DEF MergeInv, OrderSound
  <2>3. j # 1 /\ j - 1 \in 1 .. Len(order') /\ order'[j - 1] = order[j]
    BY <1>1, <2>1, <2>2
  <2> QED
    BY <2>2, <2>3
<1>7. \A k \in Keys : Len(messageDict'[k]) <= mergeCount
  BY <1>2, MergeTypes DEF MergeInv, CountSound
<1> QED
  BY <1>4, <1>5, <1>6, <1>7 DEF MergeInv, OrderSound, CountSound, MergeLimit

LEMMA MergeGetMerge == ASSUME TypeInv, FlowInv, MergeInv, MergeGet PROVE MergeInv'
<1> DEFINE key == Head(queue).key
           id  == Head(queue).id
<1>1. key \in Keys /\ id \in Nat /\ \A k \in Keys : \A i \in 1 .. Len(messageDict[k]) :
                                       messageDict[k][i] < id
  <2>1. queue \in Seq(Entry) /\ queue # <<>>
    BY DEF MergeGet, TypeInv, TypeOK
  <2>2. Head(queue) \in Entry /\ Head(queue) = queue[1] /\ 1 \in 1 .. Len(queue)
    BY <2>1, EmptySeq, HeadTailProperties
  <2> QED
    BY <2>2 DEF Entry, FlowInv, MergedSound
<1>2. /\ messageDict' = [messageDict EXCEPT ![key] = Append(@, id)]
      /\ order' = IF messageDict[key] = <<>> THEN Append(order, key) ELSE order
      /\ mergeCount' = mergeCount + 1 /\ mergeCount < MergeLimit
  BY DEF MergeGet
<1> HIDE DEF key, id
<1>3. /\ \A k \in Keys : k # key => messageDict'[k] = messageDict[k]
      /\ messageDict'[key] = Append(messageDict[key], id)
      /\ messageDict[key] \in Seq(Nat) /\ Len(messageDict[key]) \in Nat
  BY <1>1, <1>2, MergeTypes
<1>4. /\ Len(messageDict'[key]) = Len(messageDict[key]) + 1
      /\ \A i \in 1 .. Len(messageDict[key]) : messageDict'[key][i] = messageDict[key][i]
      /\ messageDict'[key][Len(messageDict[key]) + 1] = id
  BY <1>1, <1>3, AppendProperties
<1>5. CountSound'
  <2>1. ASSUME NEW k \in Keys PROVE Len(messageDict'[k]) <= mergeCount + 1
    <3>1. Len(messageDict[k]) <= mergeCount /\ Len(messageDict[k]) \in Nat /\ mergeCount \in Nat
      BY MergeTypes DEF MergeInv, CountSound
    <3>2. CASE k = key
      BY <1>4, <3>1, <3>2
    <3>3. CASE k # key
      BY <1>3, <3>1, <3>3
    <3> QED
      BY <3>2, <3>3
  <2> QED
    BY <1>2, <2>1, MergeTypes DEF CountSound, MergeLimit
<1>6. ASSUME NEW k \in Keys, Len(messageDict[k]) > 0
      PROVE  Len(messageDict'[k]) > 0 /\ messageDict'[k][1] = messageDict[k][1]
  <2>1. CASE k # key
    BY <1>3, <1>6, <2>1
  <2>2. CASE k = key
    <3>1. 1 \in 1 .. Len(messageDict[key])
      BY <1>3, <1>6, <2>2
    <3> QED
      BY <1>3, <1>4, <2>2, <3>1
  <2> QED
    BY <2>1, <2>2
<1>7. CASE messageDict[key] # <<>>
  <2>1. order' = order /\ Len(messageDict[key]) > 0
    BY <1>2, <1>3, <1>7, EmptySeq
  <2>2. \A i \in 1 .. Len(order) : order[i] \in Keys /\ Len(messageDict[order[i]]) > 0
    BY MergeTypes DEF MergeInv, OrderSound
  <2>3. ASSUME NEW k \in Keys, Len(messageDict'[k]) > 0
        PROVE  \E i \in 1 .. Len(order) : order[i] = k
    BY <1>3, <2>1, <2>3 DEF MergeInv, OrderSound
  <2>4. OrderSound'
    BY <1>6, <2>1, <2>2, <2>3 DEF MergeInv, OrderSound
  <2> QED
    BY <1>5, <2>4 DEF MergeInv
<1>8. CASE messageDict[key] = <<>>
  <2>1. /\ Len(messageDict[key]) = 0 /\ Len(messageDict'[key]) = 1 /\ messageDict'[key][1] = id
        /\ Len(order) \in Nat /\ order' = Append(order, key) /\ Len(order') = Len(order) + 1
        /\ \A i \in 1 .. Len(order) : order'[i] = order[i] /\ order[i] \in Keys
        /\ order'[Len(order) + 1] = key
    BY <1>1, <1>2, <1>4, <1>8, MergeTypes, AppendProperties, EmptySeq
  <2>2. ASSUME NEW i \in 1 .. Len(order)
        PROVE  /\ order'[i] = order[i] /\ Len(messageDict'[order[i]]) > 0
               /\ messageDict'[order[i]][1] = messageDict[order[i]][1]
               /\ messageDict[order[i]][1] < id
    <3>1. order'[i] = order[i] /\ order[i] \in Keys /\ Len(messageDict[order[i]]) > 0
      BY <2>1 DEF MergeInv, OrderSound
    <3>2. 1 \in 1 .. Len(messageDict[order[i]])
      BY <3>1, MergeTypes
    <3> QED
      BY <1>1, <1>6, <3>1, <3>2
  <2>3. ASSUME NEW i \in 1 .. Len(order') PROVE Len(messageDict'[order'[i]]) > 0
    <3>1. i \in 1 .. Len(order) \/ i = Len(order) + 1
      BY <2>1
    <3> QED
      BY <2>1, <2>2, <3>1
  <2>4. ASSUME NEW i \in 1 .. Len(order'), NEW j \in 1 .. Len(order'), i < j
        PROVE  messageDict'[order'[i]][1] < messageDict'[order'[j]][1]
    <3>1. i \in 1 .. Len(order)
      BY <2>1, <2>4
    <3>2. CASE j \in 1 .. Len(order)
      BY <2>2, <2>4, <3>1, <3>2 DEF MergeInv, OrderSound
    <3>3. CASE j = Len(order) + 1
      BY <2>1, <2>2, <3>1, <3>3
    <3> QED
      BY <2>1, <3>2, <3>3
  <2>5. ASSUME NEW k \in Keys, Len(messageDict'[k]) > 0
        PROVE  \E i \in 1 .. Len(order') : order'[i] = k
    <3>1. CASE k = key
      BY <2>1, <3>1
    <3>2. CASE k # key
      <4>1. PICK i \in 1 .. Len(order) : order[i] = k
        BY <1>3, <2>5, <3>2 DEF MergeInv, OrderSound
      <4> QED
        BY <2>1, <4>1
    <3> QED
      BY <3>1, <3>2
  <2> QED
    BY <1>5, <2>3, <2>4, <2>5 DEF MergeInv, OrderSound
<1> QED
  BY <1>7, <1>8

LEMMA RestartMerge == ASSUME Restart PROVE MergeInv'
<1>1. Len(order') = 0 /\ mergeCount' = 0 /\ \A k \in Keys : Len(messageDict'[k]) = 0
  BY DEF Restart
<1> QED
  BY <1>1 DEF MergeInv, OrderSound, CountSound

LEMMA MergeInit == Init => MergeInv
BY DEF Init, MergeInv, OrderSound, CountSound

LEMMA MergeStep == TypeInv /\ FlowInv /\ MergeInv /\ [Next]_vars => MergeInv'
<1> SUFFICES ASSUME TypeInv, FlowInv, MergeInv, [Next]_vars PROVE MergeInv'
  OBVIOUS
<1>1. CASE BatchLost
  BY <1>1, NextBatchMerge DEF BatchLost
<1>2. CASE BatchStored
  BY <1>2, NextBatchMerge DEF BatchStored
<1> QED
  BY <1>1, <1>2, StepKinds, StayMerge, MergeGetMerge, RestartMerge

LEMMA MergeCorrect == Spec => [](TypeInv /\ FlowInv /\ MergeInv)
BY TypeInit, TypeStep, FlowInit, FlowStep, MergeInit, MergeStep, PTL DEF Spec

\* A put never carries more messages than the API takes, nor none at all, whatever
\* the settings are.
THEOREM PutLimitCorrect == Spec => []PutWithinLimit
<1>1. TypeInv /\ FlowInv /\ MergeInv => PutWithinLimit
  <2> SUFFICES ASSUME TypeInv, MergeInv, pc \in {"putting", "creating"}
               PROVE  Len(Batch) \in 1 .. MaxLogsPerPut
    BY DEF PutWithinLimit
  <2>1. /\ Len(order) \in Nat \ {0} /\ Key = order[1] /\ Key \in Keys
    <3>1. order \in Seq(Keys) /\ order # <<>>
      BY MergeTypes DEF TypeInv, AtBatch
    <3> QED
      BY <3>1, EmptySeq, HeadTailProperties DEF Key
  <2>2. Len(Batch) > 0 /\ Len(Batch) <= mergeCount /\ Len(Batch) \in Nat
    BY <2>1, MergeTypes DEF MergeInv, OrderSound, CountSound, Batch
  <2>3. Len(Batch) <= MergeLimit
    BY <2>2, MergeTypes DEF MergeInv, CountSound
  <2> QED
    BY <2>2, <2>3 DEF MergeLimit
<1> QED
  BY <1>1, MergeCorrect, PTL

\* No key is overtaken by one whose messages are all younger.
THEOREM OldestFirstCorrect == Spec => []OldestFirst
<1>1. TypeInv /\ FlowInv /\ MergeInv => OldestFirst
  <2> SUFFICES ASSUME TypeInv, FlowInv, MergeInv PROVE OldestFirst
    OBVIOUS
  <2>1. ASSUME NEW i \in DOMAIN order, NEW j \in DOMAIN order, i < j
        PROVE  Head(messageDict[order[i]]) < Head(messageDict[order[j]])
    <3>1. DOMAIN order = 1 .. Len(order)
      BY MergeTypes, LenProperties
    <3>2. /\ messageDict[order[i]] \in Seq(Nat) /\ messageDict[order[j]] \in Seq(Nat)
          /\ messageDict[order[i]] # <<>> /\ messageDict[order[j]] # <<>>
      BY <3>1, MergeTypes DEF MergeInv, OrderSound
    <3>3. messageDict[order[i]][1] < messageDict[order[j]][1]
      BY <2>1, <3>1 DEF MergeInv, OrderSound
    <3> QED
      BY <3>2, <3>3
  <2>2. ASSUME NEW m \in Merged, NEW n \in Queued PROVE m < n
    <3>1. PICK i \in 1 .. Len(queue) : n = queue[i].id
      BY InQueued DEF TypeInv, TypeOK
    <3>2. PICK k \in Keys : \E j \in 1 .. Len(messageDict[k]) : m = messageDict[k][j]
      BY InMerged DEF TypeInv, TypeOK
    <3> QED
      BY <3>1, <3>2 DEF FlowInv, MergedSound
  <2> QED
    BY <2>1, <2>2 DEF OldestFirst
<1> QED
  BY <1>1, MergeCorrect, PTL
----------------------------------------------------------------------------
(* Whose messages: the filter is applied on the way in, and what the cloud  *)
(* holds is what came in.                                                   *)

FilterInv == \A n \in 1 .. Len(accepted) : Allowed(accepted[n])

LEMMA FilterStep == TypeInv /\ FilterInv /\ [Next]_vars => FilterInv'
<1> SUFFICES ASSUME TypeInv, FilterInv, [Next]_vars PROVE FilterInv'
  OBVIOUS
<1>t. accepted \in Seq(Keys) /\ Len(accepted) \in Nat
  BY DEF TypeInv, TypeOK
<1>1. CASE UNCHANGED accepted
  BY <1>1 DEF FilterInv, Allowed, Filtered
<1>2. ASSUME NEW key \in Keys, Allowed(key), Accept(key)
      PROVE  FilterInv'
  <2>1. /\ accepted' = Append(accepted, key) /\ Len(accepted') = Len(accepted) + 1
        /\ accepted'[Len(accepted) + 1] = key
        /\ \A n \in 1 .. Len(accepted) : accepted'[n] = accepted[n]
    BY <1>2, <1>t, AppendProperties DEF Accept
  <2> QED
    BY <1>2, <1>t, <2>1 DEF FilterInv, Allowed, Filtered
<1>3. CASE Arrive
  BY <1>1, <1>2, <1>3 DEF Arrive, intake
<1> QED
  BY <1>1, <1>3, StepKinds DEF Stay, BatchLost, BatchStored, MergeGet, Restart

\* Only the streams of listed ECUs, and the server's own, ever hold a message.
THEOREM KnownEcusCorrect == Spec => []KnownEcusOnly
<1>1. Init => FilterInv
  BY DEF Init, FilterInv
<1>2. TypeInv /\ FlowInv /\ FilterInv => KnownEcusOnly
  <2> SUFFICES ASSUME TypeInv, FlowInv, FilterInv, NEW k \in Keys, stored[k] # <<>>
               PROVE  Allowed(k)
    BY DEF KnownEcusOnly, Allowed, Filtered
  <2>1. stored[k] \in Seq(Nat)
    BY DEF TypeInv, TypeOK
  <2>2. 1 \in 1 .. Len(stored[k])
    BY <2>1, EmptySeq
  <2> QED
    BY <2>2 DEF FlowInv, StoredSound, FilterInv
<1> QED
  BY <1>1, <1>2, FilterStep, FlowInit, FlowStep, TypeInit, TypeStep, PTL DEF Spec

----------------------------------------------------------------------------
(* The calls of one batch.  A round is a put and the creations it leads to: *)
(* it costs at most CreateMaxRetry + 2 calls, and putTry counts the rounds  *)
(* that are over.                                                           *)

Round == CreateMaxRetry + 2

CallsInv ==
    PutMaxRetry > 0 /\ CreateMaxRetry > 0 =>
        /\ calls <= CallsLimit
        /\ pc = "putting" => putTry <= PutMaxRetry /\ calls <= putTry * Round
        /\ pc = "creating" => /\ putTry <= PutMaxRetry /\ createTry <= CreateMaxRetry
                              /\ calls <= putTry * Round + 1 + createTry

LEMMA Rounds ==
    ASSUME NEW n \in Nat, NEW m \in Nat, NEW r \in Nat
    PROVE  /\ n * r \in Nat /\ (n + 1) * r = n * r + r
           /\ n <= m => n * r <= m * r
<1>1. n * r \in Nat /\ (n + 1) * r = n * r + r
  OBVIOUS
<1>2. ASSUME n <= m PROVE n * r <= m * r
  <2>1. m - n \in Nat /\ m = n + (m - n)
    BY <1>2
  <2>2. (m - n) * r \in Nat /\ m * r = n * r + (m - n) * r
    BY <2>1
  <2> QED
    BY <1>1, <2>2
<1> QED
  BY <1>1, <1>2

\* What is left of the calls in a round.
LEMMA RoundCalls ==
    ASSUME TypeInv, CallsInv, PutMaxRetry > 0, CreateMaxRetry > 0
    PROVE  /\ CallsLimit \in Nat /\ Round \in Nat /\ putTry * Round \in Nat
           /\ (putTry + 1) * Round = putTry * Round + Round
           /\ putTry <= PutMaxRetry => putTry * Round + Round <= CallsLimit
<1>1. PutMaxRetry \in Nat /\ Round \in Nat /\ putTry \in Nat
  BY DEF TypeInv, TypeOK, Round
<1>2. /\ putTry * Round \in Nat /\ (putTry + 1) * Round = putTry * Round + Round
      /\ PutMaxRetry * Round \in Nat
      /\ (PutMaxRetry + 1) * Round = PutMaxRetry * Round + Round
      /\ putTry <= PutMaxRetry => putTry * Round <= PutMaxRetry * Round
  BY <1>1, Rounds
<1>3. CallsLimit = (PutMaxRetry + 1) * Round
  BY DEF CallsLimit, Round
<1> QED
  BY <1>1, <1>2, <1>3

\* A put that raised begins another round, or ends the batch.
LEMMA PutRaisesCalls ==
    ASSUME TypeInv, CallsInv, PutMaxRetry > 0, CreateMaxRetry > 0,
           pc = "creating", PutRaises, CountCall
    PROVE  CallsInv'
<1>1. /\ putTry <= PutMaxRetry /\ createTry <= CreateMaxRetry
      /\ calls <= putTry * Round + 1 + createTry /\ calls <= CallsLimit
      /\ putTry \in Nat /\ createTry \in Nat /\ calls \in Nat
  BY DEF CallsInv, TypeInv, TypeOK
<1>2. calls + 1 <= putTry * Round + Round /\ calls' <= calls + 1 /\ calls' \in Nat
  BY <1>1, RoundCalls DEF Round, CountCall
<1>3. calls' <= CallsLimit /\ calls' <= (putTry + 1) * Round
  BY <1>1, <1>2, RoundCalls
<1>4. CASE PutAgain
  BY <1>1, <1>3, <1>4 DEF PutAgain, MayRetry, CallsInv, CallsLimit, Round
<1>5. CASE GiveUp
  BY <1>3, <1>5 DEF GiveUp, NextBatch, CallsInv, CallsLimit
<1> QED
  BY <1>4, <1>5 DEF PutRaises

LEMMA CallsStep == TypeInv /\ CallsInv /\ [Next]_vars => CallsInv'
<1> SUFFICES ASSUME TypeInv, CallsInv, [Next]_vars, PutMaxRetry > 0, CreateMaxRetry > 0
             PROVE  CallsInv'
  BY DEF CallsInv
<1>t. calls \in Nat /\ putTry \in Nat /\ createTry \in Nat /\ calls <= CallsLimit
  BY DEF TypeInv, TypeOK, CallsInv
<1>1. CASE UNCHANGED <<pc, putTry, createTry, calls>>
  BY <1>1 DEF CallsInv, CallsLimit, Round
<1>2. CASE calls' = calls /\ pc' \in {"merging", "uploading"}
  BY <1>2, <1>t DEF CallsInv, CallsLimit
<1>3. CASE BeginPut \/ Restart
  BY <1>3, RoundCalls DEF BeginPut, Restart, CallsInv, CallsLimit, Round
<1>4. ASSUME pc = "putting", CountCall, pc' = "uploading"
      PROVE  CallsInv'
  <2>1. calls' <= CallsLimit
    BY <1>4, <1>t, RoundCalls DEF CountCall, CallsInv, Round
  <2> QED
    BY <1>4, <2>1 DEF CallsInv, CallsLimit
<1>5. CASE PutNotFound
  <2>1. /\ pc = "putting" /\ pc' = "creating" /\ createTry' = 0 /\ putTry' = putTry
        /\ calls' <= calls + 1 /\ calls' \in Nat
    BY <1>5, <1>t DEF PutNotFound, CountCall
  <2>2. putTry <= PutMaxRetry /\ calls <= putTry * Round
    BY <2>1 DEF CallsInv
  <2>3. calls' <= CallsLimit /\ calls' <= putTry * Round + 1
    BY <1>t, <2>1, <2>2, RoundCalls DEF Round
  <2> QED
    BY <2>1, <2>2, <2>3, RoundCalls DEF CallsInv, CallsLimit, Round
<1>6. CASE PutOk \/ PutFailed \/ PutReplyLost
  BY <1>4, <1>6 DEF PutOk, PutFailed, PutReplyLost, NextBatch
<1>7. CASE CreateOk \/ CreateExists
  BY <1>7, PutRaisesCalls DEF CreateOk, CreateExists
<1>8. ASSUME NEW created \in BOOLEAN, CreateFailed(created)
      PROVE  CallsInv'
  <2>1. pc = "creating" /\ CountCall
    BY <1>8 DEF CreateFailed
  <2>2. CASE CreateRaises
    BY <2>1, <2>2, PutRaisesCalls DEF CreateRaises
  <2>3. CASE CreateAgain
    <3>1. /\ pc' = "creating" /\ putTry' = putTry /\ createTry' = createTry + 1
          /\ createTry' <= CreateMaxRetry /\ calls' <= calls + 1 /\ calls' \in Nat
      BY <1>t, <2>1, <2>3 DEF CreateAgain, MayRetry, CountCall
    <3>2. /\ putTry <= PutMaxRetry /\ createTry <= CreateMaxRetry
          /\ calls <= putTry * Round + 1 + createTry
      BY <2>1 DEF CallsInv
    <3>3. calls' <= CallsLimit /\ calls' <= putTry * Round + 1 + createTry'
      BY <1>t, <3>1, <3>2, RoundCalls DEF Round
    <3> QED
      BY <3>1, <3>2, <3>3 DEF CallsInv, CallsLimit, Round
  <2> QED
    BY <1>8, <2>2, <2>3 DEF CreateFailed
<1>9. ASSUME Clients \/ Loggers \/ ClockMoves \/ MergeGet \/ MergeEnd \/ Sleep \/ UNCHANGED vars
      PROVE  \/ UNCHANGED <<pc, putTry, createTry, calls>>
             \/ calls' = calls /\ pc' \in {"merging", "uploading"}
  BY <1>9 DEF Clients, Loggers, ClockMoves, MergeGet, MergeEnd, Sleep, PutLog, PutLogFull,
              LogDropped, ServerLogs, vars, uploader
<1> QED
  BY <1>1, <1>2, <1>3, <1>5, <1>6, <1>7, <1>8, <1>9 DEF Next, Uploader, Merging, Answers, Faults

\* However the cloud answers, a batch costs at most (PutMaxRetry + 1) rounds of calls
\* before the next one gets its turn.
THEOREM CallsCorrect == Spec => []CallsBounded
<1>1. Init => CallsInv
  <2> SUFFICES ASSUME Init, PutMaxRetry > 0, CreateMaxRetry > 0 PROVE 0 <= CallsLimit
    BY DEF Init, CallsInv
  <2>1. PutMaxRetry + 1 \in Nat /\ CreateMaxRetry + 2 \in Nat
    OBVIOUS
  <2> QED
    BY <2>1, Rounds DEF CallsLimit
<1>2. CallsInv => CallsBounded
  BY DEF CallsInv, CallsBounded
<1> QED
  BY <1>1, <1>2, CallsStep, TypeInit, TypeStep, PTL DEF Spec
----------------------------------------------------------------------------
(* A cloud that answers.  A batch is put a second time only after its      *)
(* stream is there, so the first retry is the last: it is allowed by every *)
(* setting, and no midnight takes the stream away again.                   *)

HealthyNext == Clients \/ Loggers \/ Merging \/ Answers \/ ClockMoves

HealthyInv ==
    /\ lost = {}
    /\ pc = "creating" => putTry = 0
    /\ pc = "putting" => putTry = 0 \/ stream \in streams

\* The exception after a creation leads to a put into a stream that is there.
LEMMA RaisesHealthy ==
    ASSUME HealthyInv, pc = "creating", PutRaises, UNCHANGED stream, stream \in streams'
    PROVE  HealthyInv'
<1>1. MayRetry(putTry, PutMaxRetry)
  BY DEF HealthyInv, MayRetry
<1> QED
  BY <1>1 DEF HealthyInv, PutRaises, PutAgain, GiveUp

LEMMA HealthyStep == HealthyInv /\ [HealthyNext]_vars => HealthyInv'
<1> SUFFICES ASSUME HealthyInv, [HealthyNext]_vars PROVE HealthyInv'
  OBVIOUS
<1>1. CASE UNCHANGED <<pc, putTry, stream, streams, lost>>
  BY <1>1 DEF HealthyInv
<1>2. CASE Clients \/ Loggers \/ ClockMoves
  BY <1>1, <1>2 DEF Clients, PutLog, PutLogFull, Loggers, LogDropped, ServerLogs, ClockMoves, uploader, cloud
<1>3. CASE MergeGet \/ MergeEnd \/ Sleep \/ BeginPut
  BY <1>3 DEF MergeGet, MergeEnd, Sleep, BeginPut, HealthyInv, cloud
<1>4. CASE PutOk
  BY <1>4 DEF PutOk, NextBatch, HealthyInv
<1>5. CASE stream \notin streams /\ PutNotFound
  BY <1>5 DEF PutNotFound, HealthyInv
<1>6. CASE CreateOk
  BY <1>6, RaisesHealthy DEF CreateOk
<1>7. CASE CreateExists
  BY <1>7, RaisesHealthy DEF CreateExists, cloud
<1>8. CASE UNCHANGED vars
  BY <1>1, <1>8 DEF vars, uploader, cloud
<1> QED
  BY <1>2, <1>3, <1>4, <1>5, <1>6, <1>7, <1>8 DEF HealthyNext, Merging, Answers

\* While the cloud answers no message is given up, whatever the retry settings are and
\* however often midnight passes between naming a stream and using it.
THEOREM HealthyCorrect == HealthySpec => []NothingLost
<1>1. Init => HealthyInv
  BY DEF Init, HealthyInv
<1>2. HealthyInv => NothingLost
  BY DEF HealthyInv, NothingLost
<1>3. HealthyInv /\ [Clients \/ Loggers \/ Merging \/ Answers \/ ClockMoves]_vars => HealthyInv'
  BY HealthyStep DEF HealthyNext
<1> QED
  BY <1>1, <1>2, <1>3, PTL DEF HealthySpec
----------------------------------------------------------------------------
(* The sleeps of one batch: those of the rounds that are over, and those   *)
(* of the creations in the round under way.                                *)

CreateSleeps == CreateMaxRetry * CreateMax

RoundSleeps == PutMax + CreateSleeps

DelayInv ==
    PutMaxRetry > 0 /\ CreateMaxRetry > 0 =>
        /\ slept \in Nat
        /\ ~Trying => slept = 0
        /\ Trying => putTry <= PutMaxRetry
        /\ pc = "putting" => slept <= putTry * RoundSleeps
        /\ pc = "creating" => /\ createTry <= CreateMaxRetry
                              /\ slept <= putTry * RoundSleeps + createTry * CreateMax

\* No sleep is longer than backoff_max, however many there have been.
LEMMA SleeptimeLimit ==
    ASSUME NEW factor, NEW max \in Nat, NEW count
    PROVE  Sleeptime(factor, max, count) \in 0 .. max
BY DEF Sleeptime

LEMMA SleepTerms ==
    ASSUME TypeInv, PutMaxRetry > 0, CreateMaxRetry > 0
    PROVE  /\ PutMaxRetry \in Nat /\ CreateMaxRetry \in Nat
           /\ putTry \in Nat /\ createTry \in Nat /\ CreateSleeps \in Nat /\ RoundSleeps \in Nat
           /\ putTry * RoundSleeps \in Nat /\ (putTry + 1) * RoundSleeps = putTry * RoundSleeps + RoundSleeps
           /\ createTry * CreateMax \in Nat /\ (createTry + 1) * CreateMax = createTry * CreateMax + CreateMax
           /\ createTry <= CreateMaxRetry => createTry * CreateMax <= CreateSleeps
           /\ 0 * RoundSleeps = 0 /\ 0 * CreateMax = 0
<1>1. PutMaxRetry \in Nat /\ CreateMaxRetry \in Nat /\ putTry \in Nat /\ createTry \in Nat
  BY DEF TypeInv, TypeOK
<1>2. CreateMax \in Nat /\ PutMax \in Nat
  BY BackoffAssumption
<1>3. CreateSleeps \in Nat /\ RoundSleeps \in Nat
  BY <1>1, <1>2, Rounds DEF CreateSleeps, RoundSleeps
<1>4. /\ createTry * CreateMax \in Nat /\ (createTry + 1) * CreateMax = createTry * CreateMax + CreateMax
      /\ createTry <= CreateMaxRetry => createTry * CreateMax <= CreateSleeps
  BY <1>1, <1>2, Rounds DEF CreateSleeps
<1>5. putTry * RoundSleeps \in Nat /\ (putTry + 1) * RoundSleeps = putTry * RoundSleeps + RoundSleeps
  BY <1>1, <1>3, Rounds
<1>6. 0 * RoundSleeps = 0 /\ 0 * CreateMax = 0
  BY <1>2, <1>3
<1> QED
  BY <1>1, <1>3, <1>4, <1>5, <1>6

\* Nothing is slept for when no call is retried.
LEMMA NoSleep ==
    ASSUME TypeInv, SleepsBetween, putTry' = putTry \/ putTry' = 0, createTry' = createTry \/ createTry' = 0,
           slept \in Nat
    PROVE  slept' = IF Trying' THEN slept ELSE 0
<1>1. putTry \in Nat /\ createTry \in Nat
  BY DEF TypeInv, TypeOK
<1>2. ~(putTry' > putTry) /\ ~(createTry' > createTry)
  BY <1>1
<1> QED
  BY <1>2 DEF SleepsBetween

\* After a creation: the sleep before the next put, or the end of the batch.
LEMMA PutRaisesDelay ==
    ASSUME TypeInv, DelayInv, PutMaxRetry > 0, CreateMaxRetry > 0, SleepsBetween,
           pc = "creating", PutRaises, UNCHANGED createTry
    PROVE  DelayInv'
<1>1. /\ slept \in Nat /\ putTry <= PutMaxRetry /\ createTry <= CreateMaxRetry
      /\ slept <= putTry * RoundSleeps + createTry * CreateMax
  BY DEF DelayInv, Trying
<1>2. CASE PutAgain
  <2>1. pc' = "putting" /\ putTry' = putTry + 1 /\ putTry' <= PutMaxRetry
    BY <1>2, SleepTerms DEF PutAgain, MayRetry
  <2>2. slept' = slept + Sleeptime(PutFactor, PutMax, putTry)
    <3>1. putTry' > putTry /\ ~(createTry' > createTry) /\ Trying'
      BY <2>1, SleepTerms DEF Trying
    <3>2. Sleeptime(PutFactor, PutMax, putTry) \in Int
      BY SleeptimeLimit, BackoffAssumption
    <3> QED
      BY <1>1, <3>1, <3>2 DEF SleepsBetween
  <2>3. slept' \in Nat /\ slept' <= slept + PutMax
    BY <1>1, <2>2, SleeptimeLimit, BackoffAssumption
  <2>4. slept' <= (putTry + 1) * RoundSleeps
    BY <1>1, <2>3, SleepTerms, BackoffAssumption DEF RoundSleeps
  <2> QED
    BY <2>1, <2>3, <2>4 DEF DelayInv, Trying, RoundSleeps, CreateSleeps
<1>3. CASE GiveUp
  <2>1. pc' = "uploading" /\ slept' = 0
    BY <1>3 DEF GiveUp, NextBatch, SleepsBetween, Trying
  <2> QED
    BY <2>1 DEF DelayInv, Trying
<1> QED
  BY <1>2, <1>3 DEF PutRaises

LEMMA DelayStep == TypeInv /\ DelayInv /\ [DelayNext]_<<vars, slept>> => DelayInv'
<1> SUFFICES ASSUME TypeInv, DelayInv, [DelayNext]_<<vars, slept>>, PutMaxRetry > 0, CreateMaxRetry > 0
             PROVE  DelayInv'
  BY DEF DelayInv
<1>t. slept \in Nat
  BY DEF DelayInv
<1>0. CASE UNCHANGED <<pc, putTry, createTry, slept>>
  BY <1>0 DEF DelayInv, Trying, RoundSleeps, CreateSleeps
<1> SUFFICES ASSUME Next, SleepsBetween PROVE DelayInv'
  BY <1>0 DEF DelayNext, vars, uploader
<1>1. CASE UNCHANGED <<pc, putTry, createTry>>
  <2>1. slept' = slept
    BY <1>1, <1>t, NoSleep DEF DelayInv, Trying
  <2> QED
    BY <1>0, <1>1, <2>1
<1>2. CASE pc' \in {"merging", "uploading"}
  <2>1. slept' = 0
    BY <1>2 DEF SleepsBetween, Trying
  <2> QED
    BY <1>2, <2>1 DEF DelayInv, Trying
<1>3. CASE BeginPut
  <2>1. pc = "uploading" /\ pc' = "putting" /\ putTry' = 0 /\ createTry' = createTry
    BY <1>3 DEF BeginPut
  <2>2. slept' = 0
    BY <1>t, <2>1, NoSleep DEF DelayInv, Trying
  <2> QED
    BY <2>1, <2>2, SleepTerms DEF DelayInv, Trying, RoundSleeps, CreateSleeps
<1>4. CASE PutNotFound
  <2>1. pc = "putting" /\ pc' = "creating" /\ putTry' = putTry /\ createTry' = 0
    BY <1>4 DEF PutNotFound
  <2>2. slept' = slept
    BY <1>t, <2>1, NoSleep DEF Trying
  <2>3. putTry <= PutMaxRetry /\ slept <= putTry * RoundSleeps
    BY <2>1 DEF DelayInv, Trying
  <2> QED
    BY <1>t, <2>1, <2>2, <2>3, SleepTerms DEF DelayInv, Trying, RoundSleeps, CreateSleeps
<1>5. CASE CreateOk \/ CreateExists
  BY <1>5, PutRaisesDelay DEF CreateOk, CreateExists
<1>6. ASSUME NEW created \in BOOLEAN, CreateFailed(created)
      PROVE  DelayInv'
  <2>1. pc = "creating"
    BY <1>6 DEF CreateFailed
  <2>2. CASE CreateRaises
    BY <2>1, <2>2, PutRaisesDelay DEF CreateRaises
  <2>3. CASE CreateAgain
    <3>1. /\ pc' = "creating" /\ putTry' = putTry /\ createTry' = createTry + 1
          /\ createTry' <= CreateMaxRetry
      BY <2>1, <2>3, SleepTerms DEF CreateAgain, MayRetry
    <3>2. slept' = slept + Sleeptime(CreateFactor, CreateMax, createTry)
      <4>1. createTry' > createTry /\ ~(putTry' > putTry) /\ Trying'
        BY <3>1, SleepTerms DEF Trying
      <4>2. Sleeptime(CreateFactor, CreateMax, createTry) \in Int
        BY SleeptimeLimit, BackoffAssumption
      <4> QED
        BY <1>t, <4>1, <4>2 DEF SleepsBetween
    <3>3. slept' \in Nat /\ slept' <= slept + CreateMax
      BY <1>t, <3>2, SleeptimeLimit, BackoffAssumption
    <3>4. putTry <= PutMaxRetry /\ slept <= putTry * RoundSleeps + createTry * CreateMax
      BY <2>1 DEF DelayInv, Trying
    <3>5. slept' <= putTry * RoundSleeps + (createTry + 1) * CreateMax
      BY <1>t, <3>3, <3>4, SleepTerms, BackoffAssumption
    <3> QED
      BY <3>1, <3>3, <3>4, <3>5 DEF DelayInv, Trying, RoundSleeps, CreateSleeps
  <2> QED
    BY <1>6, <2>2, <2>3 DEF CreateFailed
<1>7. CASE PutOk \/ PutFailed \/ PutReplyLost \/ MergeGet \/ MergeEnd \/ Sleep \/ Restart
  BY <1>1, <1>2, <1>7 DEF PutOk, PutFailed, PutReplyLost, NextBatch, MergeGet, MergeEnd, Sleep, Restart
<1>8. CASE Clients \/ Loggers \/ ClockMoves
  BY <1>1, <1>8 DEF Clients, Loggers, ClockMoves, PutLog, PutLogFull, LogDropped, ServerLogs, uploader
<1> QED
  BY <1>3, <1>4, <1>5, <1>6, <1>7, <1>8 DEF Next, Uploader, Merging, Answers, Faults

LEMMA DelayedSteps == [DelayNext]_<<vars, slept>> => [Next]_vars
BY DEF DelayNext

\* However the cloud answers, the uploader is back at the queue after a bounded sleep for
\* each batch: with the numbers of the code an hour or so.
THEOREM SleepCorrect == DelaySpec => []SleepBounded
<1>1. DelayInit => Init /\ DelayInv
  BY DEF DelayInit, Init, DelayInv, Trying
<1>2. TypeInv /\ DelayInv => SleepBounded
  <2> SUFFICES ASSUME TypeInv, DelayInv, PutMaxRetry > 0, CreateMaxRetry > 0 PROVE slept <= SleepLimit
    BY DEF SleepBounded
  <2>1. SleepLimit = PutMaxRetry * RoundSleeps + CreateSleeps
    <3> DEFINE c == CreateSleeps
    <3>1. PutMaxRetry \in Nat /\ c \in Nat /\ PutMax \in Nat
      BY SleepTerms, BackoffAssumption
    <3>2. (PutMaxRetry + 1) * CreateMaxRetry * CreateMax = (PutMaxRetry + 1) * c
      BY SleepTerms, BackoffAssumption DEF CreateSleeps
    <3> HIDE DEF c
    <3>3. PutMaxRetry * (PutMax + c) + c = PutMaxRetry * PutMax + (PutMaxRetry + 1) * c
      BY <3>1
    <3> QED
      BY <3>2, <3>3 DEF SleepLimit, RoundSleeps, c
  <2>2. putTry <= PutMaxRetry => putTry * RoundSleeps <= PutMaxRetry * RoundSleeps
    BY SleepTerms, Rounds
  <2>3. PutMaxRetry * RoundSleeps \in Nat
    BY SleepTerms, Rounds
  <2>4. CASE ~Trying
    BY <2>1, <2>3, <2>4, SleepTerms DEF DelayInv
  <2>5. CASE pc = "putting"
    BY <2>1, <2>2, <2>3, <2>5, SleepTerms DEF DelayInv, Trying
  <2>6. CASE pc = "creating"
    BY <2>1, <2>2, <2>3, <2>6, SleepTerms DEF DelayInv, Trying
  <2> QED
    BY <2>4, <2>5, <2>6 DEF Trying
<1> QED
  BY <1>1, <1>2, TypeInit, TypeStep, DelayedSteps, DelayStep, PTL DEF DelaySpec
============================================================================
