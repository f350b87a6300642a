-------------------------- MODULE IoTSessionProofs --------------------------
(***************************************************************************)
(* Theorems about IoTSession, for all time-outs, refresh windows and       *)
(* lifetimes that satisfy its assumptions, and any number of refreshes.    *)
(***************************************************************************)
EXTENDS IoTSession, TLAPS

USE TimeoutAssumption, RefreshAssumption, BoundsAssumption

\* An answer as the provider sends it, and as the callbacks collect it.
Answer    == [status : Statuses, body : 0 .. Chunks]
Collected == [status : Statuses, body : Nat]

----------------------------------------------------------------------------
(* Type correctness.  While the thread waits there is a refresh under way. *)

TypeInv ==
    /\ TypeOK
    /\ Waiting => refresh \in Refreshes
    /\ state = "checking" => refresh < MaxRefresh

LEMMA TypeInit == Init => TypeInv
<1> SUFFICES ASSUME Init PROVE TypeInv
  OBVIOUS
<1>1. Nothing \in Answer /\ Nothing \in Collected
  BY DEF Nothing, Statuses, Answer, Collected
<1>2. /\ answer \in [Refreshes -> Answer]
      /\ collected \in [Refreshes -> Collected]
      /\ stream \in [Refreshes -> {"none", "open", "complete", "broken"}]
  BY <1>1 DEF Init
<1>3. mandatory \in BOOLEAN
  BY DEF Init
<1>4. state = "starting" /\ call = "none"
      /\ waited = 0 /\ refresh = 0 /\ credentials = 0 /\ left = 0
  BY DEF Init
<1> QED
  BY <1>2, <1>3, <1>4 DEF TypeInv, TypeOK, Waiting, Answer, Collected

\* The steps that end a refresh without credentials.
LEMMA RefreshFailsType ==
    ASSUME TypeInv, RefreshFails, UNCHANGED <<mandatory, waited, refresh, credentials, left, remote>>
    PROVE  TypeInv'
BY DEF TypeInv, TypeOK, RefreshFails, Outcome, Waiting, remote, Refreshes

LEMMA OneMoreChunk ==
    /\ \A a \in Answer : a.body < Chunks => [a EXCEPT !.body = @ + 1] \in Answer
    /\ \A c \in Collected : [c EXCEPT !.body = @ + 1] \in Collected
<1>1. ASSUME NEW a \in Answer, a.body < Chunks PROVE [a EXCEPT !.body = @ + 1] \in Answer
  <2>1. a.body + 1 \in 0 .. Chunks
    BY <1>1 DEF Answer
  <2> QED
    BY <2>1 DEF Answer
<1>2. ASSUME NEW c \in Collected PROVE [c EXCEPT !.body = @ + 1] \in Collected
  <2>1. c.body + 1 \in Nat
    BY DEF Collected
  <2> QED
    BY <2>1 DEF Collected
<1> QED
  BY <1>1, <1>2

\* A callback changes what is known of one answer.
LEMMA RemoteType ==
    ASSUME TypeInv, NEW k \in Refreshes, NEW a \in Answer, NEW c \in Collected,
           answer' = [answer EXCEPT ![k] = a], collected' = [collected EXCEPT ![k] = c],
           UNCHANGED <<thread, credentials, left, stream>>
    PROVE  TypeInv'
<1>1. answer' \in [Refreshes -> Answer] /\ collected' \in [Refreshes -> Collected]
  BY DEF TypeInv, TypeOK, Answer, Collected
<1> QED
  BY <1>1 DEF TypeInv, TypeOK, Waiting, thread, Answer, Collected

LEMMA TypeStep == TypeInv /\ [Next]_vars => TypeInv'
<1> SUFFICES ASSUME TypeInv, [Next]_vars PROVE TypeInv'
  OBVIOUS
<1> USE DEF TypeInv, TypeOK, Waiting, Refreshes
<1>1. CASE GetSession
  BY <1>1 DEF GetSession, remote
<1>2. CASE SignAtOnce
  BY <1>2 DEF SignAtOnce, Outcome, remote
<1>3. CASE BeginRefresh
  BY <1>3 DEF BeginRefresh, RefreshNeeded, remote
<1>4. CASE ConnectTimesOut \/ RequestFails \/ RequestTimesOut \/ ParseRefused \/ ConnectFails
  BY <1>4, RefreshFailsType
  DEF ConnectTimesOut, ConnectFails, RequestFails, RequestTimesOut, ParseRefused
<1>5. CASE ParseAccepted
  BY <1>5 DEF ParseAccepted, Outcome, remote
<1>6. CASE BeginCall
  BY <1>6 DEF BeginCall, remote
<1>7. CASE Connect
  BY <1>7 DEF Connect
<1>8. CASE Provider
  <2>1. ASSUME NEW k \in Refreshes, OnBody(k) PROVE TypeInv'
    <3>1. /\ answer[k] \in Answer /\ collected[k] \in Collected
          /\ answer[k].body < Chunks
      BY <2>1 DEF OnBody, Answer, Collected
    <3>2. /\ [answer[k] EXCEPT !.body = @ + 1] \in Answer
          /\ [collected[k] EXCEPT !.body = @ + 1] \in Collected
      BY <3>1, OneMoreChunk
    <3>3. /\ answer' = [answer EXCEPT ![k] = [answer[k] EXCEPT !.body = @ + 1]]
          /\ collected' = [collected EXCEPT ![k] = [collected[k] EXCEPT !.body = @ + 1]]
      BY <2>1 DEF OnBody, Cell
    <3>4. UNCHANGED <<thread, credentials, left, stream>>
      BY <2>1 DEF OnBody
    <3> HIDE DEF TypeInv
    <3> QED
      BY <3>2, <3>3, <3>4, RemoteType
  <2>2. ASSUME NEW k \in Refreshes, StreamEnds(k) PROVE TypeInv'
    BY <2>2 DEF StreamEnds, thread
  <2>3. ASSUME NEW k \in Refreshes, NEW s \in {200, 403}, OnResponse(k, s) PROVE TypeInv'
    <3>1. /\ answer[k] \in Answer /\ collected[k] \in Collected /\ s \in Statuses
      BY DEF Answer, Collected, Statuses
    <3>2. /\ [answer[k] EXCEPT !.status = s] \in Answer
          /\ [collected[k] EXCEPT !.status = s] \in Collected
      BY <3>1 DEF Answer, Collected
    <3>3. /\ answer' = [answer EXCEPT ![k] = [answer[k] EXCEPT !.status = s]]
          /\ collected' = [collected EXCEPT ![k] = [collected[k] EXCEPT !.status = s]]
      BY <2>3 DEF OnResponse, Cell
    <3>4. UNCHANGED <<thread, credentials, left, stream>>
      BY <2>3 DEF OnResponse
    <3> HIDE DEF TypeInv
    <3> QED
      BY <3>2, <3>3, <3>4, RemoteType
  <2> HIDE DEF TypeInv, TypeOK, Waiting, Refreshes
  <2> QED
    BY <1>8, <2>1, <2>2, <2>3 DEF Provider
<1>9. CASE Tick
  BY <1>9 DEF Tick, InTime, remote
<1>10. CASE UNCHANGED vars
  BY <1>10 DEF vars, thread, remote
<1> QED
  BY <1>1, <1>2, <1>3, <1>4, <1>5, <1>6, <1>7, <1>8, <1>9, <1>10 DEF Next, Serving, Thread, Results

\* Type correctness of every state.
THEOREM SessionTypeCorrect == Spec => []TypeOK
<1>1. TypeInv => TypeOK
  BY DEF TypeInv
<1> QED
  BY TypeInit, TypeStep, <1>1, PTL DEF Spec

LEMMA AlwaysTypeInv == Spec => []TypeInv
BY TypeInit, TypeStep, PTL DEF Spec

----------------------------------------------------------------------------
(* No call is signed with credentials that have run out.  A refresh that   *)
(* may fail began with MandatoryRefresh seconds left; each of its two      *)
(* waits has taken Timeout of them at most.                                *)

SpareTime ==
    /\ Waiting /\ ~mandatory => credentials # 0
    /\ state = "connecting" /\ ~mandatory => left + waited >= MandatoryRefresh
    /\ state = "waiting" /\ ~mandatory => left + waited + Timeout >= MandatoryRefresh

LEMMA SpareInit == Init => SpareTime
BY DEF Init, SpareTime, Waiting

LEMMA SpareStep == TypeInv /\ SpareTime /\ [Next]_vars => SpareTime'
<1> SUFFICES ASSUME TypeInv, SpareTime, [Next]_vars PROVE SpareTime'
  OBVIOUS
<1>0. left \in Nat /\ waited \in 0 .. Timeout /\ refresh \in Nat
  BY DEF TypeInv, TypeOK
<1>1. CASE state' \notin {"connecting", "waiting"}
  BY <1>1 DEF SpareTime, Waiting
<1>2. CASE BeginRefresh
  <2>1. ~mandatory' => ~RefreshNeeded(MandatoryRefresh)
    BY <1>2, Zenon DEF BeginRefresh
  <2>2. state' = "connecting" /\ waited' = 0 /\ credentials' = credentials /\ left' = left
    BY <1>2 DEF BeginRefresh
  <2> QED
    BY <1>0, <2>1, <2>2 DEF RefreshNeeded, SpareTime, Waiting
<1>3. CASE Connect
  BY <1>0, <1>3 DEF Connect, SpareTime, Waiting
<1>4. CASE Tick
  BY <1>0, <1>4 DEF Tick, InTime, SpareTime, Waiting
<1>5. CASE UNCHANGED <<thread, credentials, left>>
  BY <1>5 DEF thread, SpareTime, Waiting
<1>6. CASE GetSession \/ BeginCall \/ SignAtOnce
  BY <1>1, <1>6 DEF GetSession, BeginCall, SignAtOnce, Outcome
<1>7. CASE Results \/ ConnectFails
  BY <1>1, <1>7 DEF Results, ConnectTimesOut, ConnectFails, RequestFails, RequestTimesOut,
                    ParseRefused, ParseAccepted, RefreshFails, Outcome
<1>8. CASE Provider
  BY <1>5, <1>8 DEF Provider, OnBody, OnResponse, StreamEnds
<1>9. CASE UNCHANGED vars
  BY <1>5, <1>9 DEF vars
<1> QED
  BY <1>2, <1>3, <1>4, <1>6, <1>7, <1>8, <1>9 DEF Next, Serving, Thread

LEMMA SignedStep ==
    ASSUME TypeInv, SpareTime, [Next]_vars, call = "pending", call' = "signed"
    PROVE  credentials' # 0 /\ left' > 0
<1>0. left \in Nat /\ waited \in 0 .. Timeout /\ refresh \in Nat
  BY DEF TypeInv, TypeOK
<1>1. CASE SignAtOnce
  BY <1>0, <1>1 DEF SignAtOnce, RefreshNeeded, remote
<1>2. ASSUME Waiting, RefreshFails, UNCHANGED <<credentials, left>>
      PROVE  credentials' # 0 /\ left' > 0
  <2>1. ~mandatory
    BY <1>2 DEF RefreshFails, Outcome
  <2> QED
    BY <1>0, <1>2, <2>1 DEF SpareTime, Waiting
<1>3. CASE ConnectTimesOut \/ RequestFails \/ RequestTimesOut \/ ParseRefused \/ ConnectFails
  BY <1>2, <1>3 DEF ConnectTimesOut, ConnectFails, RequestFails, RequestTimesOut, ParseRefused,
                    Waiting
<1>4. CASE ParseAccepted
  <2>1. left' > 0 /\ credentials' = refresh
    BY <1>4 DEF ParseAccepted, Outcome
  <2>2. refresh # 0
    BY <1>4 DEF ParseAccepted, TypeInv, Waiting, Refreshes
  <2> QED
    BY <2>1, <2>2
<1>5. CASE GetSession \/ BeginRefresh \/ Connect \/ Tick \/ UNCHANGED vars
  BY <1>5 DEF GetSession, BeginRefresh, Connect, Tick, vars, thread
<1>6. CASE BeginCall
  BY <1>6 DEF BeginCall
<1>7. CASE Provider
  BY <1>7 DEF Provider, OnBody, OnResponse, StreamEnds, thread
<1> QED
  BY <1>1, <1>3, <1>4, <1>5, <1>6, <1>7 DEF Next, Serving, Thread, Results

\* A call is signed only with credentials that have not run out, whatever becomes of the
\* refresh: the two waits of _fetch_iot_credentials_via_awscrt end before they do.
THEOREM SignedCorrect == Spec => SignedWhileValid
<1>1. TypeInv /\ SpareTime /\ [Next]_vars
        => [call = "pending" /\ call' = "signed" => credentials' # 0 /\ left' > 0]_vars
  BY SignedStep
<1> QED
  BY AlwaysTypeInv, SpareInit, SpareStep, <1>1, PTL DEF Spec, SignedWhileValid

----------------------------------------------------------------------------
(* The credentials are those of one complete answer.  The callbacks of a   *)
(* request collect what it was answered and nothing else, and an answer    *)
(* that is complete does not change.                                       *)

OneAnswer ==
    /\ CredentialsFromOneAnswer
    /\ collected = answer
    /\ Waiting => credentials < refresh

LEMMA OneAnswerInit == Init => OneAnswer
BY DEF Init, OneAnswer, CredentialsFromOneAnswer, Waiting

LEMMA OneAnswerStep == TypeInv /\ OneAnswer /\ [Next]_vars => OneAnswer'
<1> SUFFICES ASSUME TypeInv, OneAnswer, [Next]_vars PROVE OneAnswer'
  OBVIOUS
<1>1. ASSUME UNCHANGED <<credentials, remote>>, Waiting' => credentials' < refresh'
      PROVE  OneAnswer'
  BY <1>1 DEF remote, OneAnswer, CredentialsFromOneAnswer
<1>2. CASE GetSession \/ SignAtOnce \/ BeginCall \/ Tick \/ UNCHANGED vars
  BY <1>1, <1>2 DEF GetSession, SignAtOnce, BeginCall, Tick, Outcome, OneAnswer, Waiting,
                    vars, thread
<1>3. CASE ConnectTimesOut \/ RequestFails \/ RequestTimesOut \/ ParseRefused \/ ConnectFails
  BY <1>1, <1>3 DEF ConnectTimesOut, ConnectFails, RequestFails, RequestTimesOut, ParseRefused,
                    RefreshFails, Outcome, Waiting
<1>4. CASE BeginRefresh
  BY <1>1, <1>4 DEF BeginRefresh, TypeInv, TypeOK
<1>5. CASE ParseAccepted
  <2>1. refresh \in Refreshes /\ answer[refresh] \in Answer
    BY <1>5 DEF ParseAccepted, TypeInv, TypeOK, Waiting, Answer
  <2>2. answer[refresh].status = 200 /\ answer[refresh].body = Chunks
    BY <1>5 DEF ParseAccepted, Accepted, Cell, OneAnswer
  <2>3. answer[refresh] = [status |-> 200, body |-> Chunks]
    BY <2>1, <2>2 DEF Answer
  <2> QED
    BY <1>5, <2>3 DEF ParseAccepted, Outcome, remote, OneAnswer, CredentialsFromOneAnswer, Waiting
<1>6. CASE Connect
  <2>1. credentials < refresh /\ stream \in [Refreshes -> {"none", "open", "complete", "broken"}]
    BY <1>6 DEF Connect, OneAnswer, TypeInv, TypeOK, Waiting
  <2>2. credentials # 0 => stream'[credentials] = stream[credentials]
    BY <1>6, <2>1 DEF Connect, OneAnswer, CredentialsFromOneAnswer, TypeInv, TypeOK, Refreshes
  <2> QED
    BY <1>6, <2>1, <2>2 DEF Connect, OneAnswer, CredentialsFromOneAnswer, Waiting
<1>7. ASSUME NEW k \in Refreshes, stream[k] = "open", UNCHANGED <<thread, credentials>>,
             \A j \in Refreshes \ {k} : stream'[j] = stream[j] /\ answer'[j] = answer[j],
             collected' = answer'
      PROVE  OneAnswer'
  <2>1. credentials # 0 => credentials \in Refreshes \ {k}
    BY <1>7 DEF OneAnswer, CredentialsFromOneAnswer, TypeInv, TypeOK, Refreshes
  <2> QED
    BY <1>7, <2>1 DEF OneAnswer, CredentialsFromOneAnswer, Waiting, thread
<1>8. CASE Provider
  <2>1. ASSUME NEW k \in Refreshes, OnBody(k) PROVE OneAnswer'
    <3>1. stream[k] = "open" /\ UNCHANGED <<thread, credentials, stream>>
      BY <2>1 DEF OnBody
    <3>2. collected' = answer'
      BY <2>1 DEF OnBody, Cell, OneAnswer
    <3>3. \A j \in Refreshes \ {k} : answer'[j] = answer[j]
      BY <2>1 DEF OnBody, TypeInv, TypeOK
    <3> QED
      BY <1>7, <3>1, <3>2, <3>3
  <2>2. ASSUME NEW k \in Refreshes, NEW s \in {200, 403}, OnResponse(k, s) PROVE OneAnswer'
    <3>1. stream[k] = "open" /\ UNCHANGED <<thread, credentials, stream>>
      BY <2>2 DEF OnResponse
    <3>2. collected' = answer'
      BY <2>2 DEF OnResponse, Cell, OneAnswer
    <3>3. \A j \in Refreshes \ {k} : answer'[j] = answer[j]
      BY <2>2 DEF OnResponse, TypeInv, TypeOK
    <3> QED
      BY <1>7, <3>1, <3>2, <3>3
  <2>3. ASSUME NEW k \in Refreshes, StreamEnds(k) PROVE OneAnswer'
    <3>1. stream[k] = "open" /\ UNCHANGED <<thread, credentials, answer, collected>>
      BY <2>3 DEF StreamEnds
    <3>2. \A j \in Refreshes \ {k} : stream'[j] = stream[j]
      BY <2>3 DEF StreamEnds, TypeInv, TypeOK
    <3> QED
      BY <1>7, <3>1, <3>2 DEF OneAnswer
  <2> QED
    BY <1>8, <2>1, <2>2, <2>3 DEF Provider
<1> QED
  BY <1>2, <1>3, <1>4, <1>5, <1>6, <1>8 DEF Next, Serving, Thread, Results

\* The credentials in use are those of one complete answer with status 200 to the request
\* they were fetched with, although the callbacks of abandoned requests are still called.
THEOREM OneAnswerCorrect == Spec => []CredentialsFromOneAnswer
<1>1. OneAnswer => CredentialsFromOneAnswer
  BY DEF OneAnswer
<1> QED
  BY AlwaysTypeInv, OneAnswerInit, OneAnswerStep, <1>1, PTL DEF Spec
============================================================================
