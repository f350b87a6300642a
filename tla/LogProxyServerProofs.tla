------------------------ MODULE LogProxyServerProofs ------------------------
(***************************************************************************)
(* Theorems about LogProxyServer: for all suffixes, limits of the queue    *)
(* and levels, and any number of requests in flight over both servers.     *)
(***************************************************************************)
EXTENDS LogProxyServer, TLAPS

USE SuffixAssumption, BacklogAssumption, LevelsAssumption, RequestsAssumption

Contents == HttpContent \cup GrpcContent
Places   == {"sending", "received", "replying", "answered", "ended"}

----------------------------------------------------------------------------
(* Types.                                                                  *)

TypeInv == TypeOK /\ Len(requests) <= MaxRequests

LEMMA CodeType == \A r : Code(r) \in ErrorCode
BY DEF Code, PutLogCode, ErrorCode

\* What the handlers put, and what they answer.
LEMMA HandledType ==
    ASSUME TypeInv, NEW r \in DOMAIN requests
    PROVE  /\ HttpStatus(Code(r)) \in Answers /\ Code(r) \in Answers
           /\ [key |-> <<ConvertFromLogType(requests[r].content.logType), requests[r].content.ecu>>,
               id |-> r] \in Entry
<1>1. Code(r) \in Answers
  BY CodeType DEF Answers
<1>2. HttpStatus(Code(r)) \in Answers
  BY DEF HttpStatus, Answers, HttpStatuses
<1>3. requests[r] \in Request /\ r \in Nat
  BY DEF TypeInv, TypeOK
<1>4. requests[r].content.ecu \in Suffixes
  BY <1>3 DEF Request, HttpContent, GrpcContent
<1> QED
  BY <1>1, <1>2, <1>3, <1>4 DEF Entry, Keys, LogGroupType, ConvertFromLogType

LEMMA MoveType ==
    ASSUME TypeInv, NEW r \in DOMAIN requests, NEW from, NEW to \in Places, Move(r, from, to)
    PROVE  requests' \in Seq(Request) /\ Len(requests') = Len(requests)
<1>1. requests[r] \in Request
  BY DEF TypeInv, TypeOK
<1>2. [requests[r] EXCEPT !.at = to] \in Request
  BY <1>1 DEF Request, Places
<1>3. requests' = [requests EXCEPT ![r] = [requests[r] EXCEPT !.at = to]]
  BY DEF Move, TypeInv, TypeOK
<1> QED
  BY <1>2, <1>3 DEF TypeInv, TypeOK

\* A request that is handled gets its answer, and nothing else of any request changes.
LEMMA HandledRequest ==
    ASSUME TypeInv, NEW r \in DOMAIN requests, NEW answer, NEW code, PutLog(r, code, answer)
    PROVE  /\ answer \in Answers => requests' \in Seq(Request)
           /\ Len(requests') = Len(requests) /\ DOMAIN requests' = DOMAIN requests
           /\ requests'[r].content = requests[r].content /\ requests'[r].after = requests[r].after
           /\ requests'[r].answer = answer /\ requests'[r].at = "replying"
           /\ \A q \in DOMAIN requests : q # r => requests'[q] = requests[q]
<1> DEFINE old == requests[r]
           mid == [old EXCEPT !.at = "replying"]
           new == [mid EXCEPT !.answer = answer]
<1>1. old \in Request /\ requests \in Seq(Request)
  BY DEF TypeInv, TypeOK
<1>2. mid \in Request
  BY <1>1 DEF Request
<1>3. answer \in Answers => new \in Request
  BY <1>2 DEF Request
<1>4. /\ mid.content = old.content /\ mid.after = old.after /\ mid.at = "replying"
      /\ new.content = mid.content /\ new.after = mid.after
      /\ new.at = mid.at /\ new.answer = answer
  BY <1>1, <1>2 DEF Request
<1>5. requests' = [requests EXCEPT ![r] = new]
  <2>1. requests' = [[requests EXCEPT ![r].at = "replying"] EXCEPT ![r].answer = answer]
    BY DEF PutLog
  <2> QED
    BY <1>1, <2>1
<1>6. /\ Len(requests') = Len(requests) /\ DOMAIN requests' = DOMAIN requests
      /\ requests'[r] = new /\ \A q \in DOMAIN requests : q # r => requests'[q] = requests[q]
  BY <1>1, <1>5
<1>7. answer \in Answers => requests' \in Seq(Request)
  BY <1>1, <1>3, <1>5
<1> HIDE DEF new, mid
<1> QED
  BY <1>4, <1>6, <1>7

\* Room is looked for and the entry put in one step.
LEMMA PutLogType ==
    ASSUME TypeInv, NEW r \in DOMAIN requests, NEW answer \in Answers, PutLog(r, Code(r), answer)
    PROVE  TypeInv'
<1> DEFINE e == [key |-> <<ConvertFromLogType(requests[r].content.logType), requests[r].content.ecu>>,
                 id |-> r]
<1>1. requests' \in Seq(Request) /\ Len(requests') = Len(requests)
  BY HandledRequest
<1>2. e \in Entry
  BY HandledType
<1>3. CASE Code(r) = "NO_FAILURE"
  <2>1. queue' = Append(queue, e) /\ accepted' = Append(accepted, e)
    BY <1>3 DEF PutLog, PutEntry
  <2>2. ~Full(queue)
    BY <1>3 DEF Code, PutLogCode
  <2>3. MaxBacklog > 0 => Len(queue') <= MaxBacklog
    BY <2>1, <2>2 DEF Full, TypeInv, TypeOK
  <2> QED
    BY <1>1, <1>2, <2>1, <2>3 DEF PutLog, TypeInv, TypeOK, servers
<1>4. CASE Code(r) # "NO_FAILURE"
  BY <1>1, <1>4 DEF PutLog, TypeInv, TypeOK, servers
<1> QED
  BY <1>3, <1>4

LEMMA TypeStep == TypeInv /\ [Next]_vars => TypeInv'
<1> SUFFICES ASSUME TypeInv, [Next]_vars PROVE TypeInv'
  OBVIOUS
<1>1. CASE Starting
  BY <1>1 DEF Starting, StartHttpServer, StartGrpcServer, SdNotify, TypeInv, TypeOK
<1>2. ASSUME NEW content \in Contents, Send(content) PROVE TypeInv'
  <2> DEFINE new == [content |-> content, after |-> Answered, at |-> "sending", answer |-> "none"]
  <2>1. Answered \subseteq 1 .. MaxRequests
    BY DEF Answered, TypeInv, TypeOK
  <2>2. new \in Request
    BY <2>1 DEF Request, Contents, Answers
  <2>3. requests' = Append(requests, new)
    BY <1>2 DEF Send
  <2>4. requests' \in Seq(Request) /\ Len(requests') = Len(requests) + 1
    BY <2>2, <2>3 DEF TypeInv, TypeOK
  <2> QED
    BY <1>2, <2>4 DEF Send, TypeInv, TypeOK, servers
<1>3. ASSUME NEW r \in DOMAIN requests,
             Receive(r) \/ BodyFails(r) \/ GrpcConvertFails(r) \/ Reply(r) \/ ReplyLost(r)
      PROVE  TypeInv'
  <2>1. requests' \in Seq(Request) /\ Len(requests') = Len(requests)
    BY <1>3, MoveType DEF Receive, BodyFails, GrpcConvertFails, Reply, ReplyLost, Places
  <2> QED
    BY <1>3, <2>1
       DEF Receive, BodyFails, GrpcConvertFails, Reply, ReplyLost, TypeInv, TypeOK, servers
<1>4. ASSUME NEW r \in DOMAIN requests, HttpPutLog(r) \/ GrpcPutLog(r) PROVE TypeInv'
  BY <1>4, HandledType, PutLogType DEF HttpPutLog, GrpcPutLog
<1>5. CASE Take
  <2>1. queue' \in Seq(Entry) /\ Len(queue') = Len(queue) - 1
    BY <1>5 DEF Take, TypeInv, TypeOK
  <2> QED
    BY <1>5, <2>1 DEF Take, TypeInv, TypeOK, servers
<1>6. CASE UNCHANGED vars
  BY <1>6 DEF vars, servers, TypeInv, TypeOK
<1> QED
  BY <1>1, <1>2, <1>3, <1>4, <1>5, <1>6 DEF Next, Handle, Contents

LEMMA TypeInit == Init => TypeInv
BY DEF Init, TypeInv, TypeOK

\* Types of the servers and requests, and the limit of the queue with requests of any
\* number of clients in flight (servicer.py:99).
THEOREM ServerTypeCorrect == Spec => []TypeOK
<1>1. TypeInv => TypeOK
  BY DEF TypeInv
<1> QED
  BY <1>1, TypeInit, TypeStep, PTL DEF Spec

----------------------------------------------------------------------------
(* Truthful answers.  What a request is told is decided when its handler   *)
(* runs, and nothing of it is in the queue before.                         *)

\* What the answer prepared for a request says, of the entries accepted.
Truth(r) ==
    LET c    == requests[r].content
        good == c.hasMessage /\ (AllowedEcus = {} \/ c.ecu \in AllowedEcus)
    IN  /\ requests[r].answer \in Success =>
             \E i \in DOMAIN accepted :
                 PutBy(r) = {i} /\ accepted[i].key = <<ConvertFromLogType(c.logType), c.ecu>>
        /\ requests[r].answer \notin Success => PutBy(r) = {}
        /\ requests[r].answer \in Retry => good
        /\ requests[r].answer \notin Success \cup Retry => ~good

TruthInv ==
    /\ \A i \in DOMAIN accepted : accepted[i].id \in DOMAIN requests
    /\ \A r \in DOMAIN requests :
         /\ requests[r].at \in {"sending", "received"} => PutBy(r) = {}
         /\ requests[r].at \in {"replying", "answered"} => Truth(r)

\* A request that goes on or ends without being handled.
LEMMA MoveTruth ==
    ASSUME TypeInv, TruthInv, NEW r \in DOMAIN requests, NEW from \in Places, NEW to \in Places,
           Move(r, from, to), UNCHANGED accepted,
           to \in {"sending", "received"} => from \in {"sending", "received"},
           to \in {"replying", "answered"} => from \in {"replying", "answered"}
    PROVE  TruthInv'
<1>1. DOMAIN requests' = DOMAIN requests
  BY DEF Move, TypeInv, TypeOK
<1>2. \A q \in DOMAIN requests :
        /\ requests'[q].content = requests[q].content /\ requests'[q].answer = requests[q].answer
        /\ q # r => requests'[q].at = requests[q].at
        /\ q = r => requests'[q].at = to
  BY DEF Move, TypeInv, TypeOK, Request
<1>3. requests[r].at = from
  BY DEF Move
<1>4. \A q \in DOMAIN requests : (Truth(q) => Truth(q)') /\ PutBy(q)' = PutBy(q)
  BY <1>2 DEF Truth, PutBy
<1> QED
  BY <1>1, <1>2, <1>3, <1>4 DEF TruthInv

\* An answer of either protocol fits the code of _put_log.
Fits(code, answer) ==
    /\ (answer \in Success) = (code = "NO_FAILURE")
    /\ (answer \in Retry) = (code = "SERVER_QUEUE_FULL")

LEMMA AnswersFit == \A code \in ErrorCode : Fits(code, code) /\ Fits(code, HttpStatus(code))
BY DEF ErrorCode, Fits, HttpStatus, Success, Retry

LEMMA PutLogTruth ==
    ASSUME TypeInv, TruthInv, NEW r \in DOMAIN requests, NEW answer, PutLog(r, Code(r), answer),
           Fits(Code(r), answer)
    PROVE  TruthInv'
<1> DEFINE c    == requests[r].content
           e    == [key |-> <<ConvertFromLogType(c.logType), c.ecu>>, id |-> r]
           n    == Len(accepted)
           good == c.hasMessage /\ (AllowedEcus = {} \/ c.ecu \in AllowedEcus)
<1>1. DOMAIN requests' = DOMAIN requests /\ requests[r].at = "received"
  BY HandledRequest DEF PutLog
<1>2. /\ requests'[r].content = c /\ requests'[r].answer = answer /\ requests'[r].at = "replying"
      /\ \A q \in DOMAIN requests : q # r => requests'[q] = requests[q]
  BY HandledRequest
<1>3. PutBy(r) = {}
  BY <1>1 DEF TruthInv
<1>4. /\ Code(r) = "NO_FAILURE" => good
      /\ Code(r) = "SERVER_QUEUE_FULL" => good
      /\ Code(r) \notin {"NO_FAILURE", "SERVER_QUEUE_FULL"} => ~good
  BY DEF Code, PutLogCode, Filtered
<1>5. CASE Code(r) = "NO_FAILURE"
  <2>1. accepted' = Append(accepted, e)
    BY <1>5 DEF PutLog, PutEntry
  <2>2. /\ n \in Nat /\ DOMAIN accepted = 1 .. n /\ DOMAIN accepted' = 1 .. n + 1
        /\ accepted'[n + 1] = e /\ \A i \in 1 .. n : accepted'[i] = accepted[i]
    BY <2>1 DEF TypeInv, TypeOK
  <2>3. PutBy(r)' = {n + 1}
    BY <1>3, <2>2 DEF PutBy
  <2>4. \A q \in DOMAIN requests : q # r => PutBy(q)' = PutBy(q)
    BY <2>2 DEF PutBy
  <2>5. Truth(r)'
    BY <1>2, <1>4, <1>5, <2>2, <2>3 DEF Truth, Fits
  <2>6. \A q \in DOMAIN requests : q # r /\ Truth(q) => Truth(q)'
    BY <1>2, <2>2, <2>4 DEF Truth
  <2> QED
    BY <1>1, <1>2, <2>2, <2>4, <2>5, <2>6 DEF TruthInv
<1>6. CASE Code(r) # "NO_FAILURE"
  <2>1. UNCHANGED accepted
    BY <1>6 DEF PutLog
  <2>2. \A q \in DOMAIN requests : PutBy(q)' = PutBy(q)
    BY <2>1 DEF PutBy
  <2>3. Truth(r)'
    BY <1>2, <1>3, <1>4, <1>6, <2>1, <2>2 DEF Truth, Fits
  <2>4. \A q \in DOMAIN requests : q # r /\ Truth(q) => Truth(q)'
    BY <1>2, <2>1, <2>2 DEF Truth
  <2> QED
    BY <1>1, <1>2, <2>1, <2>2, <2>3, <2>4 DEF TruthInv
<1> QED
  BY <1>5, <1>6

LEMMA SendTruth ==
    ASSUME TypeInv, TruthInv, NEW content \in Contents, Send(content)
    PROVE  TruthInv'
<1> DEFINE n == Len(requests)
<1>1. /\ n \in Nat /\ DOMAIN requests = 1 .. n /\ DOMAIN requests' = 1 .. n + 1
      /\ requests'[n + 1].at = "sending" /\ \A q \in 1 .. n : requests'[q] = requests[q]
      /\ UNCHANGED accepted
  BY DEF Send, TypeInv, TypeOK
<1>2. ASSUME NEW q, q = n + 1 PROVE PutBy(q)' = {}
  BY <1>1, <1>2 DEF PutBy, TruthInv
<1>3. \A q \in 1 .. n : (Truth(q) => Truth(q)') /\ PutBy(q)' = PutBy(q)
  BY <1>1 DEF Truth, PutBy
<1>4. \A i \in DOMAIN accepted' : accepted'[i].id \in DOMAIN requests'
  BY <1>1 DEF TruthInv
<1>5. ASSUME NEW q \in 1 .. n + 1
      PROVE  /\ requests'[q].at \in {"sending", "received"} => PutBy(q)' = {}
             /\ requests'[q].at \in {"replying", "answered"} => Truth(q)'
  <2>1. CASE q \in 1 .. n
    BY <1>1, <1>3, <2>1 DEF TruthInv
  <2>2. CASE q = n + 1
    BY <1>1, <1>2, <2>2
  <2> QED
    BY <1>1, <2>1, <2>2
<1> QED
  BY <1>1, <1>4, <1>5 DEF TruthInv

LEMMA TruthStep == TypeInv /\ TruthInv /\ [Next]_vars => TruthInv'
<1> SUFFICES ASSUME TypeInv, TruthInv, [Next]_vars PROVE TruthInv'
  OBVIOUS
<1>1. ASSUME UNCHANGED <<requests, accepted>> PROVE TruthInv'
  BY <1>1 DEF TruthInv, Truth, PutBy
<1>2. CASE Starting
  BY <1>1, <1>2 DEF Starting, StartHttpServer, StartGrpcServer, SdNotify
<1>3. ASSUME NEW content \in Contents, Send(content) PROVE TruthInv'
  BY <1>3, SendTruth
<1>4. ASSUME NEW r \in DOMAIN requests,
             Receive(r) \/ BodyFails(r) \/ GrpcConvertFails(r) \/ Reply(r) \/ ReplyLost(r)
      PROVE  TruthInv'
  BY <1>4, MoveTruth DEF Receive, BodyFails, GrpcConvertFails, Reply, ReplyLost, Places
<1>5. ASSUME NEW r \in DOMAIN requests, HttpPutLog(r) \/ GrpcPutLog(r) PROVE TruthInv'
  BY <1>5, CodeType, AnswersFit, PutLogTruth DEF HttpPutLog, GrpcPutLog
<1>6. CASE Take
  BY <1>1, <1>6 DEF Take
<1>7. CASE UNCHANGED vars
  BY <1>1, <1>7 DEF vars
<1> QED
  BY <1>2, <1>3, <1>4, <1>5, <1>6, <1>7 DEF Next, Handle, Contents

LEMMA TruthInit == Init => TruthInv
BY DEF Init, TruthInv

\* What a client is told over HTTP or gRPC is what became of its message, whatever
\* other requests and the uploader do between its handler and its answer.
THEOREM AnswersCorrect == Spec => []AnswerIsTruthful
<1>1. TruthInv => AnswerIsTruthful
  BY DEF TruthInv, Truth, AnswerIsTruthful, Answered
<1> QED
  BY <1>1, TypeInit, TypeStep, TruthInit, TruthStep, PTL DEF Spec

----------------------------------------------------------------------------
(* The order of a client that waits: what was answered when a request was  *)
(* sent stays answered, and is in the queue before it or not at all.       *)

OrderInv ==
    /\ \A r \in DOMAIN requests : requests[r].after \subseteq Answered
    /\ QueuedInOrderSent

\* Requests are answered for good, and say what was answered when they were sent.
LEMMA SameOrder ==
    ASSUME TypeInv, TruthInv, OrderInv, UNCHANGED accepted, Answered \subseteq Answered',
           \A r \in DOMAIN requests : r \in DOMAIN requests' /\ requests'[r].after = requests[r].after,
           \A r \in DOMAIN requests' \ DOMAIN requests : requests'[r].after \subseteq Answered
    PROVE  OrderInv'
BY DEF OrderInv, QueuedInOrderSent, TruthInv

LEMMA MoveOrder ==
    ASSUME TypeInv, TruthInv, OrderInv, NEW r \in DOMAIN requests, NEW from \in Places \ {"answered"},
           NEW to \in Places, Move(r, from, to), UNCHANGED accepted
    PROVE  OrderInv'
<1>1. DOMAIN requests' = DOMAIN requests
  BY DEF Move, TypeInv, TypeOK
<1>2. \A q \in DOMAIN requests :
        /\ requests'[q].after = requests[q].after
        /\ q # r => requests'[q].at = requests[q].at
  BY DEF Move, TypeInv, TypeOK, Request
<1>3. Answered \subseteq Answered'
  BY <1>1, <1>2 DEF Move, Answered
<1> QED
  BY <1>1, <1>2, <1>3, SameOrder

LEMMA SendOrder ==
    ASSUME TypeInv, TruthInv, OrderInv, NEW content \in Contents, Send(content)
    PROVE  OrderInv'
<1> DEFINE n == Len(requests)
<1>1. /\ n \in Nat /\ DOMAIN requests = 1 .. n /\ DOMAIN requests' = 1 .. n + 1
      /\ requests'[n + 1].after = Answered /\ \A q \in 1 .. n : requests'[q] = requests[q]
      /\ UNCHANGED accepted
  BY DEF Send, TypeInv, TypeOK
<1>2. Answered \subseteq Answered'
  BY <1>1 DEF Answered
<1> QED
  BY <1>1, <1>2, SameOrder

LEMMA PutLogOrder ==
    ASSUME TypeInv, TruthInv, OrderInv, NEW r \in DOMAIN requests, NEW answer, PutLog(r, Code(r), answer)
    PROVE  OrderInv'
<1> DEFINE n == Len(accepted)
<1>1. /\ DOMAIN requests' = DOMAIN requests /\ r \notin Answered
      /\ \A q \in DOMAIN requests : requests'[q].after = requests[q].after
      /\ \A q \in DOMAIN requests : q # r => requests'[q].at = requests[q].at
  <2>1. requests[r].at = "received"
    BY DEF PutLog
  <2> QED
    BY <2>1, HandledRequest DEF Answered
<1>2. Answered \subseteq Answered'
  BY <1>1 DEF Answered
<1>3. CASE Code(r) = "NO_FAILURE"
  <2>1. /\ n \in Nat /\ DOMAIN accepted = 1 .. n /\ DOMAIN accepted' = 1 .. n + 1
        /\ accepted'[n + 1].id = r /\ \A i \in 1 .. n : accepted'[i] = accepted[i]
    BY <1>3 DEF PutLog, PutEntry, TypeInv, TypeOK
  <2>2. \A i \in 1 .. n + 1 : accepted'[i].id \in DOMAIN requests
    BY <2>1 DEF TruthInv
  <2>3. QueuedInOrderSent'
    <3> SUFFICES ASSUME NEW i \in 1 .. n + 1, NEW j \in 1 .. n + 1,
                        accepted'[i].id \in requests'[accepted'[j].id].after
                 PROVE  i < j
      BY <2>1 DEF QueuedInOrderSent
    <3>1. accepted'[i].id \in Answered
      BY <1>1, <2>2 DEF OrderInv
    <3>2. i \in 1 .. n
      BY <1>1, <2>1, <3>1
    <3>3. CASE j \in 1 .. n
      <4>1. accepted[i].id \in requests[accepted[j].id].after
        BY <1>1, <2>1, <2>2, <3>2, <3>3
      <4> QED
        BY <2>1, <3>2, <3>3, <4>1 DEF OrderInv, QueuedInOrderSent
    <3>4. CASE j = n + 1
      BY <2>1, <3>2, <3>4
    <3> QED
      BY <2>1, <3>3, <3>4
  <2> QED
    BY <1>1, <1>2, <2>3 DEF OrderInv
<1>4. CASE Code(r) # "NO_FAILURE"
  <2>1. UNCHANGED accepted
    BY <1>4 DEF PutLog
  <2> QED
    BY <1>1, <1>2, <2>1, SameOrder
<1> QED
  BY <1>3, <1>4

LEMMA OrderStep == TypeInv /\ TruthInv /\ OrderInv /\ [Next]_vars => OrderInv'
<1> SUFFICES ASSUME TypeInv, TruthInv, OrderInv, [Next]_vars PROVE OrderInv'
  OBVIOUS
<1>1. ASSUME UNCHANGED <<requests, accepted>> PROVE OrderInv'
  BY <1>1 DEF OrderInv, QueuedInOrderSent, Answered
<1>2. CASE Starting
  BY <1>1, <1>2 DEF Starting, StartHttpServer, StartGrpcServer, SdNotify
<1>3. ASSUME NEW content \in Contents, Send(content) PROVE OrderInv'
  BY <1>3, SendOrder
<1>4. ASSUME NEW r \in DOMAIN requests,
             Receive(r) \/ BodyFails(r) \/ GrpcConvertFails(r) \/ Reply(r) \/ ReplyLost(r)
      PROVE  OrderInv'
  BY <1>4, MoveOrder DEF Receive, BodyFails, GrpcConvertFails, Reply, ReplyLost, Places
<1>5. ASSUME NEW r \in DOMAIN requests, HttpPutLog(r) \/ GrpcPutLog(r) PROVE OrderInv'
  BY <1>5, PutLogOrder DEF HttpPutLog, GrpcPutLog
<1>6. CASE Take
  BY <1>1, <1>6 DEF Take
<1>7. CASE UNCHANGED vars
  BY <1>1, <1>7 DEF vars
<1> QED
  BY <1>2, <1>3, <1>4, <1>5, <1>6, <1>7 DEF Next, Handle, Contents

\* A message that was answered before another one was sent is in the queue first, over
\* whichever server, with any number of other requests in flight.
THEOREM OrderCorrect == Spec => []QueuedInOrderSent
<1>1. Init => OrderInv
  BY DEF Init, OrderInv, QueuedInOrderSent
<1>2. OrderInv => QueuedInOrderSent
  BY DEF OrderInv
<1> QED
  BY <1>1, <1>2, TypeInit, TypeStep, TruthInit, TruthStep, OrderStep, PTL DEF Spec
----------------------------------------------------------------------------
(* The contract of the queue: a handler puts a request that was not put    *)
(* before, which is what TruthInv says of one that was only received.      *)

PutIds == {accepted[i].id : i \in DOMAIN accepted}

LEMMA PutLogContract ==
    ASSUME TypeInv, TruthInv, NEW r \in DOMAIN requests, NEW answer, PutLog(r, Code(r), answer)
    PROVE  [Contract!Next]_(Contract!vars)
<1> DEFINE key == <<ConvertFromLogType(requests[r].content.logType), requests[r].content.ecu>>
           e   == [key |-> key, id |-> r]
<1>1. CASE Code(r) = "NO_FAILURE"
  <2>1. queue' = Append(queue, e) /\ accepted' = Append(accepted, e)
    BY <1>1 DEF PutLog, PutEntry
  <2>2. ~Full(queue) /\ ~Filtered(key[2])
    BY <1>1 DEF Code, PutLogCode
  <2>3. r \notin PutIds
    BY DEF PutLog, TruthInv, PutBy, PutIds
  <2>4. e \in Entry /\ r \in 1 .. MaxRequests /\ key \in Contract!Keys
    <3>1. e \in Entry /\ r \in 1 .. MaxRequests
      BY HandledType DEF TypeInv, TypeOK
    <3> QED
      BY <3>1 DEF Entry, Keys, LogGroupType, Contract!Keys, Contract!LogGroupType
  <2>5. PutIds' = PutIds \cup {r}
    <3>1. /\ Len(accepted) \in Nat /\ DOMAIN accepted = 1 .. Len(accepted)
          /\ DOMAIN accepted' = 1 .. Len(accepted) + 1
          /\ \A i \in 1 .. Len(accepted) : accepted'[i] = accepted[i]
          /\ accepted'[Len(accepted) + 1] = e
      BY <2>1, <2>4 DEF TypeInv, TypeOK
    <3> QED
      BY <3>1 DEF PutIds
  <2>6. Contract!Put(key, r)
    BY <2>1, <2>2, <2>3, <2>5
       DEF Contract!Put, Contract!Admitted, Contract!Filtered, Contract!Full, Filtered, Full, PutIds
  <2> QED
    BY <2>4, <2>6 DEF Contract!Next
<1>2. CASE Code(r) # "NO_FAILURE"
  BY <1>2 DEF PutLog, Contract!vars
<1> QED
  BY <1>1, <1>2

\* However many requests are in flight over both servers, what they put is what the
\* contract of the queue allows: each message once, when there is room and it may be.
THEOREM ContractCorrect == Spec => KeepsContract
<1>1. Init => Contract!Init
  BY DEF Init, Contract!Init
<1>2. TypeInv /\ TruthInv /\ [Next]_vars => [Contract!Next]_(Contract!vars)
  <2> SUFFICES ASSUME TypeInv, TruthInv, [Next]_vars PROVE [Contract!Next]_(Contract!vars)
    OBVIOUS
  <2>1. ASSUME UNCHANGED <<queue, accepted>> PROVE [Contract!Next]_(Contract!vars)
    BY <2>1 DEF Contract!vars
  <2>2. CASE Starting
    BY <2>1, <2>2 DEF Starting, StartHttpServer, StartGrpcServer, SdNotify
  <2>3. ASSUME NEW content \in Contents, Send(content) PROVE [Contract!Next]_(Contract!vars)
    BY <2>1, <2>3 DEF Send
  <2>4. ASSUME NEW r \in DOMAIN requests,
               Receive(r) \/ BodyFails(r) \/ GrpcConvertFails(r) \/ Reply(r) \/ ReplyLost(r)
        PROVE  [Contract!Next]_(Contract!vars)
    BY <2>1, <2>4 DEF Receive, BodyFails, GrpcConvertFails, Reply, ReplyLost
  <2>5. ASSUME NEW r \in DOMAIN requests, HttpPutLog(r) \/ GrpcPutLog(r)
        PROVE  [Contract!Next]_(Contract!vars)
    BY <2>5, PutLogContract DEF HttpPutLog, GrpcPutLog
  <2>6. CASE Take
    BY <2>6 DEF Take, Contract!Next, Contract!Take
  <2>7. CASE UNCHANGED vars
    BY <2>1, <2>7 DEF vars
  <2> QED
    BY <2>2, <2>3, <2>4, <2>5, <2>6, <2>7 DEF Next, Handle, Contents
<1> QED
  BY <1>1, <1>2, TypeInit, TypeStep, TruthInit, TruthStep, PTL
     DEF Spec, KeepsContract, Contract!Spec
============================================================================
