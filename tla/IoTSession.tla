----------------------------- MODULE IoTSession ----------------------------
(***************************************************************************)
(* The session that signs the calls of the uploader: when credentials are  *)
(* fetched, the request to the AWS IoT credential provider with its two    *)
(* time-outs, and the callbacks that collect the answer                    *)
(* (boto3_session.py; the rules of DeferredRefreshableCredentials are      *)
(* those of botocore).                                                     *)
(*                                                                         *)
(* Time is in seconds.  It passes while the thread waits for a future and  *)
(* between two calls; what the code computes takes none.                   *)
(***************************************************************************)
EXTENDS Integers

CONSTANTS
    Timeout,           \* _AWSCRT_TIMEOUT_SEC (10)
    MandatoryRefresh,  \* botocore: seconds left when a refresh must succeed (600)
    AdvisoryRefresh,   \* botocore: seconds left when one is tried (900)
    Lifetime,          \* the longest that credentials are valid
    Chunks,            \* the chunks of a complete body
    MaxRefresh         \* bound of the model: refreshes

\* A refresh is over before credentials that were good enough run out.
ASSUME TimeoutAssumption == Timeout \in Nat /\ MandatoryRefresh \in Nat /\ 2 * Timeout < MandatoryRefresh
ASSUME RefreshAssumption == AdvisoryRefresh \in Nat /\ MandatoryRefresh <= AdvisoryRefresh
ASSUME BoundsAssumption  == Lifetime \in Nat /\ Chunks \in Nat /\ MaxRefresh \in Nat

Refreshes == 1 .. MaxRefresh
Statuses  == {0, 200, 403}

VARIABLES
    state,        \* where the thread is
    call,         \* the call of the cloud under way, or how the last one began
    mandatory,    \* is_mandatory_refresh of the refresh under way
    waited,       \* seconds waited for the future
    refresh,      \* the number of the refresh under way, or of the last one
    credentials,  \* the refresh the credentials come from, 0 for none
    left,         \* the seconds they are valid for
    stream,       \* of each refresh: its request to the provider
    answer,       \* of each refresh: what the provider has sent so far
    collected     \* of each refresh: response_status_code and response_body

thread == <<state, call, mandatory, waited, refresh>>
remote == <<stream, answer, collected>>
vars   == <<thread, credentials, left, remote>>

Waiting == state \in {"connecting", "waiting"}
Nothing == [status |-> 0, body |-> 0]

Init ==
    /\ state = "starting" /\ call = "none"
    /\ mandatory = FALSE /\ waited = 0 /\ refresh = 0
    /\ credentials = 0 /\ left = 0
    /\ stream = [k \in Refreshes |-> "none"]
    /\ answer = [k \in Refreshes |-> Nothing] /\ collected = [k \in Refreshes |-> Nothing]

----------------------------------------------------------------------------
(* The session is created when the uploader is.  What that depends on is a *)
(* matter of the configuration (Startup).                                  *)

GetSession ==
    /\ state = "starting"
    /\ state' \in {"idle", "failed"}
    /\ UNCHANGED <<call, mandatory, waited, refresh, credentials, left, remote>>

----------------------------------------------------------------------------
(* A call of the cloud is signed.                                          *)

BeginCall ==
    /\ state = "idle" /\ refresh < MaxRefresh
    /\ state' = "checking" /\ call' = "pending"
    /\ UNCHANGED <<mandatory, waited, refresh, credentials, left, remote>>

RefreshNeeded(seconds) == credentials = 0 \/ left < seconds

Outcome(result) == state' = "idle" /\ call' = result

\* The credentials are good for long enough.
SignAtOnce ==
    /\ state = "checking" /\ ~RefreshNeeded(AdvisoryRefresh)
    /\ Outcome("signed")
    /\ UNCHANGED <<mandatory, waited, refresh, credentials, left, remote>>

\* _refresh: the TLS context is built, and a connection asked for.
BeginRefresh ==
    /\ state = "checking" /\ RefreshNeeded(AdvisoryRefresh)
    /\ mandatory' = RefreshNeeded(MandatoryRefresh)
    /\ refresh' = refresh + 1
    /\ waited' = 0 /\ state' = "connecting"
    /\ UNCHANGED <<call, credentials, left, remote>>

\* A refresh that failed fails the call only when it had to succeed.
RefreshFails == Outcome(IF mandatory THEN "failed" ELSE "signed")

\* Mutants: nothing ends the wait for a future.
InTimeForever == TRUE
TimedOutNever == FALSE

\* Future.result(_AWSCRT_TIMEOUT_SEC) waits this long...
InTime == waited < Timeout

\* ...and raises then.
TimedOut == waited = Timeout

\* The files of the key or the certificate cannot be used, no connection comes about,
\* or it takes too long.  One that is not established by the time-out is never used.
ConnectFails ==
    /\ state = "connecting"
    /\ RefreshFails
    /\ UNCHANGED <<mandatory, waited, refresh, credentials, left, remote>>

ConnectTimesOut == TimedOut /\ ConnectFails

Connect ==
    /\ state = "connecting"
    /\ state' = "waiting" /\ waited' = 0
    /\ stream' = [stream EXCEPT ![refresh] = "open"]
    /\ UNCHANGED <<call, mandatory, refresh, credentials, left, answer, collected>>

\* The request does not complete, or not in time; the stream is left as it is, and its
\* callbacks may still be called.
RequestFails ==
    /\ state = "waiting" /\ stream[refresh] = "broken"
    /\ RefreshFails
    /\ UNCHANGED <<mandatory, waited, refresh, credentials, left, remote>>

RequestTimesOut ==
    /\ state = "waiting" /\ TimedOut
    /\ RefreshFails
    /\ UNCHANGED <<mandatory, waited, refresh, credentials, left, remote>>

\* Mutant: status and body outlive the refresh they belong to.
CellShared(k) == 1

\* The variables that the callbacks write to and the answer is read from are those of
\* one call of _fetch_iot_credentials_via_awscrt.
Cell(k) == k

\* _parse_credentials_response: anything but status 200 raises, and so does a body
\* that is not the whole JSON document.
Accepted(k) == collected[Cell(k)].status = 200 /\ collected[Cell(k)].body = Chunks

ParseRefused ==
    /\ state = "waiting" /\ stream[refresh] = "complete" /\ ~Accepted(refresh)
    /\ RefreshFails
    /\ UNCHANGED <<mandatory, waited, refresh, credentials, left, remote>>

\* New credentials; botocore refuses those that are expired already.
ParseAccepted ==
    /\ state = "waiting" /\ stream[refresh] = "complete" /\ Accepted(refresh)
    /\ credentials' = refresh
    /\ left' \in 0 .. Lifetime
    /\ Outcome(IF left' > 0 THEN "signed" ELSE "failed")
    /\ UNCHANGED <<mandatory, waited, refresh, remote>>

----------------------------------------------------------------------------
(* The provider, and the callbacks of the stream on the thread of awscrt.  *)

OnResponse(k, status) ==
    /\ stream[k] = "open" /\ answer[k].status = 0
    /\ answer' = [answer EXCEPT ![k].status = status]
    /\ collected' = [collected EXCEPT ![Cell(k)].status = status]
    /\ UNCHANGED <<thread, credentials, left, stream>>

OnBody(k) ==
    /\ stream[k] = "open" /\ answer[k].status # 0 /\ answer[k].body < Chunks
    /\ answer' = [answer EXCEPT ![k].body = @ + 1]
    /\ collected' = [collected EXCEPT ![Cell(k)].body = @ + 1]
    /\ UNCHANGED <<thread, credentials, left, stream>>

\* The provider may end a body early; a connection may break at any time.
StreamEnds(k) ==
    /\ stream[k] = "open"
    /\ \/ answer[k].status # 0 /\ stream' = [stream EXCEPT ![k] = "complete"]
       \/ stream' = [stream EXCEPT ![k] = "broken"]
    /\ UNCHANGED <<thread, credentials, left, answer, collected>>

Tick ==
    /\ state = "idle" \/ (Waiting /\ InTime)
    /\ left' = IF left > 0 THEN left - 1 ELSE 0
    /\ waited' = IF Waiting THEN waited + 1 ELSE waited
    /\ UNCHANGED <<state, call, mandatory, refresh, credentials, remote>>

----------------------------------------------------------------------------
Results  == ConnectTimesOut \/ RequestFails \/ RequestTimesOut \/ ParseRefused \/ ParseAccepted
Thread   == SignAtOnce \/ BeginRefresh \/ Results
Provider == \E k \in Refreshes : OnBody(k) \/ StreamEnds(k) \/ \E s \in {200, 403} : OnResponse(k, s)

Serving == Thread \/ BeginCall \/ ConnectFails \/ Provider \/ Tick

Next == GetSession \/ Serving \/ Connect

Spec == Init /\ [][Next]_vars

\* The thread runs and time passes; the provider need not do anything.
FairSpec == Spec /\ WF_vars(Thread) /\ WF_vars(Tick)

----------------------------------------------------------------------------
(* Properties.                                                             *)

\* Type invariant.
TypeOK ==
    /\ state \in {"starting", "failed", "idle", "checking", "connecting", "waiting"}
    /\ call \in {"none", "pending", "signed", "failed"}
    /\ mandatory \in BOOLEAN /\ waited \in 0 .. Timeout
    /\ refresh \in 0 .. MaxRefresh /\ credentials \in 0 .. refresh
    /\ left \in Nat
    /\ stream \in [Refreshes -> {"none", "open", "complete", "broken"}]
    /\ answer \in [Refreshes -> [status : Statuses, body : 0 .. Chunks]]
    /\ collected \in [Refreshes -> [status : Statuses, body : Nat]]

\* No call is signed with credentials that have run out, although a refresh that is
\* only advisory may fail: both of its waits together end before they do.
SignedWhileValid == [][call = "pending" /\ call' = "signed" => credentials' # 0 /\ left' > 0]_vars

\* The credentials in use are those of one complete answer with status 200 to the very
\* request they were fetched with: nothing of an earlier request that timed out, whose
\* callbacks are still called, is taken for it.
CredentialsFromOneAnswer ==
    credentials # 0 =>
        /\ stream[credentials] = "complete"
        /\ answer[credentials] = [status |-> 200, body |-> Chunks]

\* A call is signed or fails, even when the provider never answers: the uploader is
\* not held up by it (FairSpec).
EveryCallEnds == call = "pending" ~> call # "pending"
============================================================================
