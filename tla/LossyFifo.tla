----------------------------- MODULE LossyFifo -----------------------------
(***************************************************************************)
(* What the server promises for the messages of each key: they leave in    *)
(* the order they were sent, the oldest ones first, and those that leave   *)
(* together are either all delivered or all lost.  Nothing is delivered    *)
(* twice, nothing lost comes back, and keys do not mix.                    *)
(***************************************************************************)
EXTENDS Integers, Sequences, Functions

CONSTANT Keys

VARIABLES
    sent,      \* the number of messages ever sent; a message is its number
    pending,   \* for each key, the set of messages sent and not gone yet
    delivered  \* for each key, the messages delivered, in that order

vars == <<sent, pending, delivered>>

Init ==
    /\ sent = 0
    /\ pending = [k \in Keys |-> {}]
    /\ delivered = [k \in Keys |-> <<>>]

Oldest(S, T)  == S \subseteq T /\ \A m \in S, n \in T \ S : m < n
Increasing(s) == \A i, j \in DOMAIN s : i < j => s[i] < s[j]

\* What is pending becomes p; a message of any key may be sent in the same step, as
\* the report about a failure is.
Become(p) ==
    \/ pending' = p /\ sent' = sent
    \/ /\ \E k \in Keys : pending' = [p EXCEPT ![k] = @ \cup {sent + 1}]
       /\ sent' = sent + 1

Send == Become(pending) /\ UNCHANGED delivered

Leave(k, S) == Oldest(S, pending[k]) /\ Become([pending EXCEPT ![k] = @ \ S])

Lose(k, S) == Leave(k, S) /\ UNCHANGED delivered

\* The messages that a step adds to those delivered for key k.
New(k) == SubSeq(delivered'[k], Len(delivered[k]) + 1, Len(delivered'[k]))

Deliver(k) ==
    /\ delivered' = [delivered EXCEPT ![k] = @ \o New(k)]
    /\ Increasing(New(k))
    /\ Leave(k, Range(New(k)))

\* Everything that is pending is lost at once.
Crash ==
    /\ pending' = [k \in Keys |-> {}]
    /\ UNCHANGED <<sent, delivered>>

Next ==
    \/ Send
    \/ \E k \in Keys : Deliver(k)
    \/ \E k \in Keys : \E S \in SUBSET pending[k] : Lose(k, S)
    \/ Crash

Spec == Init /\ [][Next]_vars
============================================================================
