------------------------------- MODULE Intake -------------------------------
(***************************************************************************)
(* The contract of the LogsQueue between those who put into it and the     *)
(* uploader that takes from it: a message is put at most once, under a key *)
(* that may be, and never into a full queue; it is taken oldest first; a   *)
(* restart empties the queue.  LogPipeline, which keeps of the servers     *)
(* only what they put, and LogProxyServer, which keeps of the uploader     *)
(* only that it takes, both implement it: what the one assumes about the   *)
(* other part of the program is what the other does.                       *)
(***************************************************************************)
EXTENDS LogsQueue

CONSTANT Messages   \* what the id of an entry may be

VARIABLES
    queue,   \* the LogsQueue
    put      \* the messages ever put

vars == <<queue, put>>

\* Only the server's own records go around the filter of the servicer.
Admitted(key) == key = OwnKey \/ ~Filtered(key[2])

Init == queue = <<>> /\ put = {}

Put(key, message) ==
    /\ message \notin put /\ Admitted(key) /\ ~Full(queue)
    /\ queue' = Append(queue, [key |-> key, id |-> message])
    /\ put' = put \cup {message}

Take ==
    /\ queue # <<>>
    /\ queue' = Tail(queue)
    /\ UNCHANGED put

\* The queue is memory of the process.
Clear == queue' = <<>> /\ UNCHANGED put

Next ==
    \/ \E key \in Keys, message \in Messages : Put(key, message)
    \/ Take
    \/ Clear

Spec == Init /\ [][Next]_vars
=============================================================================
