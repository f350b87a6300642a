---------------------------- MODULE ProtoWrapper ---------------------------
(***************************************************************************)
(* Wrappers of protobuf messages (proto_wrapper.py): which objects they    *)
(* share, what a conversion or an assignment copies, and which values are  *)
(* refused.                                                                *)
(*                                                                         *)
(* The message type has a field of each kind: an enum, a message (the      *)
(* well-known type Duration), a list and a map of messages, and a list of  *)
(* scalars.  Objects have identities, as in Python: a message holds        *)
(* references to Durations and to containers.  Of a scalar in the list of  *)
(* int only its Python type is kept.  An object is forgotten when no       *)
(* message refers to it.                                                   *)
(***************************************************************************)
EXTENDS Integers, SequencesExt

CONSTANTS
    Levels,        \* the members of the EnumWrapper
    PbLevels,      \* the numbers a protobuf enum may hold (proto3 enums are open)
    MapKeys,       \* keys of the map
    SecondInNs,    \* Duration._s2ns
    Steps,         \* nanoseconds that are added
    Received,      \* the protobuf messages that are converted
    Given,         \* the protobuf Durations that are assigned or appended
    Extensions,    \* the lists of scalars, by their Python types, that lists are extended with
    Seconds,       \* bound of the model: values of seconds
    References,    \* bound of the model: identities of Durations
    Containers,    \* bound of the model: identities of containers
    MaxElements    \* bound of the model: elements of the containers of a message

ASSUME EnumAssumption   == Levels \subseteq PbLevels /\ 0 \in Levels
ASSUME SecondAssumption == SecondInNs \in Nat \ {0} /\ Steps \subseteq Int
ASSUME BoundAssumption  == Seconds \subseteq Int /\ 0 \in Seconds /\ MaxElements \in Nat

VARIABLES
    message,    \* the message wrappers, in the order they were created
    container,  \* the containers there are: elements by index or key
    duration,   \* the Duration wrappers there are
    call        \* the last call: whether it raised, and the message it wrapped or copied

vars == <<message, container, duration, call>>

Fields   == {"many", "keyed", "marks"}
Messages == DOMAIN message

\* Protobuf messages: has says whether the sub-message is set; one that is not reads as
\* its default.
DurationType == [seconds : Seconds, nanos : 0 .. SecondInNs - 1]
Maps(S)      == UNION {[keys -> S] : keys \in SUBSET MapKeys}
PbType == [has : BOOLEAN, level : PbLevels, one : DurationType, many : Seq(DurationType),
           keyed : Maps(DurationType), marks : Seq({"int"})]

\* The fields that hold a value.
Values == {"level", "one"} \cup Fields

ASSUME InputAssumption ==
    /\ Received \subseteq PbType /\ Given \subseteq DurationType
    /\ \A marks \in Extensions : marks \in Seq({"int", "bool", "str"})

----------------------------------------------------------------------------
(* What a message consists of.                                             *)

Elements(m, f) == container[message[m][f]]
Held(m)        == {message[m].one} \cup Range(Elements(m, "many")) \cup Range(Elements(m, "keyed"))

\* export_pb: a copy of everything; it sets the sub-message, and True is stored as 1.
Exported(m) ==
    [has   |-> TRUE, level |-> message[m].level, one |-> duration[message[m].one],
     many  |-> [i \in DOMAIN Elements(m, "many") |-> duration[Elements(m, "many")[i]]],
     keyed |-> [k \in DOMAIN Elements(m, "keyed") |-> duration[Elements(m, "keyed")[k]]],
     marks |-> [i \in DOMAIN Elements(m, "marks") |-> "int"]]

\* Where a message holds a Duration, and the one it holds there.
Places(many, keyed) ==
    {<<"one", 1>>} \cup ({"many"} \X DOMAIN many) \cup ({"keyed"} \X DOMAIN keyed)
PlacesOf(m)  == Places(Elements(m, "many"), Elements(m, "keyed"))
At(m, place) == IF place[1] = "one" THEN message[m].one ELSE Elements(m, place[1])[place[2]]
ValueAt(pb, place) == IF place[1] = "one" THEN pb.one ELSE pb[place[1]][place[2]]

----------------------------------------------------------------------------
(* Steps of the heap.                                                      *)

\* What no message refers to any more is forgotten.
Become(msgs, conts, durs) ==
    LET live   == UNION {{msgs[m][f] : f \in Fields} : m \in DOMAIN msgs}
        inUse  == {msgs[m].one : m \in DOMAIN msgs} \cup
                  UNION {Range(conts[msgs[m][f]]) : m \in DOMAIN msgs, f \in {"many", "keyed"}}
    IN  /\ message' = msgs
        /\ container' = Restrict(conts, live)
        /\ duration' = Restrict(durs, inUse)

Returns(made) == call' = [raised |-> FALSE, made |-> made]
Raises        == call' = [raised |-> TRUE, made |-> <<>>] /\ UNCHANGED <<message, container, duration>>

\* What is in new replaces or extends what is in old.
Overlay(new, old) ==
    [x \in DOMAIN new \cup DOMAIN old |-> IF x \in DOMAIN new THEN new[x] ELSE old[x]]

\* Bound of the model: containers for one more message.
Room == ExistsInjection(Fields, Containers \ DOMAIN container)

\* A message with new containers and Durations.  place \in DOMAIN first holds the
\* same Duration as first[place].
NewMessage(pb, first) ==
    \E new \in Injection(Range(first), References \ DOMAIN duration) :
        LET at   == [place \in DOMAIN first |-> new[first[place]]]
            held == CHOOSE h \in Injection(Fields, Containers \ DOMAIN container) : TRUE
            msg  == [level |-> pb.level, one |-> at[<<"one", 1>>],
                     many |-> held["many"], keyed |-> held["keyed"], marks |-> held["marks"]]
            opened == [c \in Range(held) |->
                          CASE c = held["many"]  -> [i \in DOMAIN pb.many |-> at[<<"many", i>>]]
                            [] c = held["keyed"] -> [k \in DOMAIN pb.keyed |-> at[<<"keyed", k>>]]
                            [] c = held["marks"] -> pb.marks]
            values == [d \in Range(new) |->
                          ValueAt(pb, CHOOSE place \in DOMAIN new : new[place] = d)]
        IN  Become(Append(message, msg), Overlay(opened, container), Overlay(values, duration))

\* Field f of message m refers to a container of its own with these elements; it may
\* have the identity of the one it referred to, if no other field does.
NewContainer(m, f, elements) ==
    LET others == {message[p[1]][p[2]] : p \in (Messages \X Fields) \ {<<m, f>>}}
        c      == CHOOSE c \in Containers \ others : TRUE
    IN  Become([message EXCEPT ![m][f] = c], Overlay([x \in {c} |-> elements], container), duration)

----------------------------------------------------------------------------
(* The interface of the wrappers.                                          *)

Init ==
    /\ message = <<>> /\ container = <<>> /\ duration = <<>>
    /\ call = [raised |-> FALSE, made |-> <<>>]

\* EnumWrapper.convert raises for a number that is not a member.
IsMember(level) == level \in Levels

\* Mutant: a field that is a map of messages is left at its default.
ConvertWithoutMaps(pb) ==
    LET taken == [pb EXCEPT !.keyed = <<>>]
    IN  /\ Room /\ IsMember(pb.level)
        /\ NewMessage(taken, [p \in Places(taken.many, taken.keyed) |-> p])
        /\ Returns(<<pb>>)

\* convert of a protobuf message, and the constructor without arguments: a Duration
\* of its own for each place.
Convert(pb) ==
    IF ~IsMember(pb.level) THEN Raises
    ELSE /\ Room
         /\ NewMessage(pb, [p \in Places(pb.many, pb.keyed) |-> p])
         /\ Returns(<<pb>>)

StrictlyInt(marks) == \A i \in DOMAIN marks : marks[i] = "int"

\* Mutant: the fields of the copy are those of the original.
CopyShallow(m) ==
    /\ Room /\ StrictlyInt(Elements(m, "marks"))
    /\ Become(Append(message, message[m]), container, duration)
    /\ Returns(<<Exported(m)>>)

\* Each field is copied, with a memo of its own, and then set as the constructor does:
\* a Duration that is twice in one container is copied once.
DeepCopy(m) ==
    LET first == [p \in PlacesOf(m) |->
                     CHOOSE q \in PlacesOf(m) : q[1] = p[1] /\ At(m, q) = At(m, p)]
    IN  IF ~StrictlyInt(Elements(m, "marks")) THEN Raises
        ELSE Room /\ NewMessage(Exported(m), first) /\ Returns(<<Exported(m)>>)

\* _EnumField.__set__.
SetLevel(m, level) ==
    IF ~IsMember(level) THEN Raises
    ELSE Become([message EXCEPT ![m].level = level], container, duration) /\ Returns(<<>>)

\* _MessageField.__set__ with a wrapper, which is not converted again, ...
SetOne(m, d) ==
    /\ Become([message EXCEPT ![m].one = d], container, duration)
    /\ Returns(<<>>)

\* ... and with a protobuf message.
SetOnePb(m, value) ==
    /\ \E d \in References \ DOMAIN duration :
           Become([message EXCEPT ![m].one = d], container, Overlay([x \in {d} |-> value], duration))
    /\ Returns(<<>>)

\* Bound of the model: field f of m may grow to this size.
Size(m, f)       == Cardinality(DOMAIN Elements(m, f))
Fits(m, f, size) == size + MapThenSumSet(LAMBDA g : Size(m, g), Fields \ {f}) <= MaxElements

\* Mutants: the container that is passed is stored as it is, and the one there is is
\* emptied and filled again.
SetManyToPassed(m, o) ==
    /\ Fits(m, "many", Size(o, "many"))
    /\ Become([message EXCEPT ![m].many = message[o].many], container, duration)
    /\ Returns(<<>>)
SetMarksInPlace(m, o) ==
    LET refused == ~StrictlyInt(Elements(o, "marks"))
    IN  /\ Fits(m, "marks", Size(o, "marks"))
        /\ Become(message, [container EXCEPT
                ![message[m].marks] = IF refused THEN <<>> ELSE Elements(o, "marks")], duration)
        /\ call' = [raised |-> refused, made |-> <<>>]

\* _RepeatedCompositeField.__set__ and _MessageMappingField.__set__ with the container of
\* another message (or of the same).
SetMany(m, o) ==
    /\ Fits(m, "many", Size(o, "many"))
    /\ NewContainer(m, "many", Elements(o, "many"))
    /\ Returns(<<>>)
SetKeyed(m, o) ==
    /\ Fits(m, "keyed", Size(o, "keyed"))
    /\ NewContainer(m, "keyed", Elements(o, "keyed"))
    /\ Returns(<<>>)

\* _RepeatedScalarField.__set__.
SetMarks(m, o) ==
    IF ~StrictlyInt(Elements(o, "marks")) THEN Raises
    ELSE /\ Fits(m, "marks", Size(o, "marks"))
         /\ NewContainer(m, "marks", Elements(o, "marks"))
         /\ Returns(<<>>)

\* RepeatedCompositeContainer.append with a wrapper, and with a protobuf message.
AppendMany(m, d) ==
    /\ Fits(m, "many", Size(m, "many") + 1)
    /\ Become(message, [container EXCEPT ![message[m].many] = Append(@, d)], duration)
    /\ Returns(<<>>)

AppendManyPb(m, value) ==
    /\ Fits(m, "many", Size(m, "many") + 1)
    /\ \E d \in References \ DOMAIN duration :
           Become(message, [container EXCEPT ![message[m].many] = Append(@, d)],
                  Overlay([x \in {d} |-> value], duration))
    /\ Returns(<<>>)

\* RepeatedScalarContainer.extend: a bool is an int; what comes before an element of
\* another type stays.
ExtendMarks(m, marks) ==
    \E taken \in 0 .. Len(marks) :
        /\ \A i \in 1 .. taken : marks[i] \in {"int", "bool"}
        /\ taken < Len(marks) => marks[taken + 1] \notin {"int", "bool"}
        /\ Fits(m, "marks", Size(m, "marks") + taken)
        /\ Become(message,
                  [container EXCEPT ![message[m].marks] = @ \o SubSeq(marks, 1, taken)], duration)
        /\ call' = [raised |-> taken < Len(marks), made |-> <<>>]

\* _ScalarValueField.__set__, on a field of a Duration.
SetSeconds(d, seconds) ==
    /\ Become(message, container, [duration EXCEPT ![d].seconds = seconds])
    /\ Returns(<<>>)

\* Mutants: nothing is carried; what is carried is lost.
SumNotCarried(value, ns) == [value EXCEPT !.nanos = @ + ns]
SumCarryLost(value, ns)  == [value EXCEPT !.nanos = (@ + ns) % SecondInNs]

\* divmod rounds down, as \div does.
SumCarried(value, ns) ==
    [seconds |-> value.seconds + (value.nanos + ns) \div SecondInNs,
     nanos   |-> (value.nanos + ns) % SecondInNs]

\* Duration.add_nanoseconds.
AddNanoseconds(d, ns) ==
    LET sum == SumCarried(duration[d], ns)
    IN  /\ sum.seconds \in Seconds
        /\ Become(message, container, [duration EXCEPT ![d] = sum])
        /\ Returns(<<>>)

----------------------------------------------------------------------------
Creates == \/ \E pb \in Received : Convert(pb)
           \/ \E m \in Messages : Convert(Exported(m)) \/ DeepCopy(m)

Sets(m) ==
    \/ \E level \in PbLevels : SetLevel(m, level)
    \/ \E d \in DOMAIN duration : SetOne(m, d)
    \/ \E value \in Given : SetOnePb(m, value)
    \/ \E o \in Messages : SetMany(m, o) \/ SetKeyed(m, o) \/ SetMarks(m, o)

Extends(m) ==
    \/ \E d \in DOMAIN duration : AppendMany(m, d)
    \/ \E value \in Given : AppendManyPb(m, value)
    \/ \E marks \in Extensions : ExtendMarks(m, marks)

Changes(d) ==
    \/ \E seconds \in Seconds : SetSeconds(d, seconds)
    \/ \E ns \in Steps : AddNanoseconds(d, ns)

Next ==
    \/ Creates
    \/ \E m \in Messages : Sets(m) \/ Extends(m)
    \/ \E d \in DOMAIN duration : Changes(d)

Spec == Init /\ [][Next]_vars

----------------------------------------------------------------------------
(* Properties.                                                             *)

\* Type invariant: every reference is to an object there is.
TypeOK ==
    /\ \A m \in Messages :
           /\ message[m].level \in Levels
           /\ {message[m][f] : f \in Fields} \subseteq DOMAIN container
           /\ Held(m) \subseteq DOMAIN duration
    /\ DOMAIN container \subseteq Containers /\ DOMAIN duration \subseteq References
    /\ \A d \in DOMAIN duration : duration[d] \in DurationType

\* No two fields share a container, although fields are set from the containers of
\* other messages and default to empty ones: a message does not grow because another does.
ContainersNotShared ==
    \A m, o \in Messages : \A f, g \in Fields :
        message[m][f] = message[o][g] => m = o /\ f = g

\* A new message shares no Duration with another one, nor one between two of its own
\* fields: neither defaults, nor conversions, nor deep copies do.
NewSharesNothing ==
    call.made # <<>> =>
        LET new == Len(message)
        IN  /\ \A p, q \in PlacesOf(new) :
                   At(new, p) = At(new, q) => p[1] = q[1]
            /\ \A m \in Messages \ {new} : Held(m) \cap Held(new) = {}

\* What a conversion or a deep copy makes exports to what it was made from: nothing
\* is dropped, reordered or taken from another message.
MadeIsFaithful ==
    call.made # <<>> =>
        \A field \in Values : Exported(Len(message))[field] = call.made[1][field]

\* One call changes two messages only through a Duration that both hold.
ChangesAreIsolated ==
    [][LET changed == {m \in Messages : Exported(m)' # Exported(m)}
       IN  \A m, o \in changed : m # o => Held(m) \cap Held(o) # {}]_vars

\* A call that raises leaves every message as it was; only extend may have
\* added the elements before the one it refused, to one message.
RefusedChangesNothing ==
    [][call'.raised =>
           /\ UNCHANGED message
           /\ \A m \in Messages :
                  /\ \A field \in Values \ {"marks"} : Exported(m)'[field] = Exported(m)[field]
                  /\ IsPrefix(Exported(m).marks, Exported(m)'.marks)]_vars

\* Nanoseconds are carried into seconds and out of them, and none is lost.
NoNanosecondLost ==
    [][\A d \in DOMAIN duration \cap DOMAIN duration' :
           duration'[d].nanos # duration[d].nanos =>
               duration'[d].seconds * SecondInNs + duration'[d].nanos
                 - (duration[d].seconds * SecondInNs + duration[d].nanos) \in Steps]_vars
============================================================================
