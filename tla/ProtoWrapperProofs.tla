------------------------- MODULE ProtoWrapperProofs ------------------------
(***************************************************************************)
(* The safety of ProtoWrapper, for every message that is received, every   *)
(* number of objects and every base of the carry.                          *)
(*                                                                         *)
(* TypeInv says what a heap consists of; with it, every operation is one   *)
(* of four kinds: nothing changes, a message is made, one message changes, *)
(* or one Duration does.  The properties follow from the kinds.            *)
(***************************************************************************)
EXTENDS ProtoWrapper, SequenceTheorems, TLAPS

USE EnumAssumption, SecondAssumption, BoundAssumption

----------------------------------------------------------------------------
(* A heap: messages, containers, Durations.                                *)

MessageType  == [level : Levels, one : References,
                 many : Containers, keyed : Containers, marks : Containers]

HeldIn(msgs, conts, m) ==
    {msgs[m].one} \cup Range(conts[msgs[m].many]) \cup Range(conts[msgs[m].keyed])

ExportOf(msgs, conts, durs, m) ==
    [has   |-> TRUE, level |-> msgs[m].level, one |-> durs[msgs[m].one],
     many  |-> [i \in DOMAIN conts[msgs[m].many] |-> durs[conts[msgs[m].many][i]]],
     keyed |-> [k \in DOMAIN conts[msgs[m].keyed] |-> durs[conts[msgs[m].keyed][k]]],
     marks |-> [i \in DOMAIN conts[msgs[m].marks] |-> "int"]]

ContentsOK(conts, msg) ==
    /\ \A f \in Fields : msg[f] \in DOMAIN conts
    /\ conts[msg.many] \in Seq(References)
    /\ conts[msg.keyed] \in Maps(References)
    /\ conts[msg.marks] \in Seq({"int", "bool"})

HeapOK(msgs, conts, durs) ==
    /\ msgs \in Seq(MessageType)
    /\ DOMAIN conts \subseteq Containers
    /\ DOMAIN durs \subseteq References
    /\ \A d \in DOMAIN durs : durs[d] \in DurationType
    /\ \A m \in DOMAIN msgs : ContentsOK(conts, msgs[m]) /\ HeldIn(msgs, conts, m) \subseteq DOMAIN durs

NotShared(msgs) ==
    \A m, o \in DOMAIN msgs : \A f, g \in Fields : msgs[m][f] = msgs[o][g] => m = o /\ f = g

TypeInv == HeapOK(message, container, duration)

LEMMA TypeInvImpliesTypeOK == TypeInv => TypeOK
<1> SUFFICES ASSUME TypeInv PROVE TypeOK
  OBVIOUS
<1>1. ASSUME NEW m \in Messages
      PROVE  /\ message[m].level \in Levels
             /\ {message[m][f] : f \in Fields} \subseteq DOMAIN container
             /\ Held(m) \subseteq DOMAIN duration
  <2>1. message[m] \in MessageType
    BY DEF TypeInv, HeapOK, Messages
  <2>2. ContentsOK(container, message[m]) /\ Held(m) = HeldIn(message, container, m)
    BY DEF TypeInv, HeapOK, Messages, Held, HeldIn, Elements
  <2> QED
    BY <2>1, <2>2 DEF TypeInv, HeapOK, Messages, ContentsOK, MessageType
<1>2. \A d \in DOMAIN duration : duration[d] \in DurationType
  BY DEF TypeInv, HeapOK
<1> QED
  BY <1>1, <1>2 DEF TypeOK, TypeInv, HeapOK

LEMMA NotSharedIsContainersNotShared == ContainersNotShared <=> NotShared(message)
BY DEF ContainersNotShared, NotShared, Messages

LEMMA ExportedIsExportOf == \A m : Exported(m) = ExportOf(message, container, duration, m)
BY DEF Exported, ExportOf, Elements

LEMMA HeldIsHeldIn == \A m : Held(m) = HeldIn(message, container, m)
BY DEF Held, HeldIn, Elements

\* The part of a heap that a message sees determines what it exports.
SeesSame(msgs, conts, durs, msgs2, conts2, durs2, m) ==
    /\ msgs2[m] = msgs[m]
    /\ \A f \in Fields : conts2[msgs[m][f]] = conts[msgs[m][f]]
    /\ \A d \in HeldIn(msgs, conts, m) : durs2[d] = durs[d]

LEMMA SameExport ==
    ASSUME NEW msgs, NEW conts, NEW durs, NEW msgs2, NEW conts2, NEW durs2, NEW m,
           SeesSame(msgs, conts, durs, msgs2, conts2, durs2, m)
    PROVE  /\ HeldIn(msgs2, conts2, m) = HeldIn(msgs, conts, m)
           /\ ExportOf(msgs2, conts2, durs2, m) = ExportOf(msgs, conts, durs, m)
<1>1. /\ conts2[msgs[m].many] = conts[msgs[m].many]
      /\ conts2[msgs[m].keyed] = conts[msgs[m].keyed]
      /\ conts2[msgs[m].marks] = conts[msgs[m].marks]
  BY DEF Fields, SeesSame
<1>2. HeldIn(msgs2, conts2, m) = HeldIn(msgs, conts, m)
  BY <1>1 DEF HeldIn, SeesSame
<1>3. /\ durs2[msgs[m].one] = durs[msgs[m].one]
      /\ \A i \in DOMAIN conts[msgs[m].many] :
            durs2[conts[msgs[m].many][i]] = durs[conts[msgs[m].many][i]]
      /\ \A k \in DOMAIN conts[msgs[m].keyed] :
            durs2[conts[msgs[m].keyed][k]] = durs[conts[msgs[m].keyed][k]]
  BY DEF HeldIn, Range, SeesSame
<1>4. /\ [i \in DOMAIN conts[msgs[m].many] |-> durs2[conts[msgs[m].many][i]]]
           = [i \in DOMAIN conts[msgs[m].many] |-> durs[conts[msgs[m].many][i]]]
      /\ [k \in DOMAIN conts[msgs[m].keyed] |-> durs2[conts[msgs[m].keyed][k]]]
           = [k \in DOMAIN conts[msgs[m].keyed] |-> durs[conts[msgs[m].keyed][k]]]
  BY <1>3
<1>5. ExportOf(msgs2, conts2, durs2, m) = ExportOf(msgs, conts, durs, m)
  <2> DEFINE many  == [i \in DOMAIN conts[msgs[m].many] |-> durs[conts[msgs[m].many][i]]]
             keyed == [k \in DOMAIN conts[msgs[m].keyed] |-> durs[conts[msgs[m].keyed][k]]]
             marks == [i \in DOMAIN conts[msgs[m].marks] |-> "int"]
             seen  == [has |-> TRUE, level |-> msgs[m].level, one |-> durs[msgs[m].one],
                       many |-> many, keyed |-> keyed, marks |-> marks]
  <2>1. ExportOf(msgs, conts, durs, m) = seen
    BY DEF ExportOf
  <2>2. /\ [i \in DOMAIN conts2[msgs2[m].many] |-> durs2[conts2[msgs2[m].many][i]]] = many
        /\ [k \in DOMAIN conts2[msgs2[m].keyed] |-> durs2[conts2[msgs2[m].keyed][k]]] = keyed
        /\ [i \in DOMAIN conts2[msgs2[m].marks] |-> "int"] = marks
        /\ msgs2[m].level = msgs[m].level /\ durs2[msgs2[m].one] = durs[msgs[m].one]
    BY <1>1, <1>3, <1>4 DEF SeesSame
  <2> HIDE DEF many, keyed, marks
  <2>3. ExportOf(msgs2, conts2, durs2, m) = seen
    BY <2>2 DEF ExportOf
  <2> QED
    BY <2>1, <2>3
<1> QED
  BY <1>2, <1>5

\* What is forgotten was not seen by a message.
LEMMA Becomes ==
    ASSUME NEW msgs, NEW conts, NEW durs,
           HeapOK(msgs, conts, durs), Become(msgs, conts, durs)
    PROVE  /\ TypeInv' /\ message' = msgs
           /\ \A m \in DOMAIN msgs :
                  /\ Exported(m)' = ExportOf(msgs, conts, durs, m)
                  /\ Held(m)' = HeldIn(msgs, conts, m)
                  /\ \A f \in Fields : Elements(m, f)' = conts[msgs[m][f]]
           /\ \A d \in DOMAIN duration' : d \in DOMAIN durs /\ duration'[d] = durs[d]
<1> DEFINE live  == UNION {{msgs[m][f] : f \in Fields} : m \in DOMAIN msgs}
           inUse == {msgs[m].one : m \in DOMAIN msgs} \cup
                    UNION {Range(conts[msgs[m][f]]) : m \in DOMAIN msgs, f \in {"many", "keyed"}}
<1>1. message' = msgs /\ container' = [c \in live |-> conts[c]] /\ duration' = [d \in inUse |-> durs[d]]
  BY DEF Become, Restrict
<1>2. \A m \in DOMAIN msgs : \A f \in Fields : msgs[m][f] \in live
  OBVIOUS
<1>3. \A c \in live : c \in DOMAIN conts
  BY DEF HeapOK, ContentsOK
<1>4. ASSUME NEW m \in DOMAIN msgs, NEW d \in HeldIn(msgs, conts, m) PROVE d \in inUse
  <2>1. CASE d = msgs[m].one
    BY <2>1
  <2>2. CASE d \in Range(conts[msgs[m]["many"]])
    BY <2>2
  <2>3. CASE d \in Range(conts[msgs[m]["keyed"]])
    BY <2>3
  <2> QED
    BY <2>1, <2>2, <2>3 DEF HeldIn
<1>5. ASSUME NEW d \in inUse PROVE d \in DOMAIN durs
  <2>1. PICK m \in DOMAIN msgs : d \in HeldIn(msgs, conts, m)
    BY DEF HeldIn
  <2> QED
    BY <2>1 DEF HeapOK
<1> HIDE DEF live, inUse
<1>6. DOMAIN container' = live /\ DOMAIN duration' = inUse
  BY <1>1
<1>7. ASSUME NEW m \in DOMAIN msgs
      PROVE  /\ \A f \in Fields : container'[message'[m][f]] = conts[msgs[m][f]]
             /\ \A d \in HeldIn(msgs, conts, m) : duration'[d] = durs[d]
             /\ HeldIn(message', container', m) = HeldIn(msgs, conts, m)
             /\ ExportOf(message', container', duration', m) = ExportOf(msgs, conts, durs, m)
  <2>1. \A f \in Fields : container'[msgs[m][f]] = conts[msgs[m][f]]
    BY <1>1, <1>2
  <2>2. \A d \in HeldIn(msgs, conts, m) : duration'[d] = durs[d]
    BY <1>1, <1>4
  <2>3. SeesSame(msgs, conts, durs, message', container', duration', m)
    BY <1>1, <2>1, <2>2 DEF SeesSame
  <2>4. /\ HeldIn(message', container', m) = HeldIn(msgs, conts, m)
        /\ ExportOf(message', container', duration', m) = ExportOf(msgs, conts, durs, m)
    BY <2>3, SameExport
  <2> QED
    BY <1>1, <2>1, <2>2, <2>4
<1>8. TypeInv'
  <2>1. message' \in Seq(MessageType)
    BY <1>1 DEF HeapOK
  <2>2. DOMAIN container' \subseteq Containers /\ DOMAIN duration' \subseteq References
    BY <1>3, <1>5, <1>6 DEF HeapOK
  <2>3. \A d \in DOMAIN duration' : duration'[d] \in DurationType
    BY <1>1, <1>5, <1>6 DEF HeapOK
  <2>4. ASSUME NEW m \in DOMAIN message'
        PROVE  ContentsOK(container', message'[m]) /\ HeldIn(message', container', m) \subseteq DOMAIN duration'
    <3>1. m \in DOMAIN msgs /\ ContentsOK(conts, msgs[m])
      BY <1>1 DEF HeapOK
    <3>2. /\ container'[message'[m].many] = conts[msgs[m].many]
          /\ container'[message'[m].keyed] = conts[msgs[m].keyed]
          /\ container'[message'[m].marks] = conts[msgs[m].marks]
      BY <1>7, <3>1 DEF Fields
    <3>3. ContentsOK(container', message'[m])
      BY <1>1, <1>2, <1>6, <3>1, <3>2 DEF ContentsOK
    <3> QED
      BY <1>4, <1>6, <1>7, <3>1, <3>3
  <2> QED
    BY <2>1, <2>2, <2>3, <2>4 DEF TypeInv, HeapOK
<1>9. ASSUME NEW m \in DOMAIN msgs
      PROVE  /\ Exported(m)' = ExportOf(msgs, conts, durs, m)
             /\ Held(m)' = HeldIn(msgs, conts, m)
             /\ \A f \in Fields : Elements(m, f)' = conts[msgs[m][f]]
  BY <1>1, <1>7 DEF Exported, ExportOf, Held, HeldIn, Elements
<1> QED
  BY <1>1, <1>5, <1>6, <1>8, <1>9

----------------------------------------------------------------------------
(* One message changes.                                                    *)

Safe == TypeInv /\ NotShared(message)

\* The heap differs from the one there is in what message m sees, and in new objects.
OnlyMessage(m, msgs, conts, durs) ==
    /\ msgs \in Seq(MessageType) /\ DOMAIN msgs = Messages
    /\ DOMAIN container \subseteq DOMAIN conts /\ DOMAIN conts \subseteq Containers
    /\ DOMAIN duration \subseteq DOMAIN durs /\ DOMAIN durs \subseteq References
    /\ \A d \in DOMAIN durs : durs[d] \in DurationType
    /\ \A d \in DOMAIN duration : durs[d] = duration[d]
    /\ \A o \in Messages \ {m} :
           /\ msgs[o] = message[o]
           /\ \A f \in Fields : conts[message[o][f]] = container[message[o][f]]

LEMMA MessageChanges ==
    ASSUME Safe, NEW m \in Messages, NEW msgs, NEW conts, NEW durs,
           OnlyMessage(m, msgs, conts, durs), NotShared(msgs), Become(msgs, conts, durs),
           ContentsOK(conts, msgs[m]), HeldIn(msgs, conts, m) \subseteq DOMAIN durs
    PROVE  /\ Safe' /\ Messages' = Messages /\ message' = msgs
           /\ \A o \in Messages \ {m} : Exported(o)' = Exported(o)
           /\ Exported(m)' = ExportOf(msgs, conts, durs, m)
           /\ \A d \in DOMAIN duration \cap DOMAIN duration' : duration'[d] = duration[d]
<1>1. ASSUME NEW o \in Messages \ {m}
      PROVE  /\ ContentsOK(conts, msgs[o]) /\ HeldIn(msgs, conts, o) \subseteq DOMAIN durs
             /\ ExportOf(msgs, conts, durs, o) = ExportOf(message, container, duration, o)
  <2>1. ContentsOK(container, message[o]) /\ HeldIn(message, container, o) \subseteq DOMAIN duration
    BY DEF Safe, TypeInv, HeapOK, Messages
  <2>2. SeesSame(message, container, duration, msgs, conts, durs, o)
    BY <2>1 DEF OnlyMessage, SeesSame
  <2>3. /\ HeldIn(msgs, conts, o) = HeldIn(message, container, o)
        /\ ExportOf(msgs, conts, durs, o) = ExportOf(message, container, duration, o)
    BY <2>2, SameExport
  <2>4. ContentsOK(conts, msgs[o])
    BY <2>1 DEF OnlyMessage, ContentsOK, Fields
  <2> QED
    BY <2>1, <2>3, <2>4 DEF OnlyMessage
<1>2. HeapOK(msgs, conts, durs)
  BY <1>1 DEF OnlyMessage, HeapOK
<1>3. /\ TypeInv' /\ message' = msgs
      /\ \A o \in Messages : Exported(o)' = ExportOf(msgs, conts, durs, o)
      /\ \A d \in DOMAIN duration' : d \in DOMAIN durs /\ duration'[d] = durs[d]
  BY <1>2, Becomes DEF OnlyMessage
<1>4. Messages' = Messages /\ Safe'
  BY <1>3 DEF OnlyMessage, Messages, Safe
<1> QED
  BY <1>1, <1>3, <1>4, ExportedIsExportOf DEF OnlyMessage

LEMMA SafeMessage ==
    ASSUME Safe, NEW m \in Messages
    PROVE  /\ message \in Seq(MessageType) /\ message[m] \in MessageType
           /\ ContentsOK(container, message[m])
           /\ HeldIn(message, container, m) \subseteq DOMAIN duration
BY DEF Safe, TypeInv, HeapOK, Messages

\* The heap there is differs from itself in nothing.
LEMMA OnlyMessageTrivially ==
    ASSUME Safe, NEW m \in Messages
    PROVE  OnlyMessage(m, message, container, duration)
BY DEF Safe, TypeInv, HeapOK, Messages, OnlyMessage

\* What an operation on message m does, when it returns and when it raises.
OneMessage(m) ==
    /\ Safe' /\ Messages' = Messages
    /\ \A o \in Messages \ {m} : Exported(o)' = Exported(o)
    /\ \A d \in DOMAIN duration \cap DOMAIN duration' : duration'[d] = duration[d]
    /\ call'.made = <<>>
    /\ call'.raised =>
           /\ message' = message
           /\ \A field \in Values \ {"marks"} : Exported(m)'[field] = Exported(m)[field]
           /\ IsPrefix(Exported(m).marks, Exported(m)'.marks)

NothingChanges ==
    /\ UNCHANGED <<message, container, duration>>
    /\ call' = call \/ call'.made = <<>>

LEMMA SetLevelKind ==
    ASSUME Safe, NEW m \in Messages, NEW level \in PbLevels, SetLevel(m, level)
    PROVE  NothingChanges \/ OneMessage(m)
<1>1. CASE ~IsMember(level)
  BY <1>1 DEF SetLevel, Raises, NothingChanges
<1>2. CASE IsMember(level)
  <2> DEFINE msgs == [message EXCEPT ![m].level = level]
  <2>1. message \in Seq(MessageType) /\ message[m] \in MessageType /\ level \in Levels
    BY <1>2, SafeMessage DEF IsMember
  <2>2. /\ msgs \in Seq(MessageType) /\ DOMAIN msgs = Messages
        /\ \A o \in Messages \ {m} : msgs[o] = message[o]
        /\ msgs[m] = [message[m] EXCEPT !.level = level]
    BY <2>1 DEF Messages, MessageType
  <2>3. \A o \in Messages : \A f \in Fields : msgs[o][f] = message[o][f]
    BY <2>1, <2>2 DEF Fields, MessageType
  <2>4. msgs[m].one = message[m].one /\ msgs[m].many = message[m].many
        /\ msgs[m].keyed = message[m].keyed /\ msgs[m].marks = message[m].marks
    BY <2>1, <2>2 DEF MessageType
  <2>5. Become(msgs, container, duration) /\ call' = [raised |-> FALSE, made |-> <<>>]
    BY <1>2 DEF SetLevel, Returns
  <2> HIDE DEF msgs
  <2>6. OnlyMessage(m, msgs, container, duration)
    BY <2>2, OnlyMessageTrivially DEF OnlyMessage
  <2>7. NotShared(msgs)
    BY <2>2, <2>3 DEF NotShared, Safe, Messages
  <2>8. ContentsOK(container, msgs[m]) /\ HeldIn(msgs, container, m) \subseteq DOMAIN duration
    BY <2>3, <2>4, SafeMessage DEF ContentsOK, HeldIn
  <2> QED
    BY <2>5, <2>6, <2>7, <2>8, MessageChanges DEF OneMessage
<1> QED
  BY <1>1, <1>2

LEMMA Overlaid ==
    ASSUME NEW new, NEW old
    PROVE  /\ DOMAIN Overlay(new, old) = DOMAIN new \cup DOMAIN old
           /\ \A x \in DOMAIN new : Overlay(new, old)[x] = new[x]
           /\ \A x \in DOMAIN old \ DOMAIN new : Overlay(new, old)[x] = old[x]
BY DEF Overlay

\* A new Duration does not disturb what is there.
LEMMA OneMoreDuration ==
    ASSUME TypeInv, NEW d \in References \ DOMAIN duration, NEW value \in Given
    PROVE  LET durs == Overlay([x \in {d} |-> value], duration)
           IN  /\ DOMAIN duration \subseteq DOMAIN durs /\ DOMAIN durs \subseteq References
               /\ d \in DOMAIN durs
               /\ \A e \in DOMAIN durs : durs[e] \in DurationType
               /\ \A e \in DOMAIN duration : durs[e] = duration[e]
<1> DEFINE durs == Overlay([x \in {d} |-> value], duration)
<1>1. /\ DOMAIN durs = {d} \cup DOMAIN duration /\ durs[d] = value
      /\ \A e \in DOMAIN duration : durs[e] = duration[e]
  BY DEF Overlay
<1>2. value \in DurationType
  BY InputAssumption
<1> HIDE DEF durs
<1>3. /\ DOMAIN duration \subseteq DOMAIN durs /\ DOMAIN durs \subseteq References
      /\ d \in DOMAIN durs
      /\ \A e \in DOMAIN durs : durs[e] \in DurationType
      /\ \A e \in DOMAIN duration : durs[e] = duration[e]
  BY <1>1, <1>2 DEF TypeInv, HeapOK
<1> QED
  BY <1>3 DEF durs

\* The field of a message is assigned a Duration that is in the heap.
LEMMA OneAssigned ==
    ASSUME Safe, NEW m \in Messages, NEW d, NEW durs, d \in DOMAIN durs,
           OnlyMessage(m, message, container, durs),
           Become([message EXCEPT ![m].one = d], container, durs), Returns(<<>>)
    PROVE  OneMessage(m)
<1> DEFINE msgs == [message EXCEPT ![m].one = d]
<1>1. /\ message \in Seq(MessageType) /\ message[m] \in MessageType
      /\ d \in References /\ DOMAIN message = Messages
  BY SafeMessage DEF OnlyMessage
<1>2. /\ msgs \in Seq(MessageType) /\ DOMAIN msgs = Messages
      /\ \A o \in Messages \ {m} : msgs[o] = message[o]
      /\ msgs[m] = [message[m] EXCEPT !.one = d]
  BY <1>1 DEF Messages, MessageType
<1>3. \A o \in Messages : \A f \in Fields : msgs[o][f] = message[o][f]
  BY <1>1, <1>2 DEF Fields, MessageType
<1>4. msgs[m].one = d /\ msgs[m].many = message[m].many
      /\ msgs[m].keyed = message[m].keyed /\ msgs[m].marks = message[m].marks
  BY <1>1, <1>2 DEF MessageType
<1>5. Become(msgs, container, durs)
  OBVIOUS
<1> HIDE DEF msgs
<1>6. OnlyMessage(m, msgs, container, durs)
  BY <1>2 DEF OnlyMessage
<1>7. NotShared(msgs)
  BY <1>2, <1>3 DEF NotShared, Safe, Messages
<1>8. ContentsOK(container, msgs[m]) /\ HeldIn(msgs, container, m) \subseteq DOMAIN durs
  BY <1>3, <1>4, SafeMessage DEF ContentsOK, HeldIn, OnlyMessage
<1> QED
  BY <1>5, <1>6, <1>7, <1>8, MessageChanges DEF OneMessage, Returns

LEMMA SetOneKind ==
    ASSUME Safe, NEW m \in Messages, NEW d \in DOMAIN duration, SetOne(m, d)
    PROVE  OneMessage(m)
BY OneAssigned, OnlyMessageTrivially DEF SetOne

LEMMA SetOnePbKind ==
    ASSUME Safe, NEW m \in Messages, NEW value \in Given, SetOnePb(m, value)
    PROVE  OneMessage(m)
<1>1. PICK d \in References \ DOMAIN duration :
         Become([message EXCEPT ![m].one = d], container, Overlay([x \in {d} |-> value], duration))
  BY DEF SetOnePb
<1> DEFINE durs == Overlay([x \in {d} |-> value], duration)
<1>2. /\ DOMAIN duration \subseteq DOMAIN durs /\ DOMAIN durs \subseteq References
      /\ d \in DOMAIN durs
      /\ \A e \in DOMAIN durs : durs[e] \in DurationType
      /\ \A e \in DOMAIN duration : durs[e] = duration[e]
  BY OneMoreDuration DEF Safe
<1>3. Become([message EXCEPT ![m].one = d], container, durs) /\ Returns(<<>>)
  BY <1>1 DEF SetOnePb
<1> HIDE DEF durs
<1>4. OnlyMessage(m, message, container, durs)
  BY <1>2, OnlyMessageTrivially DEF OnlyMessage
<1> QED
  BY <1>2, <1>3, <1>4, OneAssigned

\* What the container of field f may hold, with these Durations.
ElementsOK(f, elements, durs) ==
    /\ f = "many"  => elements \in Seq(References)
    /\ f = "keyed" => elements \in Maps(References)
    /\ f = "marks" => elements \in Seq({"int", "bool"})
    /\ f # "marks" => Range(elements) \subseteq DOMAIN durs

\* The elements of a field, of this message or another one, may be assigned.
LEMMA ElementsAreOK ==
    ASSUME Safe, NEW o \in Messages, NEW f \in Fields
    PROVE  ElementsOK(f, Elements(o, f), duration)
BY SafeMessage DEF ContentsOK, HeldIn, Fields, ElementsOK, Elements

\* A field is assigned: its container is shared with no other field.
LEMMA ContainerAssigned ==
    ASSUME Safe, NEW m \in Messages, NEW f \in Fields, NEW elements, ElementsOK(f, elements, duration),
           NewContainer(m, f, elements), Returns(<<>>)
    PROVE  OneMessage(m)
<1> DEFINE others == {message[p[1]][p[2]] : p \in (Messages \X Fields) \ {<<m, f>>}}
           c      == CHOOSE x \in Containers \ others : TRUE
           msgs   == [message EXCEPT ![m][f] = c]
           new    == [x \in {c} |-> elements]
           conts  == Overlay(new, container)
<1>1. Become(msgs, conts, duration)
  BY DEF NewContainer
<1>2. /\ message \in Seq(MessageType) /\ message[m] \in MessageType
      /\ ContentsOK(container, message[m])
      /\ HeldIn(message, container, m) \subseteq DOMAIN duration
  BY SafeMessage
<1>3. c \in Containers \ others
  <2>1. message[m][f] \in Containers
    BY <1>2 DEF MessageType, Fields
  <2>2. message[m][f] \notin others
    BY DEF Safe, NotShared, Messages
  <2> QED
    BY <2>1, <2>2
<1>4. /\ \A o \in Messages \ {m} : \A g \in Fields : message[o][g] # c
      /\ \A g \in Fields \ {f} : message[m][g] # c
  <2>1. \A o \in Messages, g \in Fields : <<o, g>> # <<m, f>> => message[o][g] \in others
    <3> SUFFICES ASSUME NEW o \in Messages, NEW g \in Fields, <<o, g>> # <<m, f>>
                 PROVE  message[o][g] \in others
      OBVIOUS
    <3> DEFINE p == <<o, g>>
    <3>1. p \in (Messages \X Fields) \ {<<m, f>>} /\ message[p[1]][p[2]] = message[o][g]
      OBVIOUS
    <3> HIDE DEF p
    <3> QED
      BY <3>1
  <2> HIDE DEF others, c
  <2> QED
    BY <1>3, <2>1
<1>5. /\ msgs \in Seq(MessageType) /\ DOMAIN msgs = Messages
      /\ \A o \in Messages \ {m} : msgs[o] = message[o]
      /\ msgs[m] = [message[m] EXCEPT ![f] = c]
  <2>1. [message[m] EXCEPT ![f] = c] \in MessageType
    <3>1. c \in Containers
      BY <1>3
    <3> HIDE DEF c
    <3> QED
      BY <1>2, <3>1 DEF MessageType, Fields
  <2> HIDE DEF c
  <2> QED
    BY <1>2, <2>1 DEF Messages
<1>6. DOMAIN new = {c} /\ new[c] = elements
  OBVIOUS
<1> HIDE DEF c, others, msgs, new
<1>7. /\ DOMAIN conts = {c} \cup DOMAIN container /\ conts[c] = elements
      /\ \A x \in DOMAIN container \ {c} : conts[x] = container[x]
  <2>1. DOMAIN conts = DOMAIN new \cup DOMAIN container
    BY Overlaid
  <2>2. \A x \in DOMAIN new : conts[x] = new[x]
    BY Overlaid
  <2>3. \A x \in DOMAIN container \ DOMAIN new : conts[x] = container[x]
    BY Overlaid
  <2> QED
    BY <1>6, <2>1, <2>2, <2>3
<1> HIDE DEF conts
<1>8. /\ msgs[m][f] = c /\ msgs[m].one = message[m].one
      /\ \A g \in Fields \ {f} : msgs[m][g] = message[m][g]
  BY <1>2, <1>5 DEF MessageType, Fields
<1>9. \A o \in Messages \ {m} : \A g \in Fields : message[o][g] \in DOMAIN container
  BY SafeMessage DEF ContentsOK
<1>10. OnlyMessage(m, msgs, conts, duration)
  <2>1. DOMAIN container \subseteq DOMAIN conts /\ DOMAIN conts \subseteq Containers
    BY <1>3, <1>7 DEF Safe, TypeInv, HeapOK
  <2>2. \A o \in Messages \ {m} : \A g \in Fields : conts[message[o][g]] = container[message[o][g]]
    BY <1>4, <1>7, <1>9
  <2> QED
    BY <1>5, <2>1, <2>2 DEF OnlyMessage, Safe, TypeInv, HeapOK
<1>11. NotShared(msgs)
  <2>1. \A o \in Messages : \A g \in Fields :
           msgs[o][g] = IF o = m /\ g = f THEN c ELSE message[o][g]
    BY <1>5, <1>8
  <2>2. \A o \in Messages : \A g \in Fields : (o = m /\ g = f) \/ message[o][g] # c
    BY <1>4
  <2>3. \A o, q \in Messages : \A g, h \in Fields : message[o][g] = message[q][h] => o = q /\ g = h
    BY DEF Safe, NotShared, Messages
  <2>4. ASSUME NEW o \in Messages, NEW q \in Messages, NEW g \in Fields, NEW h \in Fields,
               msgs[o][g] = msgs[q][h]
        PROVE  o = q /\ g = h
    BY <2>1, <2>2, <2>3, <2>4
  <2> QED
    BY <1>5, <2>4 DEF NotShared
<1>12. \A g \in Fields : /\ msgs[m][g] \in DOMAIN conts
                         /\ conts[msgs[m][g]] = IF g = f THEN elements ELSE container[message[m][g]]
  BY <1>2, <1>4, <1>7, <1>8 DEF ContentsOK
<1>13. ContentsOK(conts, msgs[m]) /\ HeldIn(msgs, conts, m) \subseteq DOMAIN duration
  BY <1>2, <1>8, <1>12 DEF ContentsOK, HeldIn, Fields, ElementsOK
<1> QED
  BY <1>1, <1>10, <1>11, <1>13, MessageChanges DEF OneMessage, Returns

LEMMA SetContainerKind ==
    ASSUME Safe, NEW m \in Messages, NEW o \in Messages,
           SetMany(m, o) \/ SetKeyed(m, o) \/ SetMarks(m, o)
    PROVE  NothingChanges \/ OneMessage(m)
<1>1. CASE SetMany(m, o)
  BY <1>1, ElementsAreOK, ContainerAssigned DEF SetMany, Fields
<1>2. CASE SetKeyed(m, o)
  BY <1>2, ElementsAreOK, ContainerAssigned DEF SetKeyed, Fields
<1>3. CASE SetMarks(m, o)
  <2>1. CASE ~StrictlyInt(Elements(o, "marks"))
    BY <1>3, <2>1 DEF SetMarks, Raises, NothingChanges
  <2>2. CASE StrictlyInt(Elements(o, "marks"))
    BY <1>3, <2>2, ElementsAreOK, ContainerAssigned DEF SetMarks, Fields
  <2> QED
    BY <2>1, <2>2
<1> QED
  BY <1>1, <1>2, <1>3

\* The container of a field changes in place: no other field sees it.
LEMMA ContainerChanged ==
    ASSUME Safe, NEW m \in Messages, NEW f \in Fields, NEW elements, NEW durs,
           OnlyMessage(m, message, container, durs), ElementsOK(f, elements, durs),
           Become(message, [container EXCEPT ![message[m][f]] = elements], durs)
    PROVE  /\ Safe' /\ Messages' = Messages /\ message' = message
           /\ \A o \in Messages \ {m} : Exported(o)' = Exported(o)
           /\ Exported(m)' =
                 ExportOf(message, [container EXCEPT ![message[m][f]] = elements], durs, m)
           /\ \A d \in DOMAIN duration \cap DOMAIN duration' : duration'[d] = duration[d]
<1> DEFINE c     == message[m][f]
           conts == [container EXCEPT ![c] = elements]
<1>1. /\ ContentsOK(container, message[m])
      /\ HeldIn(message, container, m) \subseteq DOMAIN duration
      /\ DOMAIN message = Messages
  BY SafeMessage DEF Messages
<1>2. c \in DOMAIN container /\ DOMAIN conts = DOMAIN container
  BY <1>1 DEF ContentsOK
<1>3. /\ conts[c] = elements
      /\ \A x \in DOMAIN container \ {c} : conts[x] = container[x]
  BY <1>2
<1>4. \A o \in Messages : \A g \in Fields : (o = m /\ g = f) \/ message[o][g] # c
  BY DEF Safe, NotShared, Messages
<1>5. \A o \in Messages \ {m} : \A g \in Fields : message[o][g] \in DOMAIN container
  BY SafeMessage DEF ContentsOK
<1>6. Become(message, conts, durs)
  OBVIOUS
<1> HIDE DEF conts, c
<1>7. \A o \in Messages \ {m} : \A g \in Fields : conts[message[o][g]] = container[message[o][g]]
  BY <1>3, <1>4, <1>5
<1>8. OnlyMessage(m, message, conts, durs)
  BY <1>2, <1>7 DEF OnlyMessage
<1>9. \A g \in Fields : /\ message[m][g] \in DOMAIN conts
                        /\ conts[message[m][g]] = IF g = f THEN elements ELSE container[message[m][g]]
  BY <1>1, <1>2, <1>3, <1>4 DEF ContentsOK, c
<1>10. ContentsOK(conts, message[m]) /\ HeldIn(message, conts, m) \subseteq DOMAIN durs
  BY <1>1, <1>9 DEF ContentsOK, HeldIn, Fields, ElementsOK, OnlyMessage
<1>11. NotShared(message)
  BY DEF Safe
<1>12. /\ Safe' /\ Messages' = Messages /\ message' = message
       /\ \A o \in Messages \ {m} : Exported(o)' = Exported(o)
       /\ Exported(m)' = ExportOf(message, conts, durs, m)
       /\ \A d \in DOMAIN duration \cap DOMAIN duration' : duration'[d] = duration[d]
  BY <1>6, <1>8, <1>10, <1>11, MessageChanges
<1> QED
  BY <1>12 DEF conts, c

\* A list of Durations grows by one that is in the heap.
LEMMA ManyAppended ==
    ASSUME Safe, NEW m \in Messages, NEW d, NEW durs, d \in DOMAIN durs,
           OnlyMessage(m, message, container, durs),
           Become(message, [container EXCEPT ![message[m].many] = Append(@, d)], durs),
           Returns(<<>>)
    PROVE  OneMessage(m)
<1> DEFINE elements == Append(Elements(m, "many"), d)
<1>1. Elements(m, "many") \in Seq(References) /\ Range(Elements(m, "many")) \subseteq DOMAIN durs
  BY ElementsAreOK DEF ElementsOK, Fields, OnlyMessage
<1>2. d \in References
  BY DEF OnlyMessage
<1>3. elements \in Seq(References) /\ Range(elements) \subseteq DOMAIN durs
  <2>1. /\ elements \in Seq(References) /\ Len(elements) = Len(Elements(m, "many")) + 1
        /\ \A i \in 1 .. Len(Elements(m, "many")) : elements[i] = Elements(m, "many")[i]
        /\ elements[Len(Elements(m, "many")) + 1] = d
    BY <1>1, <1>2, AppendProperties
  <2>2. /\ DOMAIN elements = 1 .. Len(Elements(m, "many")) + 1
        /\ DOMAIN Elements(m, "many") = 1 .. Len(Elements(m, "many"))
        /\ Len(Elements(m, "many")) \in Nat
    BY <1>1, <2>1, LenProperties
  <2> HIDE DEF elements
  <2> QED
    BY <1>1, <2>1, <2>2 DEF Range
<1>4. Become(message, [container EXCEPT ![message[m]["many"]] = elements], durs)
  BY DEF Elements
<1> HIDE DEF elements
<1>5. ElementsOK("many", elements, durs)
  BY <1>3 DEF ElementsOK
<1>6. "many" \in Fields
  BY DEF Fields
<1> QED
  BY <1>4, <1>5, <1>6, ContainerChanged DEF OneMessage, Returns

LEMMA AppendManyKind ==
    ASSUME Safe, NEW m \in Messages, NEW d \in DOMAIN duration, AppendMany(m, d)
    PROVE  OneMessage(m)
BY ManyAppended, OnlyMessageTrivially DEF AppendMany

LEMMA AppendManyPbKind ==
    ASSUME Safe, NEW m \in Messages, NEW value \in Given, AppendManyPb(m, value)
    PROVE  OneMessage(m)
<1>1. PICK d \in References \ DOMAIN duration :
         Become(message, [container EXCEPT ![message[m].many] = Append(@, d)],
                Overlay([x \in {d} |-> value], duration))
  BY DEF AppendManyPb
<1> DEFINE durs == Overlay([x \in {d} |-> value], duration)
<1>2. /\ DOMAIN duration \subseteq DOMAIN durs /\ DOMAIN durs \subseteq References
      /\ d \in DOMAIN durs
      /\ \A e \in DOMAIN durs : durs[e] \in DurationType
      /\ \A e \in DOMAIN duration : durs[e] = duration[e]
  BY OneMoreDuration DEF Safe
<1>3. /\ Become(message, [container EXCEPT ![message[m].many] = Append(@, d)], durs)
      /\ Returns(<<>>)
  BY <1>1 DEF AppendManyPb
<1> HIDE DEF durs
<1>4. OnlyMessage(m, message, container, durs)
  BY <1>2, OnlyMessageTrivially DEF OnlyMessage
<1> QED
  BY <1>2, <1>3, <1>4, ManyAppended

\* A list that is only appended to exports a longer list.
LEMMA MarksPrefix ==
    ASSUME NEW n \in Nat, NEW k \in Nat, n <= k
    PROVE  IsPrefix([i \in 1 .. n |-> "int"], [i \in 1 .. k |-> "int"])
<1> DEFINE s == [i \in 1 .. n |-> "int"]
           t == [i \in 1 .. k |-> "int"]
<1>1. s \in Seq({"int"}) /\ t \in Seq({"int"}) /\ Len(s) = n /\ Len(t) = k
  OBVIOUS
<1>2. (\A i \in 1 .. n : s[i] = "int") /\ (\A i \in 1 .. n : t[i] = "int")
  OBVIOUS
<1> HIDE DEF s, t
<1>3. /\ SubSeq(s, 1, n) \in Seq({"int"}) /\ SubSeq(t, 1, n) \in Seq({"int"})
      /\ Len(SubSeq(s, 1, n)) = n /\ Len(SubSeq(t, 1, n)) = n
      /\ \A i \in 1 .. n : SubSeq(s, 1, n)[i] = "int" /\ SubSeq(t, 1, n)[i] = "int"
  BY <1>2, SubSeqProperties
<1>4. SubSeq(s, 1, n) = SubSeq(t, 1, n)
  BY <1>3, SeqEqual
<1> QED
  BY <1>1, <1>4 DEF IsPrefix

LEMMA ValueFields == Values = {"level", "one", "many", "keyed", "marks"}
BY DEF Values, Fields

LEMMA ExtendMarksKind ==
    ASSUME Safe, NEW m \in Messages, NEW marks \in Extensions, ExtendMarks(m, marks)
    PROVE  OneMessage(m)
<1>0. PICK taken \in 0 .. Len(marks) :
         /\ \A i \in 1 .. taken : marks[i] \in {"int", "bool"}
         /\ Become(message,
                   [container EXCEPT ![message[m].marks] = @ \o SubSeq(marks, 1, taken)], duration)
         /\ call' = [raised |-> taken < Len(marks), made |-> <<>>]
  BY DEF ExtendMarks
<1> DEFINE elements == Elements(m, "marks") \o SubSeq(marks, 1, taken)
           conts    == [container EXCEPT ![message[m]["marks"]] = elements]
<1>1. Become(message, conts, duration) /\ call'.made = <<>>
  BY <1>0 DEF Elements
<1>2. SubSeq(marks, 1, taken) \in Seq({"int", "bool"})
  <2>1. Len(marks) \in Nat
    BY InputAssumption, LenProperties
  <2>2. taken \in Int
    BY <2>1
  <2> QED
    BY <1>0, <2>2, SubSeqProperties
<1>3. Elements(m, "marks") \in Seq({"int", "bool"}) /\ "marks" \in Fields
  BY ElementsAreOK DEF ElementsOK, Fields
<1>4. /\ elements \in Seq({"int", "bool"})
      /\ Len(Elements(m, "marks")) \in Nat /\ Len(elements) \in Nat
      /\ Len(Elements(m, "marks")) <= Len(elements)
  BY <1>2, <1>3, ConcatProperties, LenProperties
<1>5. DOMAIN elements = 1 .. Len(elements)
      /\ DOMAIN Elements(m, "marks") = 1 .. Len(Elements(m, "marks"))
  BY <1>3, <1>4, LenProperties
<1> HIDE DEF elements
<1>6. ElementsOK("marks", elements, duration)
  BY <1>4 DEF ElementsOK
<1>7. /\ Safe' /\ Messages' = Messages /\ message' = message
      /\ \A o \in Messages \ {m} : Exported(o)' = Exported(o)
      /\ Exported(m)' = ExportOf(message, conts, duration, m)
      /\ \A d \in DOMAIN duration \cap DOMAIN duration' : duration'[d] = duration[d]
  BY <1>1, <1>3, <1>6, OnlyMessageTrivially, ContainerChanged
<1>8. /\ conts[message[m].marks] = elements
      /\ conts[message[m].many] = Elements(m, "many")
      /\ conts[message[m].keyed] = Elements(m, "keyed")
  <2>1. /\ \A f \in Fields : message[m][f] \in DOMAIN container
        /\ message[m]["many"] # message[m]["marks"] /\ message[m]["keyed"] # message[m]["marks"]
    BY SafeMessage DEF ContentsOK, Safe, NotShared, Messages, Fields
  <2> QED
    BY <2>1 DEF Elements, Fields
<1> HIDE DEF conts
<1>9. /\ Exported(m)' = [has |-> TRUE, level |-> message[m].level, one |-> duration[message[m].one],
           many  |-> [i \in DOMAIN Elements(m, "many") |-> duration[Elements(m, "many")[i]]],
           keyed |-> [k \in DOMAIN Elements(m, "keyed") |-> duration[Elements(m, "keyed")[k]]],
           marks |-> [i \in 1 .. Len(elements) |-> "int"]]
      /\ Exported(m) = [has |-> TRUE, level |-> message[m].level, one |-> duration[message[m].one],
           many  |-> [i \in DOMAIN Elements(m, "many") |-> duration[Elements(m, "many")[i]]],
           keyed |-> [k \in DOMAIN Elements(m, "keyed") |-> duration[Elements(m, "keyed")[k]]],
           marks |-> [i \in 1 .. Len(Elements(m, "marks")) |-> "int"]]
  BY <1>5, <1>7, <1>8 DEF Exported, ExportOf
<1>10. \A field \in Values \ {"marks"} : Exported(m)'[field] = Exported(m)[field]
  <2> DEFINE one   == duration[message[m].one]
             many  == [i \in DOMAIN Elements(m, "many") |-> duration[Elements(m, "many")[i]]]
             keyed == [k \in DOMAIN Elements(m, "keyed") |-> duration[Elements(m, "keyed")[k]]]
             short == [i \in 1 .. Len(Elements(m, "marks")) |-> "int"]
             long  == [i \in 1 .. Len(elements) |-> "int"]
  <2>1. /\ Exported(m)' = [has |-> TRUE, level |-> message[m].level, one |-> one,
                           many |-> many, keyed |-> keyed, marks |-> long]
        /\ Exported(m) = [has |-> TRUE, level |-> message[m].level, one |-> one,
                          many |-> many, keyed |-> keyed, marks |-> short]
    BY <1>9
  <2> HIDE DEF one, many, keyed, short, long
  <2> QED
    BY <2>1, ValueFields
<1>11. IsPrefix(Exported(m).marks, Exported(m)'.marks)
  <2>1. /\ Exported(m)'.marks = [i \in 1 .. Len(elements) |-> "int"]
        /\ Exported(m).marks = [i \in 1 .. Len(Elements(m, "marks")) |-> "int"]
    BY <1>9
  <2> QED
    BY <1>4, <2>1, MarksPrefix
<1> QED
  BY <1>1, <1>7, <1>10, <1>11 DEF OneMessage

----------------------------------------------------------------------------
(* One Duration changes.                                                   *)

\* A step is carried without loss, whatever its sign and the base.
LEMMA CarryLosesNothing ==
    ASSUME NEW value \in DurationType, NEW ns \in Int
    PROVE  /\ SumCarried(value, ns).nanos \in 0 .. SecondInNs - 1
           /\ SumCarried(value, ns).seconds * SecondInNs + SumCarried(value, ns).nanos
                - (value.seconds * SecondInNs + value.nanos) = ns
<1> DEFINE total == value.nanos + ns
           q     == total \div SecondInNs
<1>1. /\ value.seconds \in Int /\ value.nanos \in Int /\ total \in Int
      /\ SecondInNs \in Int /\ SecondInNs > 0
  <2>1. value.seconds \in Seconds /\ value.nanos \in 0 .. SecondInNs - 1
    BY DEF DurationType
  <2>2. SecondInNs \in Int /\ SecondInNs > 0
    OBVIOUS
  <2>3. value.seconds \in Int
    BY <2>1
  <2>4. value.nanos \in Int
    BY <2>1
  <2> QED
    BY <2>2, <2>3, <2>4
<1> HIDE DEF total
<1>2. /\ q \in Int /\ total % SecondInNs \in 0 .. SecondInNs - 1
      /\ total = SecondInNs * q + (total % SecondInNs)
  BY <1>1
<1>3. /\ SumCarried(value, ns).seconds = value.seconds + q
      /\ SumCarried(value, ns).nanos = total % SecondInNs
  BY DEF SumCarried, total
<1> HIDE DEF q
<1>4. (value.seconds + q) * SecondInNs = value.seconds * SecondInNs + SecondInNs * q
  BY <1>1, <1>2
<1>5. /\ value.seconds * SecondInNs \in Int /\ SecondInNs * q \in Int
      /\ total % SecondInNs \in Int
  BY <1>1, <1>2
<1>6. SumCarried(value, ns).seconds * SecondInNs
        = value.seconds * SecondInNs + SecondInNs * q
  BY <1>3, <1>4
<1>7. total = value.nanos + ns
  BY DEF total
<1> DEFINE a == value.seconds * SecondInNs
           b == SecondInNs * q
           c == total % SecondInNs
<1>8. (a + b) + c - (a + value.nanos) = ns
  <2>1. a \in Int /\ b \in Int /\ c \in Int /\ total = b + c
    BY <1>2, <1>5
  <2> HIDE DEF a, b, c
  <2> QED
    BY <1>1, <1>7, <2>1
<1> QED
  BY <1>2, <1>3, <1>6, <1>8

\* What an operation on a Duration does.
OneDuration(d) ==
    /\ Safe' /\ message' = message
    /\ \A m \in Messages : d \notin Held(m) => Exported(m)' = Exported(m)
    /\ \A e \in DOMAIN duration \cap DOMAIN duration' :
           \/ duration'[e].nanos = duration[e].nanos
           \/ duration'[e].seconds * SecondInNs + duration'[e].nanos
                - (duration[e].seconds * SecondInNs + duration[e].nanos) \in Steps
    /\ call' = [raised |-> FALSE, made |-> <<>>]

LEMMA DurationChanged ==
    ASSUME Safe, NEW d \in DOMAIN duration, NEW durs,
           DOMAIN durs = DOMAIN duration, durs[d] \in DurationType,
           \A e \in DOMAIN duration \ {d} : durs[e] = duration[e],
           \/ durs[d].nanos = duration[d].nanos
           \/ durs[d].seconds * SecondInNs + durs[d].nanos
                - (duration[d].seconds * SecondInNs + duration[d].nanos) \in Steps,
           Become(message, container, durs), Returns(<<>>)
    PROVE  OneDuration(d)
<1>1. HeapOK(message, container, durs)
  BY DEF Safe, TypeInv, HeapOK
<1>2. /\ TypeInv' /\ message' = message
      /\ \A m \in Messages : Exported(m)' = ExportOf(message, container, durs, m)
      /\ \A e \in DOMAIN duration' : e \in DOMAIN durs /\ duration'[e] = durs[e]
  BY <1>1, Becomes DEF Messages
<1>3. ASSUME NEW m \in Messages, d \notin Held(m) PROVE Exported(m)' = Exported(m)
  <2>1. HeldIn(message, container, m) \subseteq DOMAIN duration /\ d \notin HeldIn(message, container, m)
    BY <1>3, SafeMessage, HeldIsHeldIn
  <2>2. SeesSame(message, container, duration, message, container, durs, m)
    BY <2>1 DEF SeesSame
  <2> QED
    BY <1>2, <2>2, SameExport, ExportedIsExportOf
<1>4. Safe'
  BY <1>2 DEF Safe
<1>5. \A e \in DOMAIN duration \cap DOMAIN duration' :
         \/ duration'[e].nanos = duration[e].nanos
         \/ duration'[e].seconds * SecondInNs + duration'[e].nanos
              - (duration[e].seconds * SecondInNs + duration[e].nanos) \in Steps
  <2> SUFFICES ASSUME NEW e \in DOMAIN duration \cap DOMAIN duration'
               PROVE  \/ duration'[e].nanos = duration[e].nanos
                      \/ duration'[e].seconds * SecondInNs + duration'[e].nanos
                           - (duration[e].seconds * SecondInNs + duration[e].nanos) \in Steps
    OBVIOUS
  <2>1. CASE e = d
    BY <1>2, <2>1
  <2>2. CASE e # d
    BY <1>2, <2>2
  <2> QED
    BY <2>1, <2>2
<1> QED
  BY <1>2, <1>3, <1>4, <1>5 DEF OneDuration, Returns

LEMMA SetSecondsKind ==
    ASSUME Safe, NEW d \in DOMAIN duration, NEW seconds \in Seconds, SetSeconds(d, seconds)
    PROVE  OneDuration(d)
<1> DEFINE durs == [duration EXCEPT ![d].seconds = seconds]
<1>1. duration[d] \in DurationType
  BY DEF Safe, TypeInv, HeapOK
<1>2. /\ DOMAIN durs = DOMAIN duration /\ durs[d] = [duration[d] EXCEPT !.seconds = seconds]
      /\ \A e \in DOMAIN duration \ {d} : durs[e] = duration[e]
  OBVIOUS
<1>3. durs[d] \in DurationType /\ durs[d].nanos = duration[d].nanos
  BY <1>1, <1>2 DEF DurationType
<1>4. Become(message, container, durs) /\ Returns(<<>>)
  BY DEF SetSeconds
<1> HIDE DEF durs
<1> QED
  BY <1>2, <1>3, <1>4, DurationChanged

LEMMA AddNanosecondsKind ==
    ASSUME Safe, NEW d \in DOMAIN duration, NEW ns \in Steps, AddNanoseconds(d, ns)
    PROVE  OneDuration(d)
<1> DEFINE sum  == SumCarried(duration[d], ns)
           durs == [duration EXCEPT ![d] = sum]
<1>1. duration[d] \in DurationType /\ ns \in Int
  BY DEF Safe, TypeInv, HeapOK
<1>2. /\ DOMAIN durs = DOMAIN duration /\ durs[d] = sum
      /\ \A e \in DOMAIN duration \ {d} : durs[e] = duration[e]
  OBVIOUS
<1>3. /\ sum \in DurationType
      /\ sum.seconds * SecondInNs + sum.nanos
           - (duration[d].seconds * SecondInNs + duration[d].nanos) = ns
  <2>1. sum.seconds \in Seconds
    BY DEF AddNanoseconds
  <2>2. sum = [seconds |-> sum.seconds, nanos |-> sum.nanos]
    BY DEF SumCarried
  <2>3. /\ sum.nanos \in 0 .. SecondInNs - 1
        /\ sum.seconds * SecondInNs + sum.nanos
             - (duration[d].seconds * SecondInNs + duration[d].nanos) = ns
    BY <1>1, CarryLosesNothing
  <2> HIDE DEF sum
  <2> QED
    BY <2>1, <2>2, <2>3 DEF DurationType
<1>4. Become(message, container, durs) /\ Returns(<<>>)
  BY DEF AddNanoseconds
<1> HIDE DEF durs, sum
<1>5. /\ durs[d] \in DurationType
      /\ durs[d].seconds * SecondInNs + durs[d].nanos
           - (duration[d].seconds * SecondInNs + duration[d].nanos) \in Steps
  BY <1>2, <1>3
<1> QED
  BY <1>2, <1>4, <1>5, DurationChanged

----------------------------------------------------------------------------
(* A message is made.                                                      *)

PbPlaces(pb) == Places(pb.many, pb.keyed)

\* Places that get the same Duration are of one kind and have one value.
FirstOK(pb, first) ==
    /\ first \in [PbPlaces(pb) -> PbPlaces(pb)]
    /\ \A p \in PbPlaces(pb) : first[p][1] = p[1] /\ ValueAt(pb, first[p]) = ValueAt(pb, p)

LEMMA PlaceKinds ==
    ASSUME NEW pb, NEW p \in PbPlaces(pb)
    PROVE  \/ p = <<"one", 1>>
           \/ \E i \in DOMAIN pb.many : p = <<"many", i>>
           \/ \E k \in DOMAIN pb.keyed : p = <<"keyed", k>>
BY DEF PbPlaces, Places

LEMMA KindsArePlaces ==
    ASSUME NEW pb
    PROVE  /\ <<"one", 1>> \in PbPlaces(pb)
           /\ \A i \in DOMAIN pb.many : <<"many", i>> \in PbPlaces(pb)
           /\ \A k \in DOMAIN pb.keyed : <<"keyed", k>> \in PbPlaces(pb)
BY DEF PbPlaces, Places

LEMMA ValuesAt ==
    ASSUME NEW pb
    PROVE  /\ ValueAt(pb, <<"one", 1>>) = pb.one
           /\ \A i : ValueAt(pb, <<"many", i>>) = pb.many[i]
           /\ \A k : ValueAt(pb, <<"keyed", k>>) = pb.keyed[k]
BY DEF ValueAt

LEMMA PbContents ==
    ASSUME NEW pb \in PbType
    PROVE  /\ pb.one \in DurationType
           /\ DOMAIN pb.many = 1 .. Len(pb.many) /\ Len(pb.many) \in Nat
           /\ pb.many = [i \in DOMAIN pb.many |-> pb.many[i]]
           /\ \A i \in DOMAIN pb.many : pb.many[i] \in DurationType
           /\ DOMAIN pb.keyed \subseteq MapKeys
           /\ pb.keyed = [k \in DOMAIN pb.keyed |-> pb.keyed[k]]
           /\ \A k \in DOMAIN pb.keyed : pb.keyed[k] \in DurationType
           /\ pb.marks = [i \in DOMAIN pb.marks |-> "int"]
<1>1. /\ pb.one \in DurationType /\ pb.many \in Seq(DurationType)
      /\ pb.keyed \in Maps(DurationType) /\ pb.marks \in Seq({"int"})
  BY DEF PbType
<1>2. /\ Len(pb.many) \in Nat /\ pb.many \in [1 .. Len(pb.many) -> DurationType]
      /\ pb.marks \in [1 .. Len(pb.marks) -> {"int"}]
  BY <1>1, LenProperties
<1>3. PICK keys \in SUBSET MapKeys : pb.keyed \in [keys -> DurationType]
  BY <1>1 DEF Maps
<1> QED
  BY <1>1, <1>2, <1>3

LEMMA PlaceTypes ==
    ASSUME NEW pb \in PbType, NEW p \in PbPlaces(pb)
    PROVE  ValueAt(pb, p) \in DurationType
<1>1. CASE p = <<"one", 1>>
  BY <1>1, PbContents, ValuesAt
<1>2. ASSUME NEW i \in DOMAIN pb.many, p = <<"many", i>> PROVE ValueAt(pb, p) \in DurationType
  <2>1. ValueAt(pb, p) = pb.many[i]
    BY <1>2 DEF ValueAt
  <2>2. pb.many[i] \in DurationType
    BY PbContents
  <2> QED
    BY <2>1, <2>2
<1>3. ASSUME NEW k \in DOMAIN pb.keyed, p = <<"keyed", k>> PROVE ValueAt(pb, p) \in DurationType
  <2>1. ValueAt(pb, p) = pb.keyed[k]
    BY <1>3 DEF ValueAt
  <2>2. pb.keyed[k] \in DurationType
    BY PbContents
  <2> QED
    BY <2>1, <2>2
<1> QED
  BY <1>1, <1>2, <1>3, PlaceKinds

\* The heap with one more message, msg, which holds the new Duration at[p] at place p.
MadeHeap(pb, at, msg, conts, durs) ==
    /\ msg \in MessageType /\ msg.level = pb.level /\ msg.one = at[<<"one", 1>>]
    /\ \A f \in Fields : msg[f] \in DOMAIN conts \ DOMAIN container
    /\ \A f, g \in Fields : msg[f] = msg[g] => f = g
    /\ conts[msg.many] = [i \in DOMAIN pb.many |-> at[<<"many", i>>]]
    /\ conts[msg.keyed] = [k \in DOMAIN pb.keyed |-> at[<<"keyed", k>>]]
    /\ conts[msg.marks] = pb.marks
    /\ DOMAIN container \subseteq DOMAIN conts /\ DOMAIN conts \subseteq Containers
    /\ \A c \in DOMAIN container : conts[c] = container[c]
    /\ \A p \in PbPlaces(pb) :
           at[p] \in DOMAIN durs \ DOMAIN duration /\ durs[at[p]] = ValueAt(pb, p)
    /\ \A p, q \in PbPlaces(pb) : at[p] = at[q] => p[1] = q[1]
    /\ DOMAIN duration \subseteq DOMAIN durs /\ DOMAIN durs \subseteq References
    /\ \A d \in DOMAIN durs : durs[d] \in DurationType
    /\ \A d \in DOMAIN duration : durs[d] = duration[d]

LEMMA NewMessageHeap ==
    ASSUME Safe, NEW pb \in PbType, pb.level \in Levels, NEW first, FirstOK(pb, first),
           Room, NewMessage(pb, first)
    PROVE  \E at, msg, conts, durs :
              MadeHeap(pb, at, msg, conts, durs) /\ Become(Append(message, msg), conts, durs)
<1> DEFINE places == PbPlaces(pb)
           held   == CHOOSE h \in Injection(Fields, Containers \ DOMAIN container) : TRUE
<1>p. /\ first \in [places -> places]
      /\ \A p \in places : first[p][1] = p[1] /\ ValueAt(pb, first[p]) = ValueAt(pb, p)
  BY DEF FirstOK
<1>1. PICK new \in Injection(Range(first), References \ DOMAIN duration) :
        LET at   == [place \in DOMAIN first |-> new[first[place]]]
            msg  == [level |-> pb.level, one |-> at[<<"one", 1>>],
                     many |-> held["many"], keyed |-> held["keyed"], marks |-> held["marks"]]
            opened == [c \in Range(held) |->
                          CASE c = held["many"]  -> [i \in DOMAIN pb.many |-> at[<<"many", i>>]]
                            [] c = held["keyed"] -> [k \in DOMAIN pb.keyed |-> at[<<"keyed", k>>]]
                            [] c = held["marks"] -> pb.marks]
            values == [d \in Range(new) |->
                          ValueAt(pb, CHOOSE place \in DOMAIN new : new[place] = d)]
        IN  Become(Append(message, msg), Overlay(opened, container), Overlay(values, duration))
  BY DEF NewMessage
<1> DEFINE at   == [place \in DOMAIN first |-> new[first[place]]]
           msg  == [level |-> pb.level, one |-> at[<<"one", 1>>],
                    many |-> held["many"], keyed |-> held["keyed"], marks |-> held["marks"]]
           opened == [c \in Range(held) |->
                         CASE c = held["many"]  -> [i \in DOMAIN pb.many |-> at[<<"many", i>>]]
                           [] c = held["keyed"] -> [k \in DOMAIN pb.keyed |-> at[<<"keyed", k>>]]
                           [] c = held["marks"] -> pb.marks]
           values == [d \in Range(new) |->
                         ValueAt(pb, CHOOSE place \in DOMAIN new : new[place] = d)]
           conts  == Overlay(opened, container)
           durs   == Overlay(values, duration)
<1>2. Become(Append(message, msg), conts, durs)
  BY <1>1
<1>3. /\ new \in [Range(first) -> References \ DOMAIN duration]
      /\ \A a, b \in Range(first) : new[a] = new[b] => a = b
  BY DEF Injection, IsInjective
<1>4. \A p \in places : first[p] \in Range(first) /\ first[p] \in places
  BY <1>p DEF Range
<1>5. \A p \in places : at[p] = new[first[p]] /\ at[p] \in Range(new)
  BY <1>p, <1>3, <1>4 DEF Range
<1>6. held \in Injection(Fields, Containers \ DOMAIN container)
  BY DEF Room, ExistsInjection
<1>7. /\ held \in [Fields -> Containers \ DOMAIN container]
      /\ \A f, g \in Fields : held[f] = held[g] => f = g
  BY <1>6 DEF Injection, IsInjective
<1> HIDE DEF at, held
<1>8. Range(held) = {held["many"], held["keyed"], held["marks"]}
  BY <1>7 DEF Range, Fields
<1>9. /\ held["many"] # held["keyed"] /\ held["many"] # held["marks"] /\ held["keyed"] # held["marks"]
      /\ \A f \in Fields : held[f] \in Containers /\ held[f] \notin DOMAIN container
  BY <1>7 DEF Fields
<1>10. /\ DOMAIN opened = Range(held)
       /\ opened[held["many"]] = [i \in DOMAIN pb.many |-> at[<<"many", i>>]]
       /\ opened[held["keyed"]] = [k \in DOMAIN pb.keyed |-> at[<<"keyed", k>>]]
       /\ opened[held["marks"]] = pb.marks
  BY <1>8, <1>9
<1>11. ASSUME NEW p \in places
       PROVE  values[at[p]] = ValueAt(pb, p)
  <2>1. DOMAIN new = Range(first)
    BY <1>3
  <2>2. (CHOOSE place \in DOMAIN new : new[place] = at[p]) = first[p]
    BY <2>1, <1>3, <1>4, <1>5
  <2> QED
    BY <2>2, <1>p, <1>5
<1>12. ASSUME NEW d \in Range(new)
       PROVE  values[d] \in DurationType /\ d \in References \ DOMAIN duration
  <2>1. PICK a \in Range(first) : d = new[a]
    BY <1>3 DEF Range
  <2>2. PICK p \in places : a = first[p]
    BY <2>1, <1>p DEF Range
  <2>3. d = at[p]
    BY <2>1, <2>2, <1>5
  <2> QED
    <3>1. values[d] = ValueAt(pb, p) /\ ValueAt(pb, p) \in DurationType
      BY <2>3, <1>11, PlaceTypes
    <3>2. d \in References \ DOMAIN duration
      BY <2>1, <1>3
    <3> QED
      BY <3>1, <3>2
<1>13. DOMAIN values = Range(new)
  OBVIOUS
<1> HIDE DEF opened, values
<1>14. /\ DOMAIN conts = Range(held) \cup DOMAIN container
       /\ \A f \in Fields : conts[held[f]] = opened[held[f]]
       /\ \A c \in DOMAIN container : conts[c] = container[c]
  <2>1. DOMAIN conts = DOMAIN opened \cup DOMAIN container
    BY Overlaid
  <2>2. \A c \in DOMAIN opened : conts[c] = opened[c]
    BY Overlaid
  <2>3. \A c \in DOMAIN container \ DOMAIN opened : conts[c] = container[c]
    BY Overlaid
  <2>4. \A f \in Fields : held[f] \in DOMAIN opened
    BY <1>7, <1>10 DEF Range
  <2>5. \A c \in DOMAIN container : c \notin DOMAIN opened
    BY <1>8, <1>9, <1>10 DEF Fields
  <2> QED
    BY <1>10, <2>1, <2>2, <2>3, <2>4, <2>5
<1>15. /\ DOMAIN durs = Range(new) \cup DOMAIN duration
       /\ \A d \in Range(new) : durs[d] = values[d]
       /\ \A d \in DOMAIN duration : durs[d] = duration[d]
  <2>1. DOMAIN durs = DOMAIN values \cup DOMAIN duration
    BY Overlaid
  <2>2. \A d \in DOMAIN values : durs[d] = values[d]
    BY Overlaid
  <2>3. \A d \in DOMAIN duration \ DOMAIN values : durs[d] = duration[d]
    BY Overlaid
  <2> QED
    BY <1>12, <1>13, <2>1, <2>2, <2>3
<1> HIDE DEF conts, durs
<1>16. /\ msg \in MessageType /\ msg.level = pb.level /\ msg.one = at[<<"one", 1>>]
       /\ msg.many = held["many"] /\ msg.keyed = held["keyed"] /\ msg.marks = held["marks"]
       /\ \A f \in Fields : msg[f] = held[f]
  <2>1. at[<<"one", 1>>] \in References
    BY <1>5, <1>12, KindsArePlaces
  <2> QED
    BY <1>9, <2>1 DEF MessageType, Fields
<1> HIDE DEF msg
<1>17. MadeHeap(pb, at, msg, conts, durs)
  <2>1. /\ \A f \in Fields : msg[f] \in DOMAIN conts \ DOMAIN container
        /\ \A f, g \in Fields : msg[f] = msg[g] => f = g
    BY <1>7, <1>9, <1>14, <1>16 DEF Range
  <2>2. /\ conts[msg.many] = [i \in DOMAIN pb.many |-> at[<<"many", i>>]]
        /\ conts[msg.keyed] = [k \in DOMAIN pb.keyed |-> at[<<"keyed", k>>]]
        /\ conts[msg.marks] = pb.marks
    BY <1>10, <1>14, <1>16 DEF Fields
  <2>3. /\ DOMAIN container \subseteq DOMAIN conts /\ DOMAIN conts \subseteq Containers
        /\ \A c \in DOMAIN container : conts[c] = container[c]
    BY <1>8, <1>9, <1>14 DEF Safe, TypeInv, HeapOK, Fields
  <2>4. \A p \in PbPlaces(pb) :
           at[p] \in DOMAIN durs \ DOMAIN duration /\ durs[at[p]] = ValueAt(pb, p)
    BY <1>5, <1>11, <1>12, <1>15
  <2>5. \A p, q \in PbPlaces(pb) : at[p] = at[q] => p[1] = q[1]
    BY <1>p, <1>3, <1>4, <1>5
  <2>6. /\ DOMAIN duration \subseteq DOMAIN durs /\ DOMAIN durs \subseteq References
        /\ \A d \in DOMAIN durs : durs[d] \in DurationType
        /\ \A d \in DOMAIN duration : durs[d] = duration[d]
    BY <1>12, <1>15 DEF Safe, TypeInv, HeapOK
  <2> QED
    BY <1>16, <2>1, <2>2, <2>3, <2>4, <2>5, <2>6 DEF MadeHeap
<1> QED
  BY <1>2, <1>17

\* What an operation that makes message n from pb does.
MessageMade(pb, n) ==
    /\ Safe' /\ n = Len(message') /\ Messages' = Messages \cup {n} /\ n \notin Messages
    /\ \A m \in Messages : Exported(m)' = Exported(m) /\ Held(m)' \cap Held(n)' = {}
    /\ \A p, q \in PlacesOf(n)' : At(n, p)' = At(n, q)' => p[1] = q[1]
    /\ \A field \in Values : Exported(n)'[field] = pb[field]
    /\ \A d \in DOMAIN duration \cap DOMAIN duration' : duration'[d] = duration[d]
    /\ call' = [raised |-> FALSE, made |-> <<pb>>]

\* In the heap with the new message, the old ones are what they were.
OneMore(pb, at, msgs, conts, durs, n) ==
    /\ HeapOK(msgs, conts, durs) /\ NotShared(msgs)
    /\ Len(msgs) = n /\ DOMAIN msgs = Messages \cup {n} /\ n \notin Messages
    /\ \A m \in Messages :
           /\ ExportOf(msgs, conts, durs, m) = Exported(m)
           /\ HeldIn(msgs, conts, m) = Held(m) /\ Held(m) \subseteq DOMAIN duration
    /\ \A d \in HeldIn(msgs, conts, n) : \E p \in PbPlaces(pb) : d = at[p]

LEMMA MadeHeapOK ==
    ASSUME Safe, NEW pb \in PbType, NEW at, NEW msg, NEW conts, NEW durs,
           MadeHeap(pb, at, msg, conts, durs), NEW n, n = Len(message) + 1
    PROVE  OneMore(pb, at, Append(message, msg), conts, durs, n) /\ Append(message, msg)[n] = msg
<1> DEFINE msgs == Append(message, msg)
<1>1. /\ message \in Seq(MessageType) /\ msg \in MessageType /\ Len(message) \in Nat
      /\ Messages = 1 .. Len(message)
  BY LenProperties DEF Safe, TypeInv, HeapOK, MadeHeap, Messages
<1>2. /\ msgs \in Seq(MessageType) /\ Len(msgs) = n
      /\ \A m \in Messages : msgs[m] = message[m]
      /\ msgs[n] = msg
  BY <1>1, AppendProperties
<1> HIDE DEF msgs
<1>3. DOMAIN msgs = Messages \cup {n} /\ n \notin Messages
  <2>1. DOMAIN msgs = 1 .. n
    BY <1>2, LenProperties
  <2> QED
    BY <1>1, <2>1
<1>4. ASSUME NEW m \in Messages
      PROVE  /\ ExportOf(msgs, conts, durs, m) = Exported(m)
             /\ HeldIn(msgs, conts, m) = Held(m) /\ Held(m) \subseteq DOMAIN duration
             /\ ContentsOK(conts, msgs[m])
             /\ \A f \in Fields : message[m][f] \in DOMAIN container
  <2>1. ContentsOK(container, message[m]) /\ HeldIn(message, container, m) \subseteq DOMAIN duration
    BY SafeMessage
  <2>2. SeesSame(message, container, duration, msgs, conts, durs, m)
    BY <1>2, <2>1 DEF SeesSame, MadeHeap, ContentsOK
  <2>3. /\ HeldIn(msgs, conts, m) = HeldIn(message, container, m)
        /\ ExportOf(msgs, conts, durs, m) = ExportOf(message, container, duration, m)
    BY <2>2, SameExport
  <2>4. ContentsOK(conts, msgs[m])
    <3>1. \A f \in Fields : /\ message[m][f] \in DOMAIN conts
                            /\ conts[message[m][f]] = container[message[m][f]]
      BY <2>1 DEF ContentsOK, MadeHeap
    <3>2. /\ conts[message[m].many] = container[message[m].many]
          /\ conts[message[m].keyed] = container[message[m].keyed]
          /\ conts[message[m].marks] = container[message[m].marks]
      BY <3>1 DEF Fields
    <3> QED
      BY <1>2, <2>1, <3>1, <3>2 DEF ContentsOK
  <2> QED
    BY <2>1, <2>3, <2>4, ExportedIsExportOf, HeldIsHeldIn DEF ContentsOK
<1>5. ASSUME NEW d \in HeldIn(msgs, conts, n)
      PROVE  \E p \in PbPlaces(pb) : d = at[p]
  <2>1. CASE d = msg.one
    BY <2>1, KindsArePlaces DEF MadeHeap
  <2>2. CASE d \in Range(conts[msg.many])
    <3>1. conts[msg.many] = [i \in DOMAIN pb.many |-> at[<<"many", i>>]]
      BY DEF MadeHeap
    <3>2. PICK i \in DOMAIN pb.many : d = at[<<"many", i>>]
      BY <2>2, <3>1 DEF Range
    <3> QED
      BY <3>2, KindsArePlaces
  <2>3. CASE d \in Range(conts[msg.keyed])
    <3>1. conts[msg.keyed] = [k \in DOMAIN pb.keyed |-> at[<<"keyed", k>>]]
      BY DEF MadeHeap
    <3>2. PICK k \in DOMAIN pb.keyed : d = at[<<"keyed", k>>]
      BY <2>3, <3>1 DEF Range
    <3> QED
      BY <3>2, KindsArePlaces
  <2> QED
    BY <1>2, <2>1, <2>2, <2>3 DEF HeldIn
<1>6. HeldIn(msgs, conts, n) \subseteq DOMAIN durs
  BY <1>5 DEF MadeHeap
<1>7. ContentsOK(conts, msg)
  <2>1. \A p \in PbPlaces(pb) : at[p] \in References
    BY DEF MadeHeap
  <2>2. conts[msg.many] \in Seq(References)
    <3>1. \A i \in 1 .. Len(pb.many) : at[<<"many", i>>] \in References
      BY <2>1, PbContents, KindsArePlaces
    <3>2. conts[msg.many] = [i \in 1 .. Len(pb.many) |-> at[<<"many", i>>]] /\ Len(pb.many) \in Nat
      BY PbContents DEF MadeHeap
    <3> QED
      BY <3>1, <3>2
  <2>3. conts[msg.keyed] \in Maps(References)
    <3>1. \A k \in DOMAIN pb.keyed : at[<<"keyed", k>>] \in References
      BY <2>1, KindsArePlaces
    <3>2. conts[msg.keyed] \in [DOMAIN pb.keyed -> References]
      BY <3>1 DEF MadeHeap
    <3> QED
      BY <3>2, PbContents DEF Maps
  <2>4. conts[msg.marks] \in Seq({"int", "bool"})
    BY DEF MadeHeap, PbType
  <2> QED
    BY <2>2, <2>3, <2>4 DEF ContentsOK, MadeHeap
<1>8. HeapOK(msgs, conts, durs)
  <2>1. ASSUME NEW m \in DOMAIN msgs
        PROVE  ContentsOK(conts, msgs[m]) /\ HeldIn(msgs, conts, m) \subseteq DOMAIN durs
    <3>1. CASE m = n
      BY <1>2, <1>6, <1>7, <3>1
    <3>2. CASE m \in Messages
      BY <1>4, <3>2 DEF MadeHeap
    <3> QED
      BY <1>3, <3>1, <3>2
  <2> QED
    BY <1>2, <2>1 DEF HeapOK, MadeHeap
<1>9. NotShared(msgs)
  <2> SUFFICES ASSUME NEW m \in DOMAIN msgs, NEW o \in DOMAIN msgs, NEW f \in Fields, NEW g \in Fields,
                      msgs[m][f] = msgs[o][g]
               PROVE  m = o /\ f = g
    BY DEF NotShared
  <2>1. CASE m = n /\ o = n
    BY <1>2, <2>1 DEF MadeHeap
  <2>2. CASE m \in Messages /\ o \in Messages
    BY <1>2, <2>2 DEF Safe, NotShared, Messages
  <2>3. CASE m = n /\ o \in Messages
    BY <1>2, <1>4, <2>3 DEF MadeHeap
  <2>4. CASE m \in Messages /\ o = n
    BY <1>2, <1>4, <2>4 DEF MadeHeap
  <2> QED
    BY <1>3, <2>1, <2>2, <2>3, <2>4
<1> QED
  BY <1>2, <1>3, <1>4, <1>5, <1>8, <1>9 DEF OneMore, msgs

\* It exports to what it was made from.
LEMMA MadeHeapExports ==
    ASSUME NEW pb \in PbType, NEW at, NEW msg, NEW conts, NEW durs,
           MadeHeap(pb, at, msg, conts, durs), NEW msgs, NEW n, msgs[n] = msg
    PROVE  \A field \in Values : ExportOf(msgs, conts, durs, n)[field] = pb[field]
<1> DEFINE e == ExportOf(msgs, conts, durs, n)
<1>1. e.level = pb.level /\ e.one = pb.one
  <2>1. durs[at[<<"one", 1>>]] = ValueAt(pb, <<"one", 1>>)
    BY KindsArePlaces DEF MadeHeap
  <2> QED
    BY <2>1 DEF MadeHeap, ExportOf, ValueAt
<1>2. e.many = pb.many
  <2>1. conts[msg.many] = [i \in DOMAIN pb.many |-> at[<<"many", i>>]]
    BY DEF MadeHeap
  <2>2. ASSUME NEW i \in DOMAIN pb.many PROVE durs[conts[msg.many][i]] = pb.many[i]
    <3>1. durs[at[<<"many", i>>]] = ValueAt(pb, <<"many", i>>)
      BY KindsArePlaces DEF MadeHeap
    <3> QED
      BY <2>1, <3>1 DEF ValueAt
  <2>3. [i \in DOMAIN conts[msg.many] |-> durs[conts[msg.many][i]]] = [i \in DOMAIN pb.many |-> pb.many[i]]
    BY <2>1, <2>2
  <2> QED
    BY <2>3, PbContents DEF ExportOf
<1>3. e.keyed = pb.keyed
  <2>1. conts[msg.keyed] = [k \in DOMAIN pb.keyed |-> at[<<"keyed", k>>]]
    BY DEF MadeHeap
  <2>2. ASSUME NEW k \in DOMAIN pb.keyed PROVE durs[conts[msg.keyed][k]] = pb.keyed[k]
    <3>1. durs[at[<<"keyed", k>>]] = ValueAt(pb, <<"keyed", k>>)
      BY KindsArePlaces DEF MadeHeap
    <3> QED
      BY <2>1, <3>1 DEF ValueAt
  <2>3. [k \in DOMAIN conts[msg.keyed] |-> durs[conts[msg.keyed][k]]] = [k \in DOMAIN pb.keyed |-> pb.keyed[k]]
    BY <2>1, <2>2
  <2> QED
    BY <2>3, PbContents DEF ExportOf
<1>4. e.marks = pb.marks
  <2>1. conts[msg.marks] = pb.marks /\ pb.marks = [i \in DOMAIN pb.marks |-> "int"]
    BY PbContents DEF MadeHeap
  <2>2. e.marks = [i \in DOMAIN conts[msg.marks] |-> "int"]
    BY DEF ExportOf
  <2> QED
    BY <2>1, <2>2
<1> HIDE DEF e
<1>5. \A field \in Values : e[field] = pb[field]
  BY <1>1, <1>2, <1>3, <1>4, ValueFields
<1> QED
  BY <1>5 DEF e

LEMMA NewMessageMade ==
    ASSUME Safe, NEW pb \in PbType, pb.level \in Levels, NEW first, FirstOK(pb, first),
           Room, NewMessage(pb, first), Returns(<<pb>>), NEW n, n = Len(message) + 1
    PROVE  MessageMade(pb, n)
<1>1. PICK at, msg, conts, durs :
         MadeHeap(pb, at, msg, conts, durs) /\ Become(Append(message, msg), conts, durs)
  BY NewMessageHeap
<1> DEFINE msgs == Append(message, msg)
<1>m. OneMore(pb, at, msgs, conts, durs, n) /\ msgs[n] = msg
  BY <1>1, MadeHeapOK
<1>3. Become(msgs, conts, durs)
  BY <1>1
<1> HIDE DEF msgs
<1>2. /\ HeapOK(msgs, conts, durs) /\ NotShared(msgs) /\ msgs[n] = msg
      /\ Len(msgs) = n /\ DOMAIN msgs = Messages \cup {n} /\ n \notin Messages
      /\ \A m \in Messages :
             /\ ExportOf(msgs, conts, durs, m) = Exported(m)
             /\ HeldIn(msgs, conts, m) = Held(m) /\ Held(m) \subseteq DOMAIN duration
      /\ \A d \in HeldIn(msgs, conts, n) : \E p \in PbPlaces(pb) : d = at[p]
  BY <1>m DEF OneMore
<1>4. /\ TypeInv' /\ message' = msgs
      /\ \A m \in DOMAIN msgs :
             /\ Exported(m)' = ExportOf(msgs, conts, durs, m)
             /\ Held(m)' = HeldIn(msgs, conts, m)
             /\ \A f \in Fields : Elements(m, f)' = conts[msgs[m][f]]
      /\ \A d \in DOMAIN duration' : d \in DOMAIN durs /\ duration'[d] = durs[d]
  BY <1>2, <1>3, Becomes
<1>5. Safe' /\ Messages' = Messages \cup {n} /\ n = Len(message')
  BY <1>2, <1>4 DEF Safe, Messages
<1>6. ASSUME NEW m \in Messages PROVE Exported(m)' = Exported(m) /\ Held(m)' \cap Held(n)' = {}
  <2>1. Exported(m)' = Exported(m) /\ Held(m)' \subseteq DOMAIN duration
    BY <1>2, <1>4
  <2>2. \A d \in Held(n)' : d \notin DOMAIN duration
    BY <1>1, <1>2, <1>4 DEF MadeHeap
  <2> QED
    BY <2>1, <2>2
<1>7. /\ message'[n].one = at[<<"one", 1>>]
      /\ Elements(n, "many")' = [i \in DOMAIN pb.many |-> at[<<"many", i>>]]
      /\ Elements(n, "keyed")' = [k \in DOMAIN pb.keyed |-> at[<<"keyed", k>>]]
  BY <1>1, <1>2, <1>4 DEF MadeHeap, Fields
<1>8. PlacesOf(n)' = PbPlaces(pb)
  BY <1>7 DEF PlacesOf, PbPlaces, Places
<1>9. ASSUME NEW p \in PbPlaces(pb) PROVE At(n, p)' = at[p]
  <2>1. CASE p = <<"one", 1>>
    BY <1>7, <2>1 DEF At
  <2>2. ASSUME NEW i \in DOMAIN pb.many, p = <<"many", i>> PROVE At(n, p)' = at[p]
    BY <1>7, <2>2 DEF At
  <2>3. ASSUME NEW k \in DOMAIN pb.keyed, p = <<"keyed", k>> PROVE At(n, p)' = at[p]
    BY <1>7, <2>3 DEF At
  <2> QED
    BY <2>1, <2>2, <2>3, PlaceKinds
<1>10. \A p, q \in PlacesOf(n)' : At(n, p)' = At(n, q)' => p[1] = q[1]
  BY <1>1, <1>8, <1>9 DEF MadeHeap
<1>11. \A field \in Values : Exported(n)'[field] = pb[field]
  BY <1>1, <1>2, <1>4, MadeHeapExports
<1>12. \A d \in DOMAIN duration \cap DOMAIN duration' : duration'[d] = duration[d]
  BY <1>1, <1>4 DEF MadeHeap
<1> QED
  BY <1>2, <1>5, <1>6, <1>10, <1>11, <1>12 DEF MessageMade, Returns

LEMMA ConvertKind ==
    ASSUME Safe, NEW pb \in PbType, Convert(pb), NEW n, n = Len(message) + 1
    PROVE  NothingChanges \/ MessageMade(pb, n)
<1>1. CASE ~IsMember(pb.level)
  BY <1>1 DEF Convert, Raises, NothingChanges
<1>2. CASE IsMember(pb.level)
  <2> DEFINE first == [p \in PbPlaces(pb) |-> p]
  <2>1. pb.level \in Levels /\ Room /\ NewMessage(pb, first) /\ Returns(<<pb>>)
    BY <1>2 DEF Convert, IsMember, PbPlaces
  <2>2. FirstOK(pb, first)
    BY DEF FirstOK
  <2> HIDE DEF first
  <2> QED
    BY <2>1, <2>2, NewMessageMade
<1> QED
  BY <1>1, <1>2

LEMMA ExportedType ==
    ASSUME Safe, NEW m \in Messages
    PROVE  Exported(m) \in PbType /\ Exported(m).level \in Levels
<1>1. /\ message[m] \in MessageType /\ ContentsOK(container, message[m])
      /\ HeldIn(message, container, m) \subseteq DOMAIN duration
  BY SafeMessage
<1>2. \A d \in HeldIn(message, container, m) : duration[d] \in DurationType
  BY <1>1 DEF Safe, TypeInv, HeapOK
<1>3. Exported(m).one \in DurationType
  BY <1>2 DEF Exported, HeldIn
<1>4. Exported(m).many \in Seq(DurationType)
  <2> DEFINE many == Elements(m, "many")
  <2>1. DOMAIN many = 1 .. Len(many) /\ Len(many) \in Nat
    BY <1>1, LenProperties DEF ContentsOK, Elements
  <2>2. \A i \in 1 .. Len(many) : duration[many[i]] \in DurationType
    BY <1>2, <2>1 DEF HeldIn, Range, Elements
  <2>3. Exported(m).many = [i \in 1 .. Len(many) |-> duration[many[i]]]
    BY <2>1 DEF Exported
  <2> HIDE DEF many
  <2> QED
    BY <2>1, <2>2, <2>3
<1>5. Exported(m).keyed \in Maps(DurationType)
  <2> DEFINE keyed == Elements(m, "keyed")
  <2>1. DOMAIN keyed \subseteq MapKeys
    BY <1>1 DEF ContentsOK, Elements, Maps
  <2>2. \A k \in DOMAIN keyed : duration[keyed[k]] \in DurationType
    BY <1>2 DEF HeldIn, Range, Elements
  <2>3. Exported(m).keyed = [k \in DOMAIN keyed |-> duration[keyed[k]]]
    BY DEF Exported
  <2> HIDE DEF keyed
  <2>4. Exported(m).keyed \in [DOMAIN keyed -> DurationType]
    BY <2>2, <2>3
  <2> QED
    BY <2>1, <2>4 DEF Maps
<1>6. Exported(m).marks \in Seq({"int"})
  <2> DEFINE marks == Elements(m, "marks")
  <2>1. DOMAIN marks = 1 .. Len(marks) /\ Len(marks) \in Nat
    BY <1>1, LenProperties DEF ContentsOK, Elements
  <2>2. Exported(m).marks = [i \in 1 .. Len(marks) |-> "int"]
    BY <2>1 DEF Exported
  <2> HIDE DEF marks
  <2> QED
    BY <2>1, <2>2
<1>7. Exported(m).level \in Levels /\ Exported(m).has = TRUE
  BY <1>1 DEF Exported, MessageType
<1>8. Exported(m) = [has |-> Exported(m).has, level |-> Exported(m).level, one |-> Exported(m).one,
                     many |-> Exported(m).many, keyed |-> Exported(m).keyed, marks |-> Exported(m).marks]
  BY DEF Exported
<1>9. Exported(m).level \in PbLevels /\ Exported(m).has \in BOOLEAN
  BY <1>7
<1> HIDE DEF Exported
<1>10. Exported(m) \in PbType
  BY <1>3, <1>4, <1>5, <1>6, <1>8, <1>9 DEF PbType
<1> QED
  BY <1>7, <1>10

LEMMA DeepCopyKind ==
    ASSUME Safe, NEW m \in Messages, DeepCopy(m), NEW n, n = Len(message) + 1
    PROVE  NothingChanges \/ \E pb \in PbType : MessageMade(pb, n)
<1> DEFINE pb    == Exported(m)
           first == [p \in PlacesOf(m) |->
                        CHOOSE q \in PlacesOf(m) : q[1] = p[1] /\ At(m, q) = At(m, p)]
<1>1. CASE ~StrictlyInt(Elements(m, "marks"))
  BY <1>1 DEF DeepCopy, Raises, NothingChanges
<1>2. CASE StrictlyInt(Elements(m, "marks"))
  <2>1. Room /\ NewMessage(pb, first) /\ Returns(<<pb>>)
    BY <1>2 DEF DeepCopy
  <2>2. pb \in PbType /\ pb.level \in Levels
    BY ExportedType
  <2>3. \A p \in PlacesOf(m) :
           first[p] \in PlacesOf(m) /\ first[p][1] = p[1] /\ At(m, first[p]) = At(m, p)
    OBVIOUS
  <2>4. /\ DOMAIN pb.many = DOMAIN Elements(m, "many") /\ DOMAIN pb.keyed = DOMAIN Elements(m, "keyed")
        /\ pb.one = duration[message[m].one]
        /\ \A i \in DOMAIN pb.many : pb.many[i] = duration[Elements(m, "many")[i]]
        /\ \A k \in DOMAIN pb.keyed : pb.keyed[k] = duration[Elements(m, "keyed")[k]]
    BY DEF Exported
  <2>5. first \in [PlacesOf(m) -> PlacesOf(m)]
    BY <2>3
  <2> HIDE DEF pb, first
  <2>6. PbPlaces(pb) = PlacesOf(m)
    BY <2>4 DEF PbPlaces, PlacesOf, Places
  <2>7. ASSUME NEW p \in PlacesOf(m) PROVE ValueAt(pb, p) = duration[At(m, p)]
    <3>1. CASE p = <<"one", 1>>
      BY <2>4, <3>1 DEF ValueAt, At
    <3>2. ASSUME NEW i \in DOMAIN pb.many, p = <<"many", i>> PROVE ValueAt(pb, p) = duration[At(m, p)]
      BY <2>4, <3>2 DEF ValueAt, At
    <3>3. ASSUME NEW k \in DOMAIN pb.keyed, p = <<"keyed", k>> PROVE ValueAt(pb, p) = duration[At(m, p)]
      BY <2>4, <3>3 DEF ValueAt, At
    <3> QED
      BY <2>6, <3>1, <3>2, <3>3, PlaceKinds
  <2>8. FirstOK(pb, first)
    BY <2>3, <2>5, <2>6, <2>7 DEF FirstOK
  <2> QED
    BY <2>1, <2>2, <2>8, NewMessageMade
<1> QED
  BY <1>1, <1>2

\* Every step is of one of the four kinds.
LEMMA StepKinds ==
    ASSUME Safe, [Next]_vars, NEW n, n = Len(message) + 1
    PROVE  \/ NothingChanges
           \/ \E pb \in PbType : MessageMade(pb, n)
           \/ \E m \in Messages : OneMessage(m)
           \/ \E d \in DOMAIN duration : OneDuration(d)
<1>1. CASE Creates
  <2>1. ASSUME NEW pb \in Received, Convert(pb)
        PROVE  NothingChanges \/ \E x \in PbType : MessageMade(x, n)
    BY <2>1, InputAssumption, ConvertKind
  <2>2. ASSUME NEW m \in Messages, Convert(Exported(m))
        PROVE  NothingChanges \/ \E x \in PbType : MessageMade(x, n)
    BY <2>2, ExportedType, ConvertKind
  <2>3. ASSUME NEW m \in Messages, DeepCopy(m)
        PROVE  NothingChanges \/ \E x \in PbType : MessageMade(x, n)
    BY <2>3, DeepCopyKind
  <2> QED
    BY <1>1, <2>1, <2>2, <2>3 DEF Creates
<1>2. ASSUME NEW m \in Messages, Sets(m) PROVE NothingChanges \/ OneMessage(m)
  BY <1>2, SetLevelKind, SetOneKind, SetOnePbKind, SetContainerKind DEF Sets
<1>3. ASSUME NEW m \in Messages, Extends(m) PROVE OneMessage(m)
  BY <1>3, AppendManyKind, AppendManyPbKind, ExtendMarksKind DEF Extends
<1>4. ASSUME NEW d \in DOMAIN duration, Changes(d) PROVE OneDuration(d)
  BY <1>4, SetSecondsKind, AddNanosecondsKind DEF Changes
<1>5. CASE UNCHANGED vars
  BY <1>5 DEF vars, NothingChanges
<1> QED
  BY <1>1, <1>2, <1>3, <1>4, <1>5 DEF Next

----------------------------------------------------------------------------
(* The invariants and the action properties.                               *)

MadeInv == NewSharesNothing /\ MadeIsFaithful

LEMMA SafeInit == Init => Safe /\ MadeInv
<1> SUFFICES ASSUME Init PROVE Safe /\ MadeInv
  OBVIOUS
<1>1. message = <<>> /\ container = <<>> /\ duration = <<>> /\ call.made = <<>>
  BY DEF Init
<1>2. DOMAIN message = {} /\ DOMAIN container = {} /\ DOMAIN duration = {}
      /\ message \in Seq(MessageType)
  BY <1>1
<1> QED
  BY <1>1, <1>2 DEF Safe, TypeInv, HeapOK, NotShared, MadeInv, NewSharesNothing, MadeIsFaithful

LEMMA SafeStep == Safe /\ [Next]_vars => Safe'
<1> SUFFICES ASSUME Safe, [Next]_vars PROVE Safe'
  OBVIOUS
<1> DEFINE n == Len(message) + 1
<1>1. CASE NothingChanges
  BY <1>1 DEF NothingChanges, Safe, TypeInv
<1>2. \A k : k = n => Safe' \/ NothingChanges
  BY StepKinds DEF MessageMade, OneMessage, OneDuration
<1> QED
  BY <1>1, <1>2

LEMMA MadeStep == Safe /\ MadeInv /\ [Next]_vars => MadeInv'
<1> SUFFICES ASSUME Safe, MadeInv, [Next]_vars, NEW n, n = Len(message) + 1 PROVE MadeInv'
  OBVIOUS
<1>0. ASSUME call'.made = <<>> PROVE MadeInv'
  BY <1>0 DEF MadeInv, NewSharesNothing, MadeIsFaithful
<1>1. CASE NothingChanges
  <2>1. CASE call' = call
    BY <1>1, <2>1 DEF NothingChanges, MadeInv, NewSharesNothing, MadeIsFaithful, Messages,
          PlacesOf, At, Elements, Held, Exported
  <2> QED
    BY <1>0, <1>1, <2>1 DEF NothingChanges
<1>2. ASSUME NEW pb \in PbType, MessageMade(pb, n) PROVE MadeInv'
  <2>1. /\ n = Len(message') /\ Messages' = Messages \cup {n} /\ n \notin Messages
        /\ \A m \in Messages : Held(m)' \cap Held(n)' = {}
        /\ \A p, q \in PlacesOf(n)' : At(n, p)' = At(n, q)' => p[1] = q[1]
        /\ \A field \in Values : Exported(n)'[field] = pb[field]
        /\ call'.made[1] = pb
    BY <1>2 DEF MessageMade
  <2>2. NewSharesNothing'
    BY <2>1 DEF NewSharesNothing, PlacesOf, At, Held, Elements
  <2>3. MadeIsFaithful'
    BY <2>1 DEF MadeIsFaithful, Exported, Elements
  <2> QED
    BY <2>2, <2>3 DEF MadeInv
<1>3. ASSUME NEW m \in Messages, OneMessage(m) PROVE MadeInv'
  BY <1>0, <1>3 DEF OneMessage
<1>4. ASSUME NEW d \in DOMAIN duration, OneDuration(d) PROVE MadeInv'
  BY <1>0, <1>4 DEF OneDuration
<1> QED
  BY <1>1, <1>2, <1>3, <1>4, StepKinds

\* Every reference is to an object there is, whatever was assigned, converted or copied.
THEOREM WrapperTypeCorrect == Spec => []TypeOK
<1>1. Safe => TypeOK
  BY TypeInvImpliesTypeOK DEF Safe
<1> QED
  BY <1>1, SafeInit, SafeStep, PTL DEF Spec

\* No assignment makes two fields share a container: a message does not grow because
\* another one does.
THEOREM ContainersCorrect == Spec => []ContainersNotShared
<1>1. Safe => ContainersNotShared
  BY NotSharedIsContainersNotShared DEF Safe
<1> QED
  BY <1>1, SafeInit, SafeStep, PTL DEF Spec

\* A converted message or a deep copy has Durations and containers of its own.
THEOREM NewSharesNothingCorrect == Spec => []NewSharesNothing
<1>1. MadeInv => NewSharesNothing
  BY DEF MadeInv
<1> QED
  BY <1>1, SafeInit, SafeStep, MadeStep, PTL DEF Spec

\* Exporting a converted message or a deep copy gives what it was made from.
THEOREM MadeIsFaithfulCorrect == Spec => []MadeIsFaithful
<1>1. MadeInv => MadeIsFaithful
  BY DEF MadeInv
<1> QED
  BY <1>1, SafeInit, SafeStep, MadeStep, PTL DEF Spec

\* One call changes two messages only through a Duration that both hold.
THEOREM IsolationCorrect == Spec => ChangesAreIsolated
<1> DEFINE changed == {m \in Messages : Exported(m)' # Exported(m)}
           Isolated == \A m, o \in changed : m # o => Held(m) \cap Held(o) # {}
<1>1. ASSUME Safe, [Next]_vars, NEW n, n = Len(message) + 1 PROVE Isolated
  <2>1. CASE NothingChanges
    BY <2>1 DEF NothingChanges, Exported, Elements
  <2>2. ASSUME NEW pb \in PbType, MessageMade(pb, n) PROVE Isolated
    BY <2>2 DEF MessageMade
  <2>3. ASSUME NEW m \in Messages, OneMessage(m) PROVE Isolated
    BY <2>3 DEF OneMessage
  <2>4. ASSUME NEW d \in DOMAIN duration, OneDuration(d) PROVE Isolated
    BY <2>4 DEF OneDuration
  <2> QED
    BY <1>1, <2>1, <2>2, <2>3, <2>4, StepKinds
<1>2. Safe /\ [Next]_vars => [Isolated]_vars
  BY <1>1
<1> QED
  BY <1>2, SafeInit, SafeStep, PTL DEF Spec, ChangesAreIsolated

\* A call that raises leaves every message as it was, but for the elements that extend
\* added before the one it refused.
THEOREM RefusalCorrect == Spec => RefusedChangesNothing
<1> DEFINE Unharmed ==
             call'.raised =>
                /\ UNCHANGED message
                /\ \A m \in Messages :
                       /\ \A field \in Values \ {"marks"} : Exported(m)'[field] = Exported(m)[field]
                       /\ IsPrefix(Exported(m).marks, Exported(m)'.marks)
<1>1. ASSUME Safe, [Next]_vars, NEW n, n = Len(message) + 1 PROVE Unharmed \/ UNCHANGED vars
  <2>1. ASSUME NEW m \in Messages, Exported(m)' = Exported(m)
        PROVE  /\ \A field \in Values \ {"marks"} : Exported(m)'[field] = Exported(m)[field]
               /\ IsPrefix(Exported(m).marks, Exported(m)'.marks)
    BY <2>1 DEF IsPrefix
  <2>2. CASE NothingChanges
    BY <2>1, <2>2 DEF NothingChanges, Exported, Elements
  <2>3. ASSUME NEW pb \in PbType, MessageMade(pb, n) PROVE Unharmed
    BY <2>3 DEF MessageMade
  <2>4. ASSUME NEW m \in Messages, OneMessage(m) PROVE Unharmed
    BY <2>1, <2>4 DEF OneMessage
  <2>5. ASSUME NEW d \in DOMAIN duration, OneDuration(d) PROVE Unharmed
    BY <2>5 DEF OneDuration
  <2> QED
    BY <1>1, <2>2, <2>3, <2>4, <2>5, StepKinds
<1>2. Safe /\ [Next]_vars => [Unharmed]_vars
  BY <1>1
<1> QED
  BY <1>2, SafeInit, SafeStep, PTL DEF Spec, RefusedChangesNothing

\* Adding nanoseconds, positive or negative, changes a Duration by just that much.
THEOREM NanosecondsCorrect == Spec => NoNanosecondLost
<1> DEFINE Carried ==
             \A d \in DOMAIN duration \cap DOMAIN duration' :
                duration'[d].nanos # duration[d].nanos =>
                    duration'[d].seconds * SecondInNs + duration'[d].nanos
                      - (duration[d].seconds * SecondInNs + duration[d].nanos) \in Steps
<1>1. ASSUME Safe, [Next]_vars, NEW n, n = Len(message) + 1 PROVE Carried
  <2>1. CASE NothingChanges
    BY <2>1 DEF NothingChanges
  <2>2. ASSUME NEW pb \in PbType, MessageMade(pb, n) PROVE Carried
    BY <2>2 DEF MessageMade
  <2>3. ASSUME NEW m \in Messages, OneMessage(m) PROVE Carried
    BY <2>3 DEF OneMessage
  <2>4. ASSUME NEW d \in DOMAIN duration, OneDuration(d) PROVE Carried
    BY <2>4 DEF OneDuration
  <2> QED
    BY <1>1, <2>1, <2>2, <2>3, <2>4, StepKinds
<1>2. Safe /\ [Next]_vars => [Carried]_vars
  BY <1>1
<1> QED
  BY <1>2, SafeInit, SafeStep, PTL DEF Spec, NoNanosecondLost
============================================================================
