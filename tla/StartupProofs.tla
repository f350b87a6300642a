---------------------------- MODULE StartupProofs ---------------------------
(***************************************************************************)
(* Theorems about Startup, for any vehicles and any contents of the files. *)
(***************************************************************************)
EXTENDS Startup, IoTSessionProofs, SequenceTheorems

USE WordAssumption, LengthAssumption

----------------------------------------------------------------------------
(* The server that was started is a session of IoTSession: what is proved  *)
(* of every session holds of one that a start has led to.                  *)

LEMMA StartStep == [StartNext]_startVars => [Next]_vars
<1> SUFFICES ASSUME [StartNext]_startVars PROVE [Next]_vars
  OBVIOUS
<1>1. CASE LoadProfileInfo \/ LoadEcuInfo \/ LoadGreengrass
  BY <1>1 DEF LoadProfileInfo, LoadEcuInfo, LoadGreengrass
<1>2. CASE CreateSession
  BY <1>2 DEF CreateSession, Next
<1>3. CASE Serves \/ Connects
  BY <1>3 DEF Serves, Connects, Next
<1>4. CASE UNCHANGED startVars
  BY <1>4 DEF startVars
<1> QED
  BY <1>1, <1>2, <1>3, <1>4 DEF StartNext, Load

\* Every behaviour of the start and the server after it is one of IoTSession.
THEOREM StartImplementsSession == StartSpec => Spec
<1>1. StartInit => Init
  BY DEF StartInit
<1> QED
  BY <1>1, StartStep, PTL DEF StartSpec, Spec

----------------------------------------------------------------------------
(* The profile of a thing name.                                            *)

\* The words of a thing name, and where its "-edge-" is.
LEMMA WordsOfThing ==
    ASSUME NEW p \in Seq(Word), p # <<>>, NEW i \in Seq(Word), i # <<>>,
           \A k \in DOMAIN i : i[k] # "edge",
           NEW w, w = p \o <<"edge">> \o i \o <<"Core">>
    PROVE  /\ w \in Seq(Word)
           /\ SplitAt(w) = {Len(p) + 1}
           /\ SubSeq(w, 1, Len(p)) = p
<1>1. Len(p) \in Nat /\ Len(p) >= 1 /\ Len(i) \in Nat /\ Len(i) >= 1
  OBVIOUS
<1>2. w \in Seq(Word) /\ Len(w) = Len(p) + Len(i) + 2
  <2>1. /\ <<"edge">> \in Seq(Word) /\ Len(<<"edge">>) = 1
        /\ <<"Core">> \in Seq(Word) /\ Len(<<"Core">>) = 1
    OBVIOUS
  <2> DEFINE head == p \o <<"edge">>
             name == head \o i
             last == <<"Core">>
  <2>2. head \in Seq(Word) /\ Len(head) = Len(p) + 1
    BY <2>1
  <2> HIDE DEF head
  <2>3. name \in Seq(Word) /\ Len(name) = Len(head) + Len(i)
    BY <2>2, ConcatProperties
  <2> HIDE DEF name
  <2>4. last \in Seq(Word) /\ Len(last) = 1
    BY <2>1
  <2> HIDE DEF last
  <2>5. name \o last \in Seq(Word) /\ Len(name \o last) = Len(name) + Len(last)
    BY <2>3, <2>4, ConcatProperties, Zenon
  <2> QED
    <3>1. w = name \o last
      BY DEF name, head, last
    <3> QED
      BY <1>1, <2>2, <2>3, <2>4, <2>5, <3>1
<1>3. \A k \in 1 .. Len(p) : w[k] = p[k]
  OBVIOUS
<1>4. w[Len(p) + 1] = "edge"
  OBVIOUS
<1>5. \A k \in Len(p) + 2 .. Len(p) + Len(i) + 1 : w[k] = i[k - Len(p) - 1]
  OBVIOUS
<1>6. Len(p) + 1 \in Splits(w)
  BY <1>1, <1>2, <1>4 DEF Splits
<1>7. \A k \in Splits(w) : k <= Len(p) + 1
  <2> SUFFICES ASSUME NEW k \in Splits(w), k > Len(p) + 1 PROVE FALSE
    BY <1>1, <1>2 DEF Splits
  <2>1. k \in Len(p) + 2 .. Len(p) + Len(i) /\ w[k] = "edge"
    BY <1>1, <1>2 DEF Splits
  <2>2. k - Len(p) - 1 \in DOMAIN i
    BY <1>1, <2>1
  <2> QED
    BY <1>5, <2>1, <2>2
<1>8. SplitAt(w) = {Len(p) + 1}
  <2>1. Len(p) + 1 \in SplitAt(w)
    BY <1>6, <1>7 DEF SplitAt
  <2>2. ASSUME NEW k \in SplitAt(w) PROVE k = Len(p) + 1
    BY <1>1, <1>2, <1>6, <1>7 DEF SplitAt, Splits
  <2> QED
    BY <2>1, <2>2
<1>9. SubSeq(w, 1, Len(p)) = p
  <2>1. SubSeq(w, 1, Len(p)) \in Seq(Word) /\ Len(SubSeq(w, 1, Len(p))) = Len(p)
    BY <1>1, <1>2
  <2>2. \A k \in 1 .. Len(p) : SubSeq(w, 1, Len(p))[k] = w[k]
    BY <1>1, <1>2
  <2> QED
    BY <1>1, <1>3, <2>1, <2>2
<1> QED
  BY <1>2, <1>8, <1>9

\* The profile of a vehicle is found in its thing name, with the prefix of an ARN or without,
\* whatever words the profile has.
THEOREM ProfileOfThing ==
    ASSUME NEW v \in Vehicles, Named(v), NEW prefix
    PROVE  get_profile_from_thing_name([prefix |-> prefix, words |-> ThingWords(v)]) = {v.profile}
<1> DEFINE w    == ThingWords(v)
           name == [prefix |-> prefix, words |-> w]
<1>1. /\ v.profile \in Seq(Word) /\ v.profile # <<>>
      /\ v.id \in Seq(Word) /\ v.id # <<>> /\ \A k \in DOMAIN v.id : v.id[k] # "edge"
  BY VehiclesAssumption DEF Named
<1>2. /\ w \in Seq(Word)
      /\ SplitAt(w) = {Len(v.profile) + 1}
      /\ SubSeq(w, 1, Len(v.profile)) = v.profile
  BY <1>1, WordsOfThing DEF ThingWords
<1>3. Len(w) \in Nat /\ Len(w) <= MaxThingName
  BY <1>2 DEF Named
<1> HIDE DEF w
<1>4. Length(name) <= THINGNAME_MAXLENGH
  <2>1. name.words = w
    OBVIOUS
  <2> DEFINE extra == IF name.prefix = "none" THEN 0 ELSE 1
  <2>2. extra \in {0, 1}
    OBVIOUS
  <2>3. Length(name) = extra + Len(w)
    BY <2>1 DEF Length
  <2> HIDE DEF name, extra
  <2> QED
    BY <1>3, <2>2, <2>3 DEF THINGNAME_MAXLENGH
<1>5. {SubSeq(w, 1, k - 1) : k \in SplitAt(w)} = {v.profile}
  <2>1. Len(v.profile) + 1 - 1 = Len(v.profile)
    BY <1>1
  <2> QED
    BY <1>2, <2>1
<1> QED
  BY <1>4, <1>5 DEF get_profile_from_thing_name, w

\* The entry of a vehicle in a list.
LEMMA ProfileListed ==
    ASSUME NEW v, NEW list, Len(list) \in Nat, DOMAIN list = 1 .. Len(list), Listed(v, list)
    PROVE  get_profile_info(list, v.profile) = {Profile(v)}
<1>1. PICK k \in 1 .. Len(list) : list[k] = Profile(v) /\ \A j \in 1 .. k - 1 : list[j].profile_name # v.profile
  BY DEF Listed
<1>2. Profile(v).profile_name = v.profile
  BY DEF Profile
<1>3. ASSUME NEW i \in 1 .. Len(list), list[i].profile_name = v.profile,
             \A j \in 1 .. i - 1 : list[j].profile_name # v.profile
      PROVE  i = k
  <2>1. ~(i < k) /\ ~(k < i)
    BY <1>1, <1>2, <1>3
  <2> QED
    BY <2>1
<1>4. {i \in DOMAIN list : /\ list[i].profile_name = v.profile
                           /\ \A j \in 1 .. i - 1 : list[j].profile_name # v.profile} = {k}
  BY <1>1, <1>2, <1>3
<1> QED
  BY <1>1, <1>4 DEF get_profile_info

----------------------------------------------------------------------------
(* The documents of a vehicle are parsed to the configuration of it.       *)

Fit(c, v) == OfVehicle(c, v) /\ SessionPossible(c) /\ CanFetch(c)

LEMMA ParsedV1 ==
    ASSUME NEW v \in Vehicles, Named(v),
           NEW list, Len(list) \in Nat, DOMAIN list = 1 .. Len(list), Listed(v, list),
           NEW scheme \in {"none", "file://"}
    PROVE  \E c : /\ parse_v1_config(V1Document(v, scheme), list) = {c} /\ Fit(c, v)
                  /\ ~Pkcs11(c.private_key_path)
<1> DEFINE doc   == V1Document(v, scheme)
           thing == [prefix |-> "thing/", words |-> ThingWords(v)]
           arn   == [region |-> v.region, account_id |-> v.account, resource_id |-> thing]
           c     == V1Config(doc, arn, Profile(v))
<1>1. ThingArn(doc.thingArn) = {arn}
  <2> DEFINE fields == <<"arn", "aws", "iot", v.region, v.account, thing>>
  <2>1. /\ doc.thingArn = fields /\ Len(fields) = 6
        /\ fields[4] = v.region /\ fields[5] = v.account /\ fields[6] = thing
    BY DEF V1Document
  <2> HIDE DEF fields, doc, thing
  <2>2. SplitArn(fields, 6) = fields
    BY <2>1 DEF SplitArn
  <2>3. ThingArn(fields) = {arn}
    BY <2>1, <2>2, Zenon DEF ThingArn
  <2> QED
    BY <2>1, <2>3, Zenon
<1>2. get_profile_from_thing_name(arn.resource_id) = {v.profile}
  BY ProfileOfThing
<1>3. get_profile_info(list, v.profile) = {Profile(v)}
  BY ProfileListed
<1>4. Queried(doc, V1Keys)
  BY DEF Queried, V1Keys, V1Document
<1>5. parse_v1_config(doc, list) = {c}
  <2> HIDE DEF doc, arn
  <2>1. {V1Config(doc, arn, info) : info \in get_profile_info(list, v.profile)} = {c}
    BY <1>3
  <2>2. UNION {{V1Config(doc, arn, info) : info \in get_profile_info(list, profile)}
               : profile \in get_profile_from_thing_name(arn.resource_id)} = {c}
    BY <1>2, <2>1
  <2> DEFINE Of(a) == UNION {{V1Config(doc, a, info) : info \in get_profile_info(list, profile)}
                             : profile \in get_profile_from_thing_name(a.resource_id)}
  <2>3. Of(arn) = {c} /\ parse_v1_config(doc, list) = UNION {Of(a) : a \in ThingArn(doc.thingArn)}
    BY <1>4, <2>2 DEF parse_v1_config
  <2> HIDE DEF Of, c
  <2> QED
    BY <1>1, <2>3
<1>6. OfVehicle(c, v)
  BY DEF OfVehicle, V1Config, thing_name, aws_role_alias, log_group, Profile
<1>7. /\ c.private_key_path = File("none") /\ c.certificate_path = File("none")
      /\ c.endpoint = [host |-> v.endpoint, slash |-> FALSE]
  BY DEF V1Config, V1Document, regulate_path, File, Profile
<1>8. SessionPossible(c) /\ CanFetch(c) /\ ~Pkcs11(c.private_key_path)
  <2>1. \A path : path = File("none") => ~Pkcs11(path) /\ PlainFile(path)
    BY DEF Pkcs11, PlainFile, File
  <2>2. ~c.endpoint.slash
    BY <1>7
  <2> HIDE DEF c
  <2>3. ~Pkcs11(c.private_key_path) /\ PlainFile(c.private_key_path) /\ PlainFile(c.certificate_path)
    BY <1>7, <2>1
  <2> QED
    BY <2>2, <2>3 DEF SessionPossible, CanFetch
<1> QED
  BY <1>5, <1>6, <1>8 DEF Fit

\* What a document of version 2 in one of the documented forms says.
LEMMA SaidV2 ==
    ASSUME NEW v \in Vehicles, NEW doc \in V2Documents(v)
    PROVE  /\ Queried(doc, V2Keys)
           /\ doc.thingName = [prefix |-> "none", words |-> ThingWords(v)]
           /\ doc.awsRegion = v.region
           /\ "iotCredEndpoint" \in DOMAIN doc
           /\ doc.iotCredEndpoint = [host |-> v.endpoint, slash |-> FALSE]
           /\ doc.certificateFilePath \in {File("none"), Token}
           /\ \/ /\ doc.privateKeyPath = File("none") /\ doc.certificateFilePath = File("none")
                 /\ Pkcs11Section(doc) = {}
              \/ /\ doc.privateKeyPath = Token /\ Pkcs11Section(doc) = {Section("number")}
<1>1. ASSUME NEW key, NEW certificate, doc = V2Document(v, key, certificate)
      PROVE  /\ Queried(doc, V2Keys)
             /\ doc.thingName = [prefix |-> "none", words |-> ThingWords(v)]
             /\ doc.awsRegion = v.region
             /\ "iotCredEndpoint" \in DOMAIN doc
             /\ doc.iotCredEndpoint = [host |-> v.endpoint, slash |-> FALSE]
             /\ doc.certificateFilePath = certificate /\ doc.privateKeyPath = key
             /\ Pkcs11Section(doc) = {}
  BY <1>1 DEF V2Document, Queried, V2Keys, Pkcs11Section
<1>2. ASSUME NEW key, NEW certificate, doc = WithToken(V2Document(v, key, certificate))
      PROVE  /\ Queried(doc, V2Keys)
             /\ doc.thingName = [prefix |-> "none", words |-> ThingWords(v)]
             /\ doc.awsRegion = v.region
             /\ "iotCredEndpoint" \in DOMAIN doc
             /\ doc.iotCredEndpoint = [host |-> v.endpoint, slash |-> FALSE]
             /\ doc.certificateFilePath = certificate /\ doc.privateKeyPath = key
             /\ Pkcs11Section(doc) = {Section("number")}
  <2> DEFINE plain == V2Document(v, key, certificate)
             Keys  == {"thingName", "rootCaPath", "privateKeyPath", "certificateFilePath", "awsRegion", "iotCredEndpoint"}
  <2>1. DOMAIN plain = Keys
    BY DEF V2Document
  <2>2. /\ DOMAIN doc = Keys \cup {"Pkcs11Provider"}
        /\ \A k \in Keys : doc[k] = plain[k]
        /\ doc["Pkcs11Provider"] = Section("number")
    BY <1>2, <2>1 DEF WithToken
  <2>3. DOMAIN Section("number") # {}
    BY DEF Section
  <2>4. Pkcs11Section(doc) = {Section("number")}
    BY <2>2, <2>3 DEF Pkcs11Section
  <2>5. /\ doc.thingName = plain.thingName /\ doc.awsRegion = plain.awsRegion
        /\ doc.iotCredEndpoint = plain.iotCredEndpoint
        /\ doc.certificateFilePath = plain.certificateFilePath
        /\ doc.privateKeyPath = plain.privateKeyPath
    BY <2>2
  <2>6. Queried(doc, V2Keys) /\ "iotCredEndpoint" \in DOMAIN doc
    BY <2>2 DEF Queried, V2Keys
  <2> QED
    BY <2>4, <2>5, <2>6 DEF V2Document
<1> QED
  BY <1>1, <1>2 DEF V2Documents

LEMMA ParsedV2 ==
    ASSUME NEW v \in Vehicles, Named(v),
           NEW list, Len(list) \in Nat, DOMAIN list = 1 .. Len(list), Listed(v, list),
           NEW doc \in V2Documents(v)
    PROVE  \E c : /\ parse_v2_config(doc, list) = {c} /\ Fit(c, v)
                  /\ Pkcs11(c.private_key_path) => doc.privateKeyPath = Token
<1> DEFINE c == V2Config(doc, Profile(v))
<1>1. get_profile_from_thing_name(doc.thingName) = {v.profile}
  BY SaidV2, ProfileOfThing
<1>2. get_profile_info(list, v.profile) = {Profile(v)}
  BY ProfileListed
<1>3. \A section \in Pkcs11Section(doc) : PKCS11Config(section) /\ section.slot = "number"
  <2>1. PKCS11Config(Section("number")) /\ Section("number").slot = "number"
    BY DEF Section, PKCS11Config, Queried, Pkcs11Keys
  <2> QED
    BY <2>1, SaidV2
<1>4. parse_v2_config(doc, list) = {c}
  <2>1. {V2Config(doc, info) : info \in get_profile_info(list, v.profile)} = {c}
    BY <1>2
  <2>2. UNION {{V2Config(doc, info) : info \in get_profile_info(list, profile)}
               : profile \in get_profile_from_thing_name(doc.thingName)} = {c}
    BY <1>1, <2>1
  <2> QED
    BY <1>3, <2>2, SaidV2 DEF parse_v2_config
<1>5. CredEndpoint(doc, Profile(v)) = [host |-> v.endpoint, slash |-> FALSE]
  BY SaidV2 DEF CredEndpoint, Profile
<1>6. /\ c.thing_name = [prefix |-> "none", words |-> ThingWords(v)]
      /\ c.profile = v.profile /\ c.region = v.region /\ c.account_id = v.account
      /\ c.endpoint = [host |-> v.endpoint, slash |-> FALSE]
      /\ c.private_key_path = doc.privateKeyPath /\ c.certificate_path = doc.certificateFilePath
      /\ c.pkcs11_config = Pkcs11Section(doc)
  BY <1>5, SaidV2 DEF V2Config, Profile
<1> HIDE DEF c
<1>7. OfVehicle(c, v)
  BY <1>6 DEF OfVehicle, aws_role_alias, log_group
<1>8. /\ ~Pkcs11(File("none")) /\ PlainFile(File("none")) /\ File("none").scheme = "none"
      /\ Pkcs11(Token) /\ UriParsed(Token) /\ Token.rest = "object"
  BY DEF Pkcs11, PlainFile, File, Token, UriParsed
<1>9. CertificateNamed(c.certificate_path)
  BY <1>6, <1>8, SaidV2 DEF CertificateNamed
<1>10. SessionPossible(c)
  <2>1. CASE doc.privateKeyPath = File("none")
    BY <1>6, <1>8, <2>1 DEF SessionPossible
  <2>2. CASE doc.privateKeyPath = Token /\ Pkcs11Section(doc) = {Section("number")}
    BY <1>6, <1>8, <1>9, <2>2 DEF SessionPossible
  <2> QED
    BY <2>1, <2>2, SaidV2
<1>11. CanFetch(c)
  BY <1>3, <1>6, <1>8, SaidV2 DEF CanFetch
<1>12. Pkcs11(c.private_key_path) => doc.privateKeyPath = Token
  BY <1>6, <1>8, SaidV2
<1> QED
  BY <1>4, <1>7, <1>10, <1>11, <1>12 DEF Fit

----------------------------------------------------------------------------
(* Whatever the documents say, there is one configuration at most.         *)

LEMMA OneProfile ==
    ASSUME NEW name, NEW a \in get_profile_from_thing_name(name), NEW b \in get_profile_from_thing_name(name)
    PROVE  a = b
<1>1. PICK i \in SplitAt(name.words) : a = SubSeq(name.words, 1, i - 1)
  BY DEF get_profile_from_thing_name
<1>2. PICK j \in SplitAt(name.words) : b = SubSeq(name.words, 1, j - 1)
  BY DEF get_profile_from_thing_name
<1>3. i <= j /\ j <= i /\ i \in Int /\ j \in Int
  BY DEF SplitAt, Splits
<1> QED
  BY <1>1, <1>2, <1>3

LEMMA OneProfileInfo ==
    ASSUME NEW list, DOMAIN list = 1 .. Len(list), Len(list) \in Nat, NEW name,
           NEW a \in get_profile_info(list, name), NEW b \in get_profile_info(list, name)
    PROVE  a = b
<1> DEFINE First(i) == list[i].profile_name = name /\ \A j \in 1 .. i - 1 : list[j].profile_name # name
<1>1. PICK i \in DOMAIN list : First(i) /\ a = list[i]
  BY DEF get_profile_info
<1>2. PICK j \in DOMAIN list : First(j) /\ b = list[j]
  BY DEF get_profile_info
<1>3. ~(i < j) /\ ~(j < i)
  BY <1>1, <1>2
<1>4. i = j
  BY <1>3
<1> QED
  BY <1>1, <1>2, <1>4

LEMMA OneArn ==
    ASSUME NEW fields, NEW a \in ThingArn(fields), NEW b \in ThingArn(fields) PROVE a = b
BY DEF ThingArn

LEMMA OneV1 ==
    ASSUME NEW list, DOMAIN list = 1 .. Len(list), Len(list) \in Nat, NEW doc,
           NEW a \in parse_v1_config(doc, list), NEW b \in parse_v1_config(doc, list)
    PROVE  a = b
<1> DEFINE Of(arn, profile) == {V1Config(doc, arn, info) : info \in get_profile_info(list, profile)}
           OfArn(arn) == UNION {Of(arn, profile) : profile \in get_profile_from_thing_name(arn.resource_id)}
<1>1. parse_v1_config(doc, list) \subseteq UNION {OfArn(arn) : arn \in ThingArn(doc.thingArn)}
  BY DEF parse_v1_config
<1>2. PICK x \in ThingArn(doc.thingArn) : a \in OfArn(x)
  BY <1>1
<1>3. PICK y \in ThingArn(doc.thingArn) : b \in OfArn(y)
  BY <1>1
<1>4. PICK p \in get_profile_from_thing_name(x.resource_id) : a \in Of(x, p)
  BY <1>2
<1>5. PICK q \in get_profile_from_thing_name(y.resource_id) : b \in Of(y, q)
  BY <1>3
<1>6. PICK i \in get_profile_info(list, p) : a = V1Config(doc, x, i)
  BY <1>4
<1>7. PICK j \in get_profile_info(list, q) : b = V1Config(doc, y, j)
  BY <1>5
<1>8. x = y
  BY OneArn
<1>9. p = q
  BY <1>8, OneProfile
<1>10. i = j
  BY <1>9, OneProfileInfo
<1> QED
  BY <1>6, <1>7, <1>8, <1>10

LEMMA OneV2 ==
    ASSUME NEW list, DOMAIN list = 1 .. Len(list), Len(list) \in Nat, NEW doc,
           NEW a \in parse_v2_config(doc, list), NEW b \in parse_v2_config(doc, list)
    PROVE  a = b
<1> DEFINE Of(profile) == {V2Config(doc, info) : info \in get_profile_info(list, profile)}
<1>1. parse_v2_config(doc, list) \subseteq UNION {Of(profile) : profile \in get_profile_from_thing_name(doc.thingName)}
  BY DEF parse_v2_config
<1>2. PICK p \in get_profile_from_thing_name(doc.thingName) : a \in Of(p)
  BY <1>1
<1>3. PICK q \in get_profile_from_thing_name(doc.thingName) : b \in Of(q)
  BY <1>1
<1>4. PICK i \in get_profile_info(list, p) : a = V2Config(doc, i)
  BY <1>2
<1>5. PICK j \in get_profile_info(list, q) : b = V2Config(doc, j)
  BY <1>3
<1>6. p = q
  BY OneProfile
<1>7. i = j
  BY <1>6, OneProfileInfo
<1> QED
  BY <1>4, <1>5, <1>7

LEMMA OneParsed ==
    ASSUME NEW f \in Files, NEW list \in f.profiles,
           NEW a \in parse_config(f, list), NEW b \in parse_config(f, list)
    PROVE  a = b
<1>1. DOMAIN list = 1 .. Len(list) /\ Len(list) \in Nat
  BY FilesAssumption
<1>2. CASE InUse(f) = "v2"
  <2>1. PICK doc \in f.v2 : a \in parse_v2_config(doc, list)
    BY <1>2 DEF parse_config
  <2>2. b \in parse_v2_config(doc, list)
    BY <1>2, FilesAssumption DEF parse_config
  <2> QED
    BY <1>1, <2>1, <2>2, OneV2
<1>3. CASE InUse(f) # "v2"
  <2>1. PICK doc \in f.v1 : a \in parse_v1_config(doc, list)
    BY <1>3 DEF parse_config
  <2>2. b \in parse_v1_config(doc, list)
    BY <1>3, FilesAssumption DEF parse_config
  <2> QED
    BY <1>1, <2>1, <2>2, OneV1
<1> QED
  BY <1>2, <1>3

----------------------------------------------------------------------------
(* The inductive invariant: at every step what has been read so far is     *)
(* what the files say, and a start that ended had a reason in them.        *)

Loaded == UNION {load_profile_info(list) : list \in files.profiles}
Parsed == UNION {parse_config(files, list) : list \in Loaded}

Refused == \/ Loaded = {}
           \/ Parsed = {}
           \/ state = "failed" /\ \E c \in Parsed : Pkcs11(c.private_key_path)

MonitoredSoFar ==
    /\ step = "ecu_info" => monitored = {"profiles"}
    /\ step = "greengrass" => monitored = {"profiles"} \cup {"ecu_info" : f \in allowed}
    /\ step = "session" => monitored = {"profiles"} \cup {"ecu_info" : f \in allowed} \cup {InUse(files)}
    /\ monitored \subseteq {"profiles", "ecu_info", "v1", "v2"}

StartInv ==
    /\ step \in {"configs", "ecu_info", "greengrass", "session", "running", "exited"}
    /\ step # "running" => files \in Files
    /\ step \in {"ecu_info", "greengrass", "session"} => profile_info = Loaded /\ Loaded # {}
    /\ step \in {"configs", "running"} => profile_info = {}
    /\ profile_info \subseteq Loaded
    /\ IF step = "session" THEN config = Parsed /\ Parsed # {} ELSE config = {}
    /\ step = "exited" => Refused
    /\ step \notin {"running", "exited"} => state = "starting"
    /\ step = "running" => state \notin {"starting", "failed"}
    /\ usable \in BOOLEAN /\ (usable => step = "running")
    /\ MonitoredSoFar

LEMMA StartInvInit == StartInit => StartInv
BY DEF StartInit, Init, StartInv, MonitoredSoFar

LEMMA LoadedListed == Loaded \subseteq files.profiles
BY DEF Loaded, load_profile_info

\* The running server never comes back to its start.
LEMMA ServingStays ==
    ASSUME Serving \/ Connect, state \notin {"starting", "failed"}
    PROVE  state' \notin {"starting", "failed"}
<1>1. CASE SignAtOnce \/ BeginRefresh \/ BeginCall \/ Connect \/ Tick
  BY <1>1 DEF SignAtOnce, BeginRefresh, BeginCall, Connect, Tick, Outcome
<1>2. CASE Results \/ ConnectFails
  BY <1>2 DEF Results, ConnectTimesOut, ConnectFails, RequestFails, RequestTimesOut, ParseRefused, ParseAccepted,
     RefreshFails, Outcome
<1>3. CASE Provider
  BY <1>3 DEF Provider, OnBody, StreamEnds, OnResponse, thread
<1> QED
  BY <1>1, <1>2, <1>3 DEF Serving, Thread

LEMMA StartInvStep == StartInv /\ [StartNext]_startVars => StartInv'
<1> SUFFICES ASSUME StartInv, [StartNext]_startVars PROVE StartInv'
  OBVIOUS
<1>1. CASE LoadProfileInfo
  <2>1. /\ step = "configs" /\ files' = files /\ state' = state
        /\ profile_info' = Loaded /\ config' = config /\ usable' = usable
        /\ step' = (IF Loaded # {} THEN "ecu_info" ELSE "exited")
        /\ monitored' = IF Loaded # {} THEN {"profiles"} ELSE {}
    BY <1>1 DEF LoadProfileInfo, Then, vars, thread, Loaded
  <2>2. Loaded' = Loaded
    BY <2>1 DEF Loaded
  <2> QED
    BY <2>1, <2>2 DEF StartInv, MonitoredSoFar, Refused
<1>2. CASE LoadEcuInfo
  <2>1. /\ step = "ecu_info" /\ step' = "greengrass" /\ files' = files /\ state' = state
        /\ profile_info' = profile_info /\ config' = config /\ usable' = usable
        /\ monitored' = monitored \cup EcuInfoMonitored
        /\ allowed' = {ecu_id_set(info) : info \in files.ecu_info}
    BY <1>2 DEF LoadEcuInfo, vars, thread
  <2>2. Loaded' = Loaded
    BY <2>1 DEF Loaded
  <2>3. {"ecu_info" : f \in allowed'} = EcuInfoMonitored
    BY <2>1 DEF EcuInfoMonitored
  <2> QED
    BY <2>1, <2>2, <2>3 DEF StartInv, MonitoredSoFar
<1>3. CASE LoadGreengrass
  <2>1. /\ step = "greengrass" /\ files' = files /\ state' = state
        /\ profile_info' = profile_info /\ allowed' = allowed /\ usable' = usable
        /\ config' = Parsed
        /\ step' = (IF Parsed # {} THEN "session" ELSE "exited")
        /\ monitored' = IF Parsed # {} THEN monitored \cup {InUse(files)} ELSE monitored
    BY <1>3 DEF LoadGreengrass, Then, vars, thread, Parsed, StartInv
  <2>2. Loaded' = Loaded
    BY <2>1 DEF Loaded
  <2>3. Parsed' = Parsed
    BY <2>1, <2>2 DEF Parsed
  <2>4. InUse(files) \in {"v1", "v2"}
    BY DEF InUse
  <2>5. MonitoredSoFar'
    BY <2>1, <2>4 DEF StartInv, MonitoredSoFar
  <2> QED
    BY <2>1, <2>2, <2>3, <2>5 DEF StartInv, Refused
<1>4. CASE CreateSession
  <2>1. /\ step = "session" /\ state' \in {"idle", "failed"}
        /\ state' = "failed" => \E c \in config : Pkcs11(c.private_key_path)
        /\ step' = IF state' = "idle" THEN "running" ELSE "exited"
        /\ usable' = (state' = "idle" /\ \A c \in config : CanFetch(c))
        /\ files' = IF state' = "idle" THEN NoFiles ELSE files
        /\ profile_info' = {} /\ config' = {} /\ monitored' = {}
    BY <1>4 DEF CreateSession, GetSession
  <2>2. CASE state' = "idle"
    BY <2>1, <2>2 DEF StartInv, MonitoredSoFar
  <2>3. CASE state' = "failed"
    <3>1. files' = files
      BY <2>1, <2>3
    <3>2. Loaded' = Loaded
      BY <3>1 DEF Loaded
    <3>3. Parsed' = Parsed
      BY <3>1, <3>2 DEF Parsed
    <3>4. Refused'
      BY <2>1, <2>3, <3>3 DEF StartInv, Refused
    <3> QED
      BY <2>1, <2>3, <3>1, <3>4 DEF StartInv, MonitoredSoFar
  <2> QED
    BY <2>1, <2>2, <2>3
<1>5. CASE Serves \/ Connects
  <2>1. step = "running" /\ UNCHANGED start /\ (Serving \/ Connect)
    BY <1>5 DEF Serves, Connects
  <2>2. state' \notin {"starting", "failed"}
    BY <2>1, ServingStays DEF StartInv
  <2>3. UNCHANGED <<step, files, profile_info, allowed, config, monitored, usable>>
    BY <2>1 DEF start, settings
  <2>4. Loaded' = Loaded
    BY <2>3 DEF Loaded
  <2> QED
    BY <2>1, <2>2, <2>3, <2>4 DEF StartInv, MonitoredSoFar
<1>6. CASE UNCHANGED startVars
  <2>1. UNCHANGED <<step, files, profile_info, allowed, config, monitored, usable, state>>
    BY <1>6 DEF startVars, start, settings, vars, thread
  <2>2. Loaded' = Loaded
    BY <2>1 DEF Loaded
  <2>3. Parsed' = Parsed
    BY <2>1, <2>2 DEF Parsed
  <2> QED
    BY <2>1, <2>2, <2>3 DEF StartInv, MonitoredSoFar, Refused
<1> QED
  BY <1>1, <1>2, <1>3, <1>4, <1>5, <1>6 DEF StartNext, Load

LEMMA AlwaysStartInv == StartSpec => []StartInv
BY StartInvInit, StartInvStep, PTL DEF StartSpec

----------------------------------------------------------------------------
(* What follows for the files of a vehicle.                                *)

LEMMA DescribedFits ==
    ASSUME files \in Files, NEW v \in Vehicles, Describes(v), NEW list \in files.profiles
    PROVE  \E c : /\ parse_config(files, list) = {c} /\ Fit(c, v)
                  /\ Pkcs11(c.private_key_path) => KeyInToken
<1>1. /\ Named(v) /\ Listed(v, list)
      /\ DOMAIN list = 1 .. Len(list) /\ Len(list) \in Nat
  BY FilesAssumption DEF Describes
<1>2. CASE files.v2 # {}
  <2>1. PICK doc : files.v2 = {doc} /\ doc \in V2Documents(v)
    <3>1. PICK doc : doc \in files.v2
      BY <1>2
    <3>2. files.v2 = {doc}
      BY <3>1, FilesAssumption
    <3> QED
      BY <1>2, <3>1, <3>2 DEF Describes
  <2>2. PICK c : /\ parse_v2_config(doc, list) = {c} /\ Fit(c, v)
                 /\ Pkcs11(c.private_key_path) => doc.privateKeyPath = Token
    BY <1>1, <2>1, ParsedV2
  <2>3. parse_config(files, list) = {c}
    BY <1>2, <2>1, <2>2 DEF parse_config, InUse
  <2> QED
    BY <1>2, <2>1, <2>2, <2>3 DEF KeyInToken
<1>3. CASE files.v2 = {}
  <2>1. PICK doc : files.v1 = {doc} /\ doc \in V1Documents(v)
    <3>1. PICK doc : doc \in files.v1
      BY <1>3 DEF Describes
    <3>2. files.v1 = {doc}
      BY <3>1, FilesAssumption
    <3> QED
      BY <1>3, <3>1, <3>2 DEF Describes
  <2>2. PICK scheme \in {"none", "file://"} : doc = V1Document(v, scheme)
    BY <2>1 DEF V1Documents
  <2>3. PICK c : parse_v1_config(doc, list) = {c} /\ Fit(c, v) /\ ~Pkcs11(c.private_key_path)
    BY <1>1, <2>2, ParsedV1
  <2>4. parse_config(files, list) = {c}
    BY <1>3, <2>1, <2>3 DEF parse_config, InUse
  <2> QED
    BY <2>3, <2>4
<1> QED
  BY <1>2, <1>3

\* There is at most one configuration, and the start reads each file at its own step.
THEOREM StartTypeCorrect == StartSpec => []StartTypeOK
<1>1. StartInv => StartTypeOK
  <2> SUFFICES ASSUME StartInv PROVE StartTypeOK
    OBVIOUS
  <2>1. ASSUME NEW c \in config, NEW d \in config PROVE c = d
    <3>1. files \in Files /\ config = Parsed
      BY <2>1 DEF StartInv
    <3>2. PICK a \in files.profiles : c \in parse_config(files, a)
      BY <2>1, <3>1, LoadedListed DEF Parsed
    <3>3. PICK b \in files.profiles : d \in parse_config(files, b)
      BY <2>1, <3>1, LoadedListed DEF Parsed
    <3>4. a = b
      BY <3>1, FilesAssumption
    <3> QED
      BY <3>1, <3>2, <3>3, <3>4, OneParsed
  <2>2. (step = "session") = (config # {})
    BY DEF StartInv
  <2> QED
    BY <2>1, <2>2, LoadedListed DEF StartInv, MonitoredSoFar, StartTypeOK
<1> QED
  BY <1>1, AlwaysStartInv, PTL

\* The files that are monitored are those that are used, when the session is created.
THEOREM MonitorsCorrect == StartSpec => []MonitorsWhatItUses
<1>1. StartInv => MonitorsWhatItUses
  BY DEF StartInv, MonitoredSoFar, MonitorsWhatItUses, InUse
<1> QED
  BY <1>1, AlwaysStartInv, PTL

\* Any vehicle with files in the documented forms gets a session of its own.
THEOREM OwnVehicleCorrect == StartSpec => []ServesOwnVehicle
<1>1. StartInv => ServesOwnVehicle
  <2> SUFFICES ASSUME StartInv, step = "session", NEW v \in Vehicles, NEW c \in config, Describes(v)
               PROVE  OfVehicle(c, v)
    BY DEF ServesOwnVehicle
  <2>1. files \in Files /\ config = Parsed
    BY DEF StartInv
  <2>2. PICK list \in files.profiles : c \in parse_config(files, list)
    BY <2>1, LoadedListed DEF Parsed
  <2>3. PICK d : parse_config(files, list) = {d} /\ Fit(d, v)
    BY <2>1, DescribedFits
  <2> QED
    BY <2>2, <2>3 DEF Fit
<1> QED
  BY <1>1, AlwaysStartInv, PTL

\* ...and it is not refused, and can fetch credentials.
THEOREM WellFormedCorrect == StartSpec => []WellFormedServes
<1>1. StartInv => WellFormedServes
  <2> SUFFICES ASSUME StartInv, WellFormed, step \in {"session", "exited"}
               PROVE  /\ step = "session" => \A c \in config : SessionPossible(c) /\ CanFetch(c)
                      /\ step = "exited" => state = "failed" /\ KeyInToken
    BY DEF WellFormedServes
  <2>1. files \in Files
    BY DEF StartInv
  <2>2. PICK v \in Vehicles : Describes(v)
    BY DEF WellFormed
  <2>3. PICK list \in files.profiles : \A k \in DOMAIN list : list[k].account.written = "text"
    BY DEF WellFormed
  <2>4. list \in Loaded
    BY <2>3 DEF Loaded, load_profile_info, AccountValid
  <2>5. PICK d : /\ parse_config(files, list) = {d} /\ Fit(d, v)
                 /\ Pkcs11(d.private_key_path) => KeyInToken
    BY <2>1, <2>2, DescribedFits
  <2>6. Loaded = {list}
    BY <2>1, <2>4, LoadedListed, FilesAssumption
  <2>7. Parsed = {d}
    BY <2>5, <2>6 DEF Parsed
  <2> QED
    BY <2>5, <2>6, <2>7 DEF StartInv, Refused, Fit
<1> QED
  BY <1>1, AlwaysStartInv, PTL

\* What is proved of every session holds of the one that the server has.
THEOREM StartedSessionCorrect ==
    StartSpec => SignedWhileValid /\ []CredentialsFromOneAnswer
BY StartImplementsSession, SignedCorrect, OneAnswerCorrect, PTL
============================================================================
