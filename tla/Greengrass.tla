----------------------------- MODULE Greengrass ----------------------------
(***************************************************************************)
(* What the server takes from the files of a vehicle: the Greengrass       *)
(* configuration, version 1 or 2, the list of AWS profiles and the ECU     *)
(* info (greengrass_config.py, configs.py, ecu_info.py, _utils.py), and    *)
(* what the session makes of it (boto3_session.py).                        *)
(*                                                                         *)
(* A thing name is the sequence of its words between hyphens, after an     *)
(* optional prefix; an ARN is the sequence of its fields between colons; a *)
(* document is a function from the paths that are there to their values; a *)
(* path of a key or certificate is its scheme and the rest.  What may      *)
(* raise returns the set of its one result, empty when it raises.          *)
(***************************************************************************)
EXTENDS Integers, Sequences

CONSTANTS
    Word,          \* the words of a name
    MaxThingName   \* the longest thing name (128), in words

ASSUME WordAssumption   == {"edge", "Core"} \subseteq Word
ASSUME LengthAssumption == MaxThingName \in Nat

----------------------------------------------------------------------------
(* Thing names: THINGNAME_PA is (thing[/:])?<profile>-edge-<id>-<anything>.  *)

Prefixes == {"none", "thing/", "thing:"}

Length(name) == (IF name.prefix = "none" THEN 0 ELSE 1) + Len(name.words)

\* Mutant: the prefix is not allowed for.
LengthWithoutPrefix == MaxThingName

THINGNAME_MAXLENGH == MaxThingName + 1

\* Where "-edge-" may be, with something before it and an id and "-" after it.
Splits(words) == {i \in 2 .. Len(words) - 2 : words[i] = "edge"}

\* Mutant: a pattern that is not greedy takes the first one.
FirstSplit(words) == {i \in Splits(words) : \A j \in Splits(words) : i <= j}

\* The pattern is greedy: of several the last.
SplitAt(words) == {i \in Splits(words) : \A j \in Splits(words) : j <= i}

get_profile_from_thing_name(name) ==
    IF Length(name) <= THINGNAME_MAXLENGH
    THEN {SubSeq(name.words, 1, i - 1) : i \in SplitAt(name.words)}
    ELSE {}

----------------------------------------------------------------------------
(* The list of profiles.                                                   *)

\* An account id of twelve digits.  YAML reads one that is written without quotes, begins
\* with 0 and has neither an 8 nor a 9 as an octal number, which has fewer digits.
AccountValid(account) == account.written # "octal"

\* load_profile_info refuses the whole list for one entry that is not valid.
load_profile_info(list) == IF \A k \in DOMAIN list : AccountValid(list[k].account) THEN {list} ELSE {}

\* Mutant: every entry of this name.
ProfileInfoAny(list, name) == {list[k] : k \in {k \in DOMAIN list : list[k].profile_name = name}}

\* The first entry of this name.
get_profile_info(list, name) ==
    {list[k] : k \in {k \in DOMAIN list : /\ list[k].profile_name = name
                                          /\ \A j \in 1 .. k - 1 : list[j].profile_name # name}}

----------------------------------------------------------------------------
(* Version 1.                                                              *)

\* str.split(":", n): at most n + 1 parts, the last of which is not split further.
SplitArn(fields, n) ==
    IF Len(fields) <= n + 1 THEN fields
    ELSE Append(SubSeq(fields, 1, n), SubSeq(fields, n + 1, Len(fields)))

\* The fields of the named tuple; any other number of parts raises.
ThingArn(fields) ==
    LET parts == SplitArn(fields, 6)
    IN  IF Len(parts) = 6
        THEN {[region |-> parts[4], account_id |-> parts[5], resource_id |-> parts[6]]}
        ELSE {}

thing_name(arn) == [arn.resource_id EXCEPT !.prefix = IF @ = "thing/" THEN "none" ELSE @]

regulate_path(path) == [path EXCEPT !.scheme = IF @ = "file://" THEN "none" ELSE @]

V1Keys == {"thingArn", "caPath", "privateKeyPath", "certificatePath"}

\* chain_query raises for a path that is not there, unless it has a default.
Queried(doc, keys) == keys \subseteq DOMAIN doc

V1Config(doc, arn, info) ==
    [account_id       |-> arn.account_id,
     ca_path          |-> regulate_path(doc.caPath),
     private_key_path |-> regulate_path(doc.privateKeyPath),
     certificate_path |-> regulate_path(doc.certificatePath),
     thing_name       |-> thing_name(arn),
     profile          |-> info.profile_name,
     region           |-> arn.region,
     endpoint         |-> info.credential_endpoint,
     pkcs11_config    |-> {}]

parse_v1_config(doc, list) ==
    IF Queried(doc, V1Keys)
    THEN UNION {UNION {{V1Config(doc, arn, info) : info \in get_profile_info(list, profile)}
                       : profile \in get_profile_from_thing_name(arn.resource_id)}
                : arn \in ThingArn(doc.thingArn)}
    ELSE {}

----------------------------------------------------------------------------
(* Version 2.                                                              *)

V2Keys == {"thingName", "rootCaPath", "privateKeyPath", "certificateFilePath", "awsRegion"}

\* The endpoint of the document; that of the profile when there is none or an empty one.
\* An endpoint is a host, without a slash at its end or with one.
NoEndpoint == [host |-> "empty", slash |-> FALSE]

CredEndpoint(doc, info) ==
    IF "iotCredEndpoint" \in DOMAIN doc /\ doc.iotCredEndpoint # NoEndpoint
    THEN doc.iotCredEndpoint
    ELSE info.credential_endpoint

\* The section of the Pkcs11Provider; one without settings counts as none, one that lacks
\* a setting, or has a PIN that YAML reads as a number, raises.
Pkcs11Keys == {"library", "userPin", "slot"}

PKCS11Config(section) == Queried(section, Pkcs11Keys) /\ section.userPin = "text"

Pkcs11Section(doc) == IF "Pkcs11Provider" \in DOMAIN doc /\ DOMAIN doc.Pkcs11Provider # {}
                      THEN {doc.Pkcs11Provider} ELSE {}

V2Config(doc, info) ==
    [account_id       |-> info.account.id,
     ca_path          |-> doc.rootCaPath,
     private_key_path |-> doc.privateKeyPath,
     certificate_path |-> doc.certificateFilePath,
     thing_name       |-> doc.thingName,
     profile          |-> info.profile_name,
     region           |-> doc.awsRegion,
     endpoint         |-> CredEndpoint(doc, info),
     pkcs11_config    |-> Pkcs11Section(doc)]

parse_v2_config(doc, list) ==
    IF Queried(doc, V2Keys) /\ \A section \in Pkcs11Section(doc) : PKCS11Config(section)
    THEN UNION {{V2Config(doc, info) : info \in get_profile_info(list, profile)}
                : profile \in get_profile_from_thing_name(doc.thingName)}
    ELSE {}

\* parse_config: version 2 if its file is there; a file that is there and not valid is not
\* replaced by the other.
InUse(files) == IF files.v2 # {} THEN "v2" ELSE "v1"

parse_config(files, list) ==
    IF InUse(files) = "v2"
    THEN UNION {parse_v2_config(doc, list) : doc \in files.v2}
    ELSE UNION {parse_v1_config(doc, list) : doc \in files.v1}

----------------------------------------------------------------------------
(* What is made of a configuration.                                        *)

aws_role_alias(config) == <<config.profile, "role-alias">>

log_group(config) == <<config.region, config.account_id, config.profile>>

\* The ids whose entries are accepted: those of the secondaries, and the own.
ecu_id_set(info) == info.secondaries \cup {info.ecu_id}

\* The options of a pkcs11 URI are all of the form key=value.
UriParsed(path) == path.rest # "no value"

Pkcs11(path) == path.scheme = "pkcs11:"

\* _load_certificate needs the object of a certificate in the token, and reads a file.
CertificateNamed(path) ==
    IF Pkcs11(path) THEN UriParsed(path) /\ path.rest # "no object" ELSE path.scheme = "none"

\* get_session with a key in the token; with a key in a file it checks nothing yet.
SessionPossible(config) ==
    Pkcs11(config.private_key_path) =>
        /\ config.pkcs11_config # {}
        /\ CertificateNamed(config.certificate_path)
        /\ UriParsed(config.private_key_path)

\* A certificate in a file is not converted when the key is in one too.
PlainFile(path) == path.scheme = "none" /\ path.rest = "PEM"

\* The TLS context of a refresh can be built and its endpoint be found: else every refresh
\* fails.  slot_id is a number by then, or not.
CanFetch(config) ==
    /\ ~config.endpoint.slash
    /\ IF Pkcs11(config.private_key_path)
       THEN \A section \in config.pkcs11_config : section.slot = "number"
       ELSE PlainFile(config.private_key_path) /\ PlainFile(config.certificate_path)
============================================================================
