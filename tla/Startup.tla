------------------------------ MODULE Startup -------------------------------
(***************************************************************************)
(* The start of the server, from the files of the vehicle to the session   *)
(* of IoTSession (__main__.py, the modules it imports and                  *)
(* start_aws_iot_logger_thread).  The files are read once, in the order of *)
(* the imports, by one thread; whatever raises ends the process.           *)
(*                                                                         *)
(* Once the server runs, the model keeps of the files only whether a       *)
(* refresh is possible with them: the monitored files are the subject of   *)
(* ConfigMonitor and the allowed ids that of LogProxyServer.               *)
(***************************************************************************)
EXTENDS IoTSession, Greengrass

CONSTANTS
    Vehicles,     \* [profile, id : words, region, account, endpoint]
    Files         \* what may be found on the disk

\* Profile and id have a word at least; there is at most one of each file.
ASSUME VehiclesAssumption ==
    \A v \in Vehicles : /\ v.profile \in Seq(Word) /\ v.profile # <<>>
                        /\ v.id \in Seq(Word) /\ v.id # <<>>
ASSUME FilesAssumption ==
    \A f \in Files : /\ \A a, b \in f.profiles : a = b
                     /\ \A a, b \in f.v1 : a = b
                     /\ \A a, b \in f.v2 : a = b
                     /\ \A list \in f.profiles : Len(list) \in Nat /\ DOMAIN list = 1 .. Len(list)

VARIABLES
    step,         \* what the main thread does next
    files,        \* the disk, as the start finds it
    profile_info, \* the list of profiles, as the set of it
    allowed,      \* allowed ids, as the set of their set; empty without a filter
    config,       \* the IoTSessionConfig, as the set of it
    monitored,    \* monitored_config_files
    usable        \* a refresh is possible

NoFiles == [profiles |-> {}, ecu_info |-> {}, v1 |-> {}, v2 |-> {}]

settings  == <<profile_info, allowed, config, monitored>>
start     == <<step, files, settings, usable>>
startVars == <<vars, start>>

StartInit ==
    /\ Init
    /\ step = "configs" /\ files \in Files
    /\ profile_info = {} /\ allowed = {} /\ config = {} /\ monitored = {} /\ usable = FALSE

----------------------------------------------------------------------------
(* The imports.                                                            *)

\* What is the result of reading a file: go on, or raise.
Then(results, next) == step' = IF results # {} THEN next ELSE "exited"

\* configs.py: the list must be there and valid.
LoadProfileInfo ==
    /\ step = "configs"
    /\ profile_info' = UNION {load_profile_info(list) : list \in files.profiles}
    /\ Then(profile_info', "ecu_info")
    /\ monitored' = IF profile_info' # {} THEN {"profiles"} ELSE {}
    /\ UNCHANGED <<vars, files, allowed, config, usable>>

\* Mutant: the file is monitored whether it is used or not.
EcuInfoAlways == {"ecu_info"}

EcuInfoMonitored == IF files.ecu_info # {} THEN {"ecu_info"} ELSE {}

\* ecu_info.py: without the file, or with one that is not valid, nothing is filtered.
LoadEcuInfo ==
    /\ step = "ecu_info"
    /\ allowed' = {ecu_id_set(info) : info \in files.ecu_info}
    /\ monitored' = monitored \cup EcuInfoMonitored
    /\ step' = "greengrass"
    /\ UNCHANGED <<vars, files, profile_info, config, usable>>

----------------------------------------------------------------------------
(* main(): start_aws_iot_logger_thread.                                    *)

LoadGreengrass ==
    /\ step = "greengrass"
    /\ config' = UNION {parse_config(files, list) : list \in profile_info}
    /\ Then(config', "session")
    /\ monitored' = IF config' # {} THEN monitored \cup {InUse(files)} ELSE monitored
    /\ UNCHANGED <<vars, files, profile_info, allowed, usable>>

\* The session is created; that reads the certificate if the key is in the token, and may fail.
CreateSession ==
    /\ step = "session"
    /\ GetSession
    /\ state' = "idle" => \A c \in config : SessionPossible(c)
    /\ state' = "failed" => \E c \in config : Pkcs11(c.private_key_path)
    /\ step' = IF state' = "idle" THEN "running" ELSE "exited"
    /\ usable' = (state' = "idle" /\ \A c \in config : CanFetch(c))
    /\ files' = IF state' = "idle" THEN NoFiles ELSE files
    /\ profile_info' = {} /\ allowed' = {} /\ config' = {} /\ monitored' = {}

Load == LoadProfileInfo \/ LoadEcuInfo \/ LoadGreengrass \/ CreateSession

----------------------------------------------------------------------------
(* The running server is that of IoTSession; without a TLS context or with *)
(* an endpoint that is no host, no connection comes about.                 *)

Serves   == step = "running" /\ Serving /\ UNCHANGED start
Connects == step = "running" /\ usable /\ Connect /\ UNCHANGED start

StartNext == Load \/ Serves \/ Connects

StartSpec == StartInit /\ [][StartNext]_startVars

\* As in IoTSession: the thread runs and time passes.
FairStart == StartSpec /\ WF_startVars(Thread /\ UNCHANGED start) /\ WF_startVars(Tick /\ UNCHANGED start)

----------------------------------------------------------------------------
(* The files of a vehicle, in the forms that tests/data and the README     *)
(* show.                                                                   *)

ThingWords(v) == v.profile \o <<"edge">> \o v.id \o <<"Core">>

\* An id with the word "edge" cannot be told from the profile.
Named(v) == /\ \A i \in DOMAIN v.id : v.id[i] # "edge"
            /\ Len(ThingWords(v)) <= MaxThingName

File(scheme)  == [scheme |-> scheme, rest |-> "PEM"]
Token         == [scheme |-> "pkcs11:", rest |-> "object"]
Section(slot) == [library |-> "library", userPin |-> "text", slot |-> slot]

V1Document(v, scheme) ==
    [thingArn        |-> <<"arn", "aws", "iot", v.region, v.account, [prefix |-> "thing/", words |-> ThingWords(v)]>>,
     caPath          |-> File(scheme),
     privateKeyPath  |-> File(scheme),
     certificatePath |-> File(scheme)]

V2Document(v, key, certificate) ==
    [thingName           |-> [prefix |-> "none", words |-> ThingWords(v)],
     rootCaPath          |-> File("none"),
     privateKeyPath      |-> key,
     certificateFilePath |-> certificate,
     awsRegion           |-> v.region,
     iotCredEndpoint     |-> [host |-> v.endpoint, slash |-> FALSE]]

WithToken(doc) ==
    [key \in DOMAIN doc \cup {"Pkcs11Provider"} |->
        IF key = "Pkcs11Provider" THEN Section("number") ELSE doc[key]]

V1Documents(v) == {V1Document(v, scheme) : scheme \in {"none", "file://"}}

\* README.md:13: the key in the token, with or without the certificate.
V2Documents(v) == {V2Document(v, File("none"), File("none"))}
             \cup {WithToken(V2Document(v, Token, certificate)) : certificate \in {File("none"), Token}}

\* The list has the right entry for the profile of the vehicle, and no other before it.
Profile(v) == [profile_name        |-> v.profile,
               account             |-> [id |-> v.account, written |-> "text"],
               credential_endpoint |-> [host |-> v.endpoint, slash |-> FALSE]]

Listed(v, list) ==
    \E k \in DOMAIN list : list[k] = Profile(v) /\ \A j \in 1 .. k - 1 : list[j].profile_name # v.profile

\* README.md:40: if both configurations exist, version 2 is used.
Describes(v) ==
    /\ Named(v)
    /\ \A list \in files.profiles : Listed(v, list)
    /\ IF files.v2 # {} THEN files.v2 \subseteq V2Documents(v)
                        ELSE files.v1 # {} /\ files.v1 \subseteq V1Documents(v)

WellFormed == /\ \E v \in Vehicles : Describes(v)
              /\ \E list \in files.profiles : \A k \in DOMAIN list : list[k].account.written = "text"

KeyInToken == files.v2 # {} /\ \A doc \in files.v2 : doc.privateKeyPath = Token

----------------------------------------------------------------------------
(* Properties.                                                             *)

\* Type invariant: there is one configuration, and only until the session is created.
StartTypeOK ==
    /\ step \in {"configs", "ecu_info", "greengrass", "session", "running", "exited"}
    /\ (step = "session") = (config # {}) /\ \A c, d \in config : c = d
    /\ profile_info \subseteq files.profiles
    /\ monitored \subseteq {"profiles", "ecu_info", "v1", "v2"}
    /\ usable \in BOOLEAN /\ (usable => step = "running")
    /\ step \notin {"running", "exited"} => state = "starting"
    /\ step = "running" => state \notin {"starting", "failed"}

\* The thing, role, log group and endpoint of a vehicle.
OfVehicle(c, v) ==
    /\ c.thing_name = [prefix |-> "none", words |-> ThingWords(v)]
    /\ aws_role_alias(c) = <<v.profile, "role-alias">>
    /\ log_group(c) = <<v.region, v.account, v.profile>>
    /\ c.endpoint = [host |-> v.endpoint, slash |-> FALSE]

\* The session is that of the vehicle the files describe, in whichever of the two formats:
\* its thing, role, region and account, and its own endpoint and log group, whatever words
\* its profile consists of and whatever else is on the disk.
ServesOwnVehicle ==
    step = "session" => \A v \in Vehicles, c \in config : Describes(v) => OfVehicle(c, v)

\* Files in the forms that are documented start a server that can fetch credentials; it ends
\* only when the token does not give the certificate.
WellFormedServes ==
    WellFormed =>
        /\ step = "session" => \A c \in config : SessionPossible(c) /\ CanFetch(c)
        /\ step = "exited" => state = "failed" /\ KeyInToken

\* When the session is created, exactly the files are monitored whose contents the server
\* uses: a filter comes with its ECU info, and the configuration not used does not matter.
MonitorsWhatItUses ==
    step = "session" =>
        monitored = {"profiles"} \cup {"ecu_info" : f \in allowed}
                    \cup (IF files.v2 # {} THEN {"v2"} ELSE {"v1"})
============================================================================
