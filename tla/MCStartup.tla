----------------------------- MODULE MCStartup -----------------------------
(* Small instances of Startup for TLC: vehicles whose profiles share their *)
(* words, and what may be wrong with each file.                            *)
EXTENDS Startup

Vehicle(profile, id, account) ==
    [profile |-> profile, id |-> id, region |-> "region", account |-> account, endpoint |-> account]

\* A profile may have the word "edge" in it; so may an id, by mistake.
MCVehicles == {Vehicle(<<"p">>, <<"1">>, "a1"), Vehicle(<<"p", "edge", "q">>, <<"1">>, "a2"),
               Vehicle(<<"p">>, <<"q", "edge", "1">>, "a1")}

Without(doc, key) == [k \in DOMAIN doc \ {key} |-> doc[k]]

Damaged(doc) == {Without(doc, key) : key \in DOMAIN doc}

\* The resource-type:resource-id form of an ARN, and a resource without its type.
OddV1(v) ==
    LET doc  == V1Document(v, "none")
        bare == [prefix |-> "none", words |-> ThingWords(v)]
    IN  {[doc EXCEPT !.thingArn = SubSeq(@, 1, 5) \o <<"thing", bare>>], [doc EXCEPT !.thingArn[6] = bare],
         [doc EXCEPT !.privateKeyPath = Token]}

OddV2(v) ==
    LET plain == V2Document(v, File("none"), File("none"))
        token == WithToken(V2Document(v, Token, Token))
    IN  {V2Document(v, File("none"), Token), V2Document(v, Token, Token), V2Document(v, File("file://"), File("none")),
         [plain EXCEPT !.certificateFilePath.rest = "DER"], [plain EXCEPT !.iotCredEndpoint = NoEndpoint],
         [plain EXCEPT !.iotCredEndpoint.slash = TRUE], [plain EXCEPT !.thingName.prefix = "thing/"],
         [plain EXCEPT !.thingName.words = @ \o <<"1", "2">>],
         [token EXCEPT !.Pkcs11Provider.slot = "label"], [token EXCEPT !.Pkcs11Provider.userPin = "number"],
         [token EXCEPT !.Pkcs11Provider = Without(@, "library")], [token EXCEPT !.Pkcs11Provider = <<>>],
         [token EXCEPT !.certificateFilePath.rest = "no object"], [token EXCEPT !.certificateFilePath.scheme = "file://"],
         [token EXCEPT !.privateKeyPath.rest = "no value"]}

OneOf(S) == {{}} \cup {{x} : x \in S}

V1Files == UNION {V1Documents(v) \cup OddV1(v) \cup Damaged(V1Document(v, "none")) : v \in MCVehicles}
V2Files == UNION {V2Documents(v) \cup OddV2(v) \cup Damaged(V2Document(v, File("none"), File("none"))) : v \in MCVehicles}

\* Both profiles, in either order; one only; one twice; one whose account is not quoted.
MCProfiles ==
    LET p == Profile(Vehicle(<<"p">>, <<"1">>, "a1"))
        q == Profile(Vehicle(<<"p", "edge", "q">>, <<"1">>, "a2"))
    IN  {<<p, q>>, <<q, p>>, <<p>>, <<p, q, [p EXCEPT !.account.id = "a3"]>>,
         <<[q EXCEPT !.account.written = "octal"], p>>}

MCEcuInfo == {[ecu_id |-> "main", secondaries |-> {"sub"}]}

\* Every combination of what may be found.
MCFiles == [profiles : OneOf(MCProfiles), ecu_info : OneOf(MCEcuInfo), v1 : OneOf(V1Files), v2 : OneOf(V2Files)]
============================================================================
