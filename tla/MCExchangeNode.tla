--------------------------- MODULE MCExchangeNode ---------------------------
(* Levels UNCLASSIFIED, RESTRICTED, SECRET; two countries; three objects,    *)
(* one of them the node's own.  Readers: an analyst by principal, a clerk by *)
(* fingerprint and by name, and requests that name nobody.  Envelopes: every *)
(* format, a relabelling, a change of class, and every way to be refused.    *)
EXTENDS ExchangeNode

CONSTANTS usa, gbr, eyes, sar, o1, o2, o3, k1, k2, dnA, dnC, idA, cnA, cnC, fpC, fpX,
          Target, Unit, name, links

MCOid           == {o1, o2, o3}
MCAllowedLevels == 0..2
MCCountry       == {usa, gbr}
MCCaveat        == {eyes}
MCMission       == {sar}
MCPolicyId      == {NATO}
Policies == NATO :> NatoSpif({usa, gbr})
MCNoSecurity    == Unmarked
MCXmlName       == (Target :> Target) @@ (Unit :> Unit) @@ (name :> name)

Person(clearance, nationality) ==
    [clearance |-> clearance, nationality |-> nationality, mission |-> None, caveats |-> {}]
Analyst == Person(2, usa)
Clerk   == Person(0, gbr)
Subjects == Directory(TRUE, (dnA :> Analyst) @@ (dnC :> Clerk), (idA :> dnA),
                         (cnA :> dnA), (fpC :> dnC), [n \in {} |-> <<>>])
ServerSettings == ServerConfig("coalition", Nobody, FALSE, Analyst)
MCDefaultPrincipal == [n \in {dnA, dnC, idA, cnA, cnC, fpC, fpX} |->
                          IF n = cnC THEN dnC ELSE n]
MCNodeSubject == Person(2, None)
PeerGbr       == Federation(TRUE, TRUE)

Enclave(max, releasable) ==
    [max_classification |-> max, releasable_to |-> releasable,
     accepted_nationalities |-> {}, mission_compartments |-> {}]
SourceEnclave == Enclave(2, {usa, gbr})
TargetEnclave == Enclave(1, {usa, gbr})

By(h, v)       == [Anonymous EXCEPT ![h] = v]
From(headers, peer) == [headers |-> headers, peer |-> peer]
TheAnalyst     == From(By("principal", dnA), Nobody)
AnalystOverTls == From(By("principal", dnA), Certificate(cnA, fpX))
TheClerk       == From(Anonymous, Certificate(cnA, fpC))
ClerkByName    == From(By("client_cn", cnC), Nobody)
Stranger       == From(By("client_cn", cnA), Certificate(cnA, fpX))
NoReader       == From(Anonymous, Nobody)
Garbled        == From(By("bearer", Nobody), Nobody)

Named1(v) == <<Property(name, Value("string", v))>>
Secret1   == MimInstance(o1, Target, Named1("A"), {links}, Security(NATO, 2, {usa}))
Open1     == MimInstance(o1, Target, Named1("A"), {}, Security(None, 0, {}))
Nil2      == MimInstance(o2, Target,
                         <<Property(name, Nil("Unknown")), Property(name, Absent)>>, {},
                         Security(None, 0, {usa, gbr}))
Unit2     == MimInstance(o2, Unit, <<>>, {}, Unmarked)
Garbled2  == MimInstance(o2, Unit, <<>>, {}, Security(NATO, Unreadable, {}))
Empty2    == MimInstance(o2, Target, <<>>, {}, Unmarked)
Altered2  == MimInstance(o2, Target, Named1("B"), {}, Unmarked)
Own3      == MimInstance(o3, Target, Named1("A"), {}, Security(NATO, 1, {usa, gbr}))
OwnInstances     == <<Own3, Garbled2, Unit2>>

Instances == {Secret1, Open1, Nil2, Unit2, Garbled2, Empty2, Altered2, Own3}
                \cup {XmlInstance(i) : i \in {Secret1, Nil2}}

Marked(level) == NewLabel(NatoPolicy(NATO), level)
Envelope(i, format, level, key) == WrapRest(Marked(level), SerializeInstance(i, format), key)
Request(by, content_type, version, envelope) ==
    [headers |-> by.headers, peer |-> by.peer, content_type |-> content_type,
     payload_header |-> NoHeader, version |-> version, label_header |-> envelope.originator,
     envelope |-> envelope]
Sent(by, i, format, level) == Request(by, NoHeader, NoHeader, Envelope(i, format, level, k1))

Good    == Envelope(Open1, "json", 0, k1)
Swapped == LET p == SerializeInstance(Altered2, "json")
           IN  [Good EXCEPT !.payload = p, !.digest = Digest(p)]
PutRequests ==
    {Sent(by, Secret1, "json", 2) : by \in {TheAnalyst, AnalystOverTls, TheClerk}}
    \cup
    {Sent(AnalystOverTls, Open1, "jsonld", 0), Sent(TheAnalyst, Unit2, "json", 0),
     Sent(TheAnalyst, Nil2, "json", 0),
     [Sent(AnalystOverTls, Nil2, "xml", 0)
        EXCEPT !.payload_header = "xml", !.version = MimVersion],
     Sent(TheAnalyst, Garbled2, "json", 0), Sent(TheAnalyst, Empty2, "json", 0),
     Sent(Stranger, Nil2, "json", 0), Sent(Garbled, Nil2, "json", 0),
     Request(TheAnalyst, "json", NoHeader, Envelope(Nil2, "xml", 0, k1)),
     Request(TheAnalyst, NoHeader, "unknown", Good),
     Request(TheAnalyst, NoHeader, NoHeader, Envelope(Nil2, "json", 0, k2)),
     Request(TheAnalyst, NoHeader, NoHeader, Swapped),
     Request(TheAnalyst, NoHeader, NoHeader, [Good EXCEPT !.assertion = NoAssertion]),
     [Request(TheAnalyst, NoHeader, NoHeader, Good) EXCEPT !.label_header = ToXml(Marked(1))]}

Accepts(media, q) == [media |-> media, q |-> q]
Asking(by, o, accept, version) ==
    [headers |-> by.headers, peer |-> by.peer, oid |-> o, accept |-> accept, version |-> version]
Readers == {TheAnalyst, TheClerk, Garbled}
OidRequests ==
    {Asking(ClerkByName, o, <<>>, NoHeader) : o \in {o1, o2}}
    \cup {Asking(AnalystOverTls, o1, <<Accepts("json", 1), Accepts("xml", 2)>>, MimVersion),
          Asking(TheClerk, o3, <<Accepts("any", 1)>>, NoHeader),
          Asking(Stranger, o2, <<>>, NoHeader), Asking(Garbled, o2, <<>>, NoHeader),
          Asking(NoReader, o2, <<>>, NoHeader), Asking(TheAnalyst, o2, <<>>, "unknown")}

Search(by, accept, query) ==
    [headers |-> by.headers, peer |-> by.peer, accept |-> accept, query |-> query]
ByFilter(e)        == Query(e, NoParameter, NoParameter, NoParameter, NoParameter, NoParameter)
ByClass(c, n, v)   == Query(NoParameter, c, n, v, NoParameter, 1)
Targets            == FilterExpression(TRUE, Target, <<>>, TRUE)
NamedA             == FilterExpression(TRUE, Target, <<Predicate(name, "A", TRUE)>>, TRUE)
Unquoted           == FilterExpression(TRUE, Target, <<Predicate(name, "A", FALSE)>>, TRUE)
QueryRequests ==
    {Search(TheClerk, <<>>, ByFilter(Targets)), Search(TheAnalyst, <<>>, ByFilter(NamedA)),
     Search(TheAnalyst, <<Accepts("xml", 1)>>, ByClass(Target, name, NoParameter)),
     Search(ClerkByName, <<Accepts("jsonld", 1)>>, ByClass(Target, name, "A")),
     Search(NoReader, <<>>, ByFilter(Targets)), Search(TheAnalyst, <<>>, ByFilter(Unquoted))}

ReleaseRequests ==
    {[label |-> [Marked(2) EXCEPT !.categories = <<ReleasableTo({gbr})>>],
      binding |-> "assertion_bound"],
     [label |-> Marked(0), binding |-> "assertion_bound"],
     [label |-> Marked(0), binding |-> "detached"],
     [label |-> [Marked(0) EXCEPT !.categories = <<HandlingCaveat(eyes)>>],
      binding |-> "assertion_bound"]}

\* The envelopes that node_xml_label adds: a SECRET object in XML.
XmlPutRequests == PutRequests \cup {Sent(TheAnalyst, Secret1, "xml", 2)}

-----------------------------------------------------------------------------
(* The algorithms the node is built from, against what they are for, on     *)
(* labels with and without categories, marks and an alternative.            *)

Decorated   == [Marked(1) EXCEPT !.privacy_mark = name, !.colour = name, !.review_time = 1,
                                 !.categories = <<ReleasableTo({gbr}), HandlingCaveat(eyes)>>]
Limited     == [Marked(2) EXCEPT !.categories = <<ReleasableTo({gbr})>>]
Labels      == {Marked(level) : level \in MCAllowedLevels} \cup {Limited, Decorated}
Widened     == [Limited EXCEPT !.alternatives = <<[Marked(2) EXCEPT
                                                     !.categories = <<ReleasableTo({usa})>>]>>]
Payloads    == {SerializeInstance(i, "json") : i \in {Open1, Altered2}}

\* What is written in a format is taken for that format and read back, one instance
\* or a store of them (serialize.rs, wire.rs).
ASSUME WireKeepsInstances ==
    \A i \in Instances, f \in Format :
        LET one == SerializeInstance(i, f)
        IN  /\ DetectPayloadFormat(one) = f
            /\ DeserializesInstance(one, f) /\ DeserializedInstance(one) = Written(i, f)
            /\ DeserializesStore(SerializeStore(<<i>>, f), f)

\* XML keeps all of a label without alternatives but the levels of its policy (xml.rs).
ASSUME XmlKeepsLabels ==
    \A l \in Labels : RoundTrip(l, "xml") = [l EXCEPT !.policy.levels = Level]

\* The categories of an alternative come back as the label's own (xml.rs:199-284).
ASSUME AlternativesLeak ==
    ReleasableCountries(Widened) = {gbr}
        /\ ReleasableCountries(RoundTrip(Widened, "xml")) = {gbr, usa}

\* Whatever JSON leaves out, the policy decision point sees the same (json.rs), and
\* so it does after a label without caveats has been an instance's security
\* metadata (label.rs).
ASSUME JsonKeepsDecisions ==
    \A l \in Labels \cup {Widened}, f \in LabelFormat :
        /\ RoundTrips(l, f)
        /\ f = "json" => Resource(RoundTrip(l, f)) = Resource(l)
ASSUME SecurityKeepsDecisions ==
    \A l \in Labels \ {Decorated} : Resource(LabelFromSecurity(ToMimSecurity(l))) = Resource(l)

\* Every kind of binding, the mail header, the REST envelope and the package verify
\* for the payload they were made of and for no other (mim-stanag4778, mim-ztdf).
ASSUME BindingsHoldTheirPayload ==
    \A l \in {k \in Labels : CanBind(k)}, p, q \in Payloads :
        LET assertion == Assertion(l, p, k1)
            made      == CreatedPackage(l, p, 1, k1, Kas)
        IN  /\ \A kind \in BindingKind :
                  BdoVerifies(BindingDataObject(kind, l, p, assertion), q, k1, ToXml(l)) <=> p = q
            /\ RestVerifies(RestFromBdo(BindingDataObject("assertion_bound", l, p, assertion), q),
                            k1) <=> p = q
            /\ SmtpVerifies(SmtpHeader(l, p, k1), q, k1) <=> p = q
            /\ ReleaseVerifies(Sealed(Zipped(made)), q, k1) <=> p = q
            /\ PackageVerifies(made, k1, Kas)
            /\ ~PackageVerifies(made, k2, Kas) /\ ~Decrypts(k2, made)
            /\ BdoVerifies(LabelledExchange(l, p, 1, k1, Kas, TRUE).binding, q, k1, <<>>)
                  <=> p = q

\* The values above are constants of this module, which TLC evaluates and puts in
\* normal form before its workers share them; these are their names in the cfg files.
MCPutRequest     == PutRequests
XmlPutRequest    == XmlPutRequests
MCOidRequest     == OidRequests
MCQueryRequest   == QueryRequests
MCReader         == Readers
MCReleaseRequest == ReleaseRequests
MCFederation     == PeerGbr
MCOwn            == OwnInstances
MCDirectory      == Subjects
MCConfig         == ServerSettings
MCInstance       == Instances
MCDefaults       == Policies
MCNodeDomain     == SourceEnclave
MCTargetDomain   == TargetEnclave
MCValidInstance  == Instances \ {Empty2}
=============================================================================
