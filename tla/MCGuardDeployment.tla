------------------------- MODULE MCGuardDeployment --------------------------
(* Levels UNCLASSIFIED, RESTRICTED, SECRET; two countries; three domains.   *)
(* The configurations: open, accredited by the audit section alone, one     *)
(* that only asks to fail closed, one with a NATO policy and a domain       *)
(* listed twice, and ones that do not build.  Documents: orders of a        *)
(* classification, a validation and NATO's list, and ones that do not load.  *)
EXTENDS GuardDeployment

CONSTANTS usa, gbr, eyes, sar, HIGH, LOW, THIRD, nato, uk, r1, r2, spif

MCAllowedLevels == 0..2
MCCountry       == {usa, gbr}
MCCaveat        == {eyes}
MCMission       == {sar}
MCDomainId      == {HIGH, LOW, THIRD}
MCRuleId        == {r1, r2, spif}
MCPolicyId      == {nato, uk}
MCDefault       == {usa}

Enclave(max, releasable) ==
    [max_classification |-> max, releasable_to |-> releasable,
     accepted_nationalities |-> {}, mission_compartments |-> {}]
At(id, domain) == [id |-> id, domain |-> domain]

NatoList  == Category(RELEASABLE, "permissive", {usa, gbr})
Class1    == Classification(1)
Needs     == Validation(2, RELEASABLE, {usa})
NatoFiles == {Named(nato, TRUE, elements) : elements \in
                {<<Class1>>, <<NatoList>>, <<Class1, NatoList, Needs>>, <<Needs, NatoList>>,
                 <<Class1, Needs, NatoList>>, <<Needs, Class1, NatoList>>}}
Other     == {Named(uk, TRUE, <<NatoList>>), Named(nato, FALSE, <<NatoList>>),
              Named(NoPolicyId, TRUE, <<>>)}
MCDocuments  == NatoFiles \cup Other
MCRegistries == {LoadedRegistry(<<Named(nato, TRUE, <<Classification(1), NatoList>>)>>),
                 LoadedRegistry(<<Named(nato, TRUE, <<Classification(1)>>)>>),
                 LoadedRegistry(<<Named(uk, TRUE, <<NatoList>>)>>)}

HighLow == <<At(HIGH, Enclave(2, {usa, gbr})), At(LOW, Enclave(1, {usa}))>>
Audit(path, sink, accredited, fail_closed) ==
    [path |-> path, sink |-> sink, accredited |-> accredited, fail_closed |-> fail_closed]
File(domains, rules, spifs, accredited, audit, siem) ==
    [domains |-> domains, rules |-> rules, spifs |-> spifs, accredited |-> accredited,
     audit |-> audit, siem |-> siem]

OneRule == <<Rule(r1, HIGH, LOW)>>
Lax     == Audit(FALSE, "file", FALSE, FALSE)
NatoDoc == Named(nato, TRUE, <<Classification(1), NatoList>>)
MCConfigs == {
    File(HighLow, OneRule, <<>>, FALSE, Lax, {"file", "http"}),
    File(HighLow, OneRule, <<>>, FALSE, Audit(TRUE, "worm", TRUE, FALSE), {"http", "syslog"}),
    File(HighLow, OneRule, <<>>, FALSE, Audit(TRUE, "file", FALSE, TRUE), {"file", "syslog"}),
    File(HighLow, OneRule, <<>>, FALSE, Audit(TRUE, "file", TRUE, FALSE), {}),
    File(HighLow \o <<At(LOW, Enclave(0, {}))>>, OneRule, <<NatoDoc>>, FALSE, Lax, {}),
    File(HighLow, <<Rule(r1, HIGH, THIRD)>>, <<>>, FALSE, Lax, {}),
    File(HighLow, OneRule, <<NatoDoc, Named(NoPolicyId, TRUE, <<>>)>>, FALSE, Lax, {}),
    File(<<At(HIGH, Enclave(Unparsable, {}))>>, <<>>, <<>>, FALSE, Lax, {})}

MCNewDomains == {At(THIRD, Enclave(1, {})), At(LOW, Enclave(2, {gbr})),
                 At(NoDomainId, Enclave(1, {}))}
MCNewRules   == {Rule(r2, LOW, THIRD), Rule(r1, HIGH, LOW), Rule(NoRuleId, HIGH, LOW)}
MCLabels     == {[classification |-> 2, releasable |-> {gbr}, caveats |-> {}],
                 [classification |-> 1, releasable |-> {usa}, caveats |-> {}]}
=============================================================================
