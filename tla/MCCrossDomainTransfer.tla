----------------------- MODULE MCCrossDomainTransfer ------------------------
(* Four levels: PUBLIC, below UNCLASSIFIED; UNCLASSIFIED; one the labels'    *)
(* policy does not allow; and SECRET.  Two countries, a caveat, a mission.   *)
EXTENDS CrossDomainTransfer

CONSTANTS usa, gbr, bohemia, sar, r1, r2, r3, r4, r5

MCAllowedLevels == {0, 1, 3}
MCCountry == {usa, gbr}
MCCaveat  == {bohemia}
MCMission == {sar}

Enclave(max, releasable, nationalities, missions) ==
    [max_classification |-> max, releasable_to |-> releasable,
     accepted_nationalities |-> nationalities, mission_compartments |-> missions]

High    == Enclave(3, {}, {usa, gbr}, {})
Targets == {Enclave(3, {usa}, {}, {}), Enclave(1, {usa}, {}, {}), Enclave(1, {}, {gbr}, {}),
            Enclave(0, {}, {}, {}), Enclave(2, {}, {}, {}), Enclave(1, {}, {}, {sar})}

Deployed(accredited, allowed, target) ==
    [accredited |-> accredited, allowed |-> allowed, source |-> High, target |-> target]

MCSetups == {Deployed(accredited, TRUE, target) : accredited \in BOOLEAN, target \in Targets}
                \cup {Deployed(TRUE, FALSE, Enclave(1, {}, {}, {}))}

Person(clearance, nationality, caveats) ==
    [clearance |-> clearance, nationality |-> nationality, mission |-> None,
     caveats |-> caveats]

MCReader     == {r1, r2, r3, r4, r5}
MCAttributes == [r \in MCReader |->
    CASE r = r1 -> Person(3, usa, {})
      [] r = r2 -> Person(3, gbr, {bohemia})
      [] r = r3 -> Person(1, usa, {})
      [] r = r4 -> Person(1, None, {})
      [] r = r5 -> Person(0, gbr, {})]
=============================================================================
