--------------------------- MODULE PolicyDecision ---------------------------
(***************************************************************************)
(* The policy decision point: may a subject access an object under a label *)
(* in a domain, and may a label cross from one domain to another, perhaps  *)
(* downgraded (crates/mim-policy/src/pdp.rs, pip.rs, downgrade.rs and      *)
(* crates/mim-labeling/src).                                               *)
(*                                                                         *)
(* Pure functions of the subject, the label and the domains.  The decision *)
(* does not depend on which of several reasons is reported first, so a     *)
(* chain of early returns is a conjunction here.  Names compare without    *)
(* regard to case in the code; here a country, mission or caveat is what   *)
(* its spellings have in common.                                           *)
(***************************************************************************)
EXTENDS Integers, FiniteSets

CONSTANTS
    MaxLevel,      \* the highest classification level
    Unclassified,  \* the level of UNCLASSIFIED; UNMARKED and PUBLIC lie below it
    AllowedLevels, \* the levels the labels' policy allows
    Country,
    Caveat,        \* values of restrictive categories
    Mission,
    None,          \* an absent nationality or mission
    IntersectReleasability, StripEmpty \* DowngradeConfig

ASSUME PolicyAssumption ==
    /\ MaxLevel \in Nat
    /\ Unclassified \in 0..MaxLevel
    /\ AllowedLevels \subseteq 0..MaxLevel
    /\ None \notin Country \cup Mission
    /\ IntersectReleasability \in BOOLEAN /\ StripEmpty \in BOOLEAN

Level   == 0..MaxLevel
Subject == [clearance: Level, nationality: Country \cup {None},
            mission: Mission \cup {None}, caveats: SUBSET Caveat]

\* A label without a category "Releasable to" has no countries; a category
\* without values does not occur in a valid label.
Label == [classification: Level, releasable: SUBSET Country, caveats: SUBSET Caveat]

\* An empty list of a domain restricts nothing.
Domain == [max_classification: Level, releasable_to: SUBSET Country,
           accepted_nationalities: SUBSET Country, mission_compartments: SUBSET Mission]

ValidLabel(l) == l.classification \in AllowedLevels

AcceptsCountry(d, c) ==
    /\ d.accepted_nationalities = {} \/ c \in d.accepted_nationalities
    /\ d.releasable_to = {} \/ c \in d.releasable_to

AcceptsMission(d, m) == d.mission_compartments = {} \/ m \in d.mission_compartments

\* A compartmented domain, source or target, takes a mission that both accept.
MissionAllows(s, domains) ==
    (\E d \in domains : d.mission_compartments # {}) =>
        s.mission # None /\ \A d \in domains : AcceptsMission(d, s.mission)

HoldsCaveats(s, l) == l.caveats \subseteq s.caveats

\* A subject without a nationality is not compared with the releasability.
NationalityAllows(s, l, d) ==
    s.nationality # None =>
        /\ l.releasable = {} \/ s.nationality \in l.releasable
        /\ AcceptsCountry(d, s.nationality)

\* Slip: releasability is left to the downgrade.
ReleasableToAnyone(l, d) == TRUE

ReleasableIn(l, d) == \A c \in l.releasable : AcceptsCountry(d, c)

\* enforce_access for reading, writing or deleting.
MayAccess(s, l, d) ==
    /\ ValidLabel(l)
    /\ HoldsCaveats(s, l)
    /\ MissionAllows(s, {d})
    /\ l.classification <= s.clearance
    /\ l.classification <= d.max_classification
    /\ NationalityAllows(s, l, d)
    /\ ReleasableIn(l, d)

-----------------------------------------------------------------------------
(* Decisions on a transfer between domains.                                 *)

NoLabel  == [classification |-> 0, releasable |-> {}, caveats |-> {}]
Effect   == {"permit", "deny", "downgrade", "error"}
Decision == [effect: Effect, label: Label]

Permit(l)    == [effect |-> "permit", label |-> l]
Downgrade(l) == [effect |-> "downgrade", label |-> l]
Deny         == [effect |-> "deny", label |-> NoLabel]
Failure      == [effect |-> "error", label |-> NoLabel]

KeptCountries(l, d) ==
    IF IntersectReleasability THEN {c \in l.releasable : AcceptsCountry(d, c)}
                              ELSE l.releasable

\* Slip: only the categories are brought down.
DowngradedCategories(l, d) == Downgrade([l EXCEPT !.releasable = KeptCountries(l, d)])

\* downgraded_label_for_target, for a label above the target's maximum; a
\* category that loses all its values goes, or makes the label invalid.
DowngradedLabel(l, d) ==
    LET kept == KeptCountries(l, d)
        down == [l EXCEPT !.classification = d.max_classification, !.releasable = kept]
    IN  IF /\ ValidLabel(down)
           /\ l.releasable # {} /\ kept = {} => StripEmpty
        THEN Downgrade(down) ELSE Failure

Refused(s, l, source, target) ==
    \/ ~HoldsCaveats(s, l)
    \/ ~MissionAllows(s, {source, target})
    \/ ~ReleasableIn(l, target)

\* evaluate_cross_domain behind the PIP's checks.  allowed is whether the store
\* has a rule for the pair: without one the evaluation is an error.
EvaluateCrossDomain(s, l, source, target, allowed) ==
    LET fits == l.classification <= target.max_classification
    IN  CASE ~ValidLabel(l) \/ ~allowed             -> Failure
          [] ValidLabel(l) /\ allowed
                /\ Refused(s, l, source, target)    -> Deny
          [] OTHER ->
                CASE fits -> Permit(l)
                  [] ~fits /\ target.max_classification >= Unclassified
                          -> DowngradedLabel(l, target)
                  [] OTHER -> Deny
=============================================================================
