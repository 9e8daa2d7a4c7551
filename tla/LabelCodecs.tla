----------------------------- MODULE LabelCodecs -----------------------------
(***************************************************************************)
(* The confidentiality label in full, the security classification of an    *)
(* instance's metadata it is made from, and the two encodings of STANAG    *)
(* 4774 (crates/mim-labeling/src/label.rs and policy.rs,                   *)
(* crates/mim-policy/src/pip.rs, crates/mim-stanag4774/src).               *)
(*                                                                         *)
(* A label's text is the sequence of its elements in the order they are    *)
(* written and read; a level stands for its STANAG name.                   *)
(***************************************************************************)
EXTENDS SpifPolicies

CONSTANTS
    NATO,         \* the identifier and the object identifier of the NATO policy
    NatoOid,
    Unreadable    \* a classification that ClassificationLevel::parse refuses

ASSUME LabelAssumption == NATO \in PolicyId /\ NoPolicyId \notin PolicyId

\* LabelPolicy: a policy read from a label allows every level.
AnyLevelOf(id, oid) == [identifier |-> id, oid |-> oid, levels |-> Level]
NatoPolicy(id)      == [identifier |-> id, oid |-> NatoOid, levels |-> AllowedLevels]

Marking(name, type, values) == [tag_name |-> name, category_type |-> type, values |-> values]
ReleasableTo(countries)     == Marking(RELEASABLE, "permissive", countries)
HandlingCaveat(caveat)      == Marking(HANDLING, "restrictive", {caveat})

NewLabel(policy, level) ==
    [policy |-> policy, classification |-> level, privacy_mark |-> None, colour |-> None,
     marking_data |-> None, categories |-> <<>>, alternatives |-> <<>>,
     creation_time |-> None, review_time |-> None]

\* ConfidentialityLabel::validate.
IsValid(l) ==
    /\ l.policy.identifier # NoPolicyId
    /\ l.classification \in l.policy.levels
    /\ \A c \in ToSet(l.categories) : c.values # {}

ValuesOf(categories)   == UNION {c.values : c \in categories}

ReleasableCountries(l) == ValuesOf({c \in ToSet(l.categories) : c.tag_name = RELEASABLE})
RestrictiveValues(l)   == ValuesOf({c \in ToSet(l.categories) : c.category_type = "restrictive"})

\* What the policy decision point looks at: ResourceAttributes::from_label.
Resource(l) == [classification |-> l.classification, releasable |-> ReleasableCountries(l),
                caveats |-> RestrictiveValues(l)]

-----------------------------------------------------------------------------
(* SecurityClassification of the metadata: absent values are None, an       *)
(* absent releasability is empty.                                           *)

Security(policy, level, releasable) ==
    [policy |-> policy, classification |-> level, releasability |-> releasable]

Unmarked == Security(None, None, {})

\* label_from_security: without a classification nothing else is looked at.
LabelReadable(s) == s.classification # Unreadable

LabelFromSecurity(s) ==
    LET policy == NatoPolicy(IF s.policy = None THEN NATO ELSE s.policy)
        bare   == NewLabel(policy, s.classification)
    IN  CASE s.classification = None -> NewLabel(NatoPolicy(NATO), Unclassified)
          [] s.classification # None /\ s.releasability = {} -> bare
          [] OTHER -> [bare EXCEPT !.categories = <<ReleasableTo(s.releasability)>>]

ToMimSecurity(l) == Security(l.policy.identifier, l.classification, ReleasableCountries(l))

-----------------------------------------------------------------------------
(* XML.                                                                     *)

Element(tag, body) == [tag |-> tag, body |-> body]
IfPresent(tag, v)  == IF v = None THEN <<>> ELSE <<Element(tag, v)>>

ConfidentialityInformation(l) ==
    <<Element("PolicyIdentifier", [identifier |-> l.policy.identifier, oid |-> l.policy.oid]),
      Element("Classification", l.classification)>>
    \o IfPresent("PrivacyMark", l.privacy_mark)
    \o IfPresent("Colour", l.colour)
    \o IfPresent("MarkingData", l.marking_data)
    \o [k \in DOMAIN l.categories |-> Element("Category", l.categories[k])]

ToXml(l) ==
    <<Element("label", [created |-> l.creation_time, review |-> l.review_time])>>
    \o ConfidentialityInformation(l)
    \o FlattenSeq([k \in DOMAIN l.alternatives |->
            <<Element("alternative", None)>> \o ConfidentialityInformation(l.alternatives[k])
            \o <<Element("end of alternative", None)>>])

\* A label without elements, as the parser begins it; the policy defaults to NATO.
Nothing == NewLabel(AnyLevelOf(NATO, None), None)

\* An alternative's classification, privacy mark, colour and marking data are its
\* own.  Its policy identifier and its categories are taken for the label's:
\* alt_policy, alt_policy_oid and alt_categories are never written to.
ReadLabelElement(read, e) ==
    LET side == IF read.in_alternative THEN "alternative" ELSE "label"
        field == [Classification |-> "classification", PrivacyMark |-> "privacy_mark",
                  Colour |-> "colour", MarkingData |-> "marking_data"]
    IN  CASE e.tag \in DOMAIN field -> [read EXCEPT ![side][field[e.tag]] = e.body]
          [] e.tag = "PolicyIdentifier" ->
                [read EXCEPT !.label.policy =
                    AnyLevelOf(e.body.identifier,
                               IF e.body.oid = None THEN @.oid ELSE e.body.oid)]
          [] e.tag = "Category" -> [read EXCEPT !.label.categories = Append(@, e.body)]
          [] e.tag = "label" ->
                [read EXCEPT !.label.creation_time = e.body.created,
                             !.label.review_time = e.body.review]
          [] e.tag = "alternative" ->
                [read EXCEPT !.in_alternative = TRUE, !.alternative = Nothing]
          [] e.tag = "end of alternative" ->
                [read EXCEPT !.in_alternative = FALSE,
                             !.label.alternatives =
                                IF read.alternative.classification = None THEN @
                                ELSE Append(@, read.alternative)]

FromXml(elements) ==
    FoldLeft(ReadLabelElement,
             [label |-> Nothing, alternative |-> Nothing, in_alternative |-> FALSE],
             elements).label

-----------------------------------------------------------------------------
(* Structured JSON: colour, marking data, the policy's object identifier    *)
(* and the alternatives are not written.                                    *)

ToJson(l) ==
    [policy |-> l.policy.identifier, classification |-> l.classification,
     privacy_mark |-> l.privacy_mark, categories |-> l.categories,
     creation_time |-> l.creation_time, review_time |-> l.review_time]

FromJson(j) ==
    [NewLabel(AnyLevelOf(j.policy, None), j.classification) EXCEPT
        !.privacy_mark = j.privacy_mark, !.categories = j.categories,
        !.creation_time = j.creation_time, !.review_time = j.review_time]

\* Stanag4774Codec: a label that is not valid is neither written nor read.  The
\* XML that ToXml writes passes the schema.
LabelFormat == {"xml", "json"}
Encoded(l, format)    == IF format = "xml" THEN ToXml(l) ELSE ToJson(l)
Decoded(text, format) == IF format = "xml" THEN FromXml(text) ELSE FromJson(text)
RoundTrip(l, format)  == Decoded(Encoded(l, format), format)
RoundTrips(l, format) == IsValid(l) /\ IsValid(RoundTrip(l, format))
=============================================================================
