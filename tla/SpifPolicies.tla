---------------------------- MODULE SpifPolicies ----------------------------
(***************************************************************************)
(* Security policy information files: how a document becomes a policy, how *)
(* policies are registered, and what makes a label valid under one         *)
(* (crates/mim-spif/src/parser.rs, xsd.rs, registry.rs, validator.rs).     *)
(*                                                                         *)
(* A document is the sequence of its elements in the order they are read;  *)
(* the order matters to the parser.  A name of a classification stands for *)
(* the level whose STANAG name it is: other names admit no label.  Names   *)
(* compare without regard to case in the code.                             *)
(***************************************************************************)
EXTENDS PolicyDecision, Sequences, SequencesExt, TLC

CONSTANTS
    PolicyId,  \* identifiers of security policies
    NoPolicyId \* a document without one

RELEASABLE == "Releasable to"
HANDLING   == "Handling"

CategoryName == {RELEASABLE, HANDLING}
CategoryType == {"restrictive", "permissive", "informative"}

\* What a category may hold; without values it admits any.
SpifCategory   == [category_type: CategoryType, allowed_values: SUBSET (Country \cup Caveat)]
SpifValidation == [classification: Level, category_name: CategoryName,
                   required_any_of: SUBSET (Country \cup Caveat)]

\* What a document may hold: what may be released to are countries.
SpifElement ==
    [tag: {"class"}, level: Level] \cup [tag: {"validation"}, rule: SpifValidation]
        \cup {e \in [tag: {"category"}, name: CategoryName, body: SpifCategory] :
                 e.name = RELEASABLE => e.body.allowed_values \subseteq Country}

SpifDocument == [policy_id: PolicyId \cup {NoPolicyId}, xsd: BOOLEAN, elements: Seq(SpifElement)]

\* xsd tells whether validate_spif_xsd takes the document: xmllint, or failing
\* that the search for the elements no policy can do without.
Named(id, xsd, elements) == [policy_id |-> id, xsd |-> xsd, elements |-> elements]

Classification(level)          == [tag |-> "class", level |-> level]
Category(name, type, values)   == [tag |-> "category", name |-> name,
                                   body |-> [category_type |-> type, allowed_values |-> values]]
Validation(level, name, any)   == [tag |-> "validation",
                                   rule |-> [classification |-> level, category_name |-> name,
                                             required_any_of |-> any]]

\* A map with one more entry: over one of the same key, or only if there is none.
PutOver(map, key, value) ==
    [k \in DOMAIN map \cup {key} |-> IF k = key THEN value ELSE map[k]]
PutFirst(map, key, value) == IF key \in DOMAIN map THEN map ELSE PutOver(map, key, value)

NoCategories == [name \in {} |-> {}]

Blank(id) == [policy_id |-> id, allowed_classifications |-> {},
              categories |-> NoCategories, validations |-> {}]

\* Slip: the end of a classification leaves the flag as it is.
ReadElementSticky(read, e) ==
    CASE e.tag = "class" ->
            [read EXCEPT !.policy.allowed_classifications = @ \cup {e.level}]
      [] e.tag = "category" /\ read.in_classification -> read
      [] e.tag = "category" /\ ~read.in_classification ->
            [read EXCEPT !.policy.categories = PutFirst(@, e.name, e.body)]
      [] e.tag = "validation" ->
            [policy |-> [read.policy EXCEPT !.validations = @ \cup {e.rule}],
             in_classification |-> TRUE]

\* The <classification> inside a <validation> raises in_classification, and its
\* end belongs to the validation, so the flag stays up until the next
\* classification of the policy ends.  Until then the name of a category is
\* taken for the name of a classification, and the nameless category is dropped.
\* Of two categories of one name the first is the one that is found.
ReadElement(read, e) ==
    CASE e.tag = "class" ->
            [policy |-> [read.policy EXCEPT !.allowed_classifications = @ \cup {e.level}],
             in_classification |-> FALSE]
      [] e.tag = "category" /\ read.in_classification -> read
      [] e.tag = "category" /\ ~read.in_classification ->
            [read EXCEPT !.policy.categories = PutFirst(@, e.name, e.body)]
      [] e.tag = "validation" ->
            [policy |-> [read.policy EXCEPT !.validations = @ \cup {e.rule}],
             in_classification |-> TRUE]

\* parse_spif_xml, for a document that has an identifier: what has been read after
\* each of its elements, and after the last.
Reading(doc) ==
    LET read[k \in 0..Len(doc.elements)] ==
            IF k = 0 THEN [policy |-> Blank(doc.policy_id), in_classification |-> FALSE]
            ELSE ReadElement(read[k - 1], doc.elements[k])
    IN  read

Parsed(doc) == Reading(doc)[Len(doc.elements)].policy

Parses(doc) == doc.xsd /\ doc.policy_id # NoPolicyId

-----------------------------------------------------------------------------
(* SpifRegistry: the last policy registered under an identifier is kept.    *)

EmptyRegistry == [id \in {} |-> {}]

Registered(registry, policy) == PutOver(registry, policy.policy_id, policy)

\* load_spif_registry: the first document that cannot be read, validated or
\* parsed makes the load fail.
Loads(docs)          == \A k \in DOMAIN docs : Parses(docs[k])
Loading(docs)        ==
    LET load[k \in 0..Len(docs)] ==
            IF k = 0 THEN EmptyRegistry ELSE Registered(load[k - 1], Parsed(docs[k]))
    IN  load
LoadedRegistry(docs) == Loading(docs)[Len(docs)]

-----------------------------------------------------------------------------
(* SpifValidator, for the two categories the model's labels may have.       *)

CategoriesOf(l) ==
    {[name |-> RELEASABLE, type |-> "permissive", values |-> l.releasable],
     [name |-> HANDLING, type |-> "restrictive", values |-> l.caveats]}

\* A category of the label that the policy defines with that type and values.
Permitted(c, policy) ==
    /\ c.name \in DOMAIN policy.categories
    /\ policy.categories[c.name].category_type = c.type
    /\ LET allowed == policy.categories[c.name].allowed_values
       IN  allowed = {} \/ c.values \subseteq allowed

Satisfies(l, rule) ==
    rule.classification = l.classification =>
        \E c \in CategoriesOf(l) : c.name = rule.category_name
                                     /\ c.values \cap rule.required_any_of # {}

\* validate_against_policy behind the label's own validity.
ValidUnder(l, policy) ==
    /\ ValidLabel(l)
    /\ l.classification \in policy.allowed_classifications
    /\ \A c \in CategoriesOf(l) : c.values # {} => Permitted(c, policy)
    /\ \A rule \in policy.validations : Satisfies(l, rule)

\* validate_label: a policy the registry does not have admits no label.
ValidIn(l, policy_id, registry) ==
    policy_id \in DOMAIN registry /\ ValidUnder(l, registry[policy_id])
=============================================================================
