------------------------------ MODULE MimModel ------------------------------
(***************************************************************************)
(* From an ontology to the model a node validates with: the importer       *)
(* (crates/mim-import/src/mapper.rs), the manifest it writes, the registry *)
(* made from a manifest (crates/mim-model/src/registry.rs), and the        *)
(* verdict of the MIM compliance checker (crates/mim-compliance).          *)
(*                                                                         *)
(* Names of the manifest are what to_pascal_case makes of the ontology's;  *)
(* two of the ontology's names may become one.  Definitions, package       *)
(* paths, URIs and semantic identifiers are left out.                      *)
(***************************************************************************)
EXTENDS OwlOntology

CONSTANTS
    Display,     \* Display[n]: to_pascal_case of the name n
    EventLike,   \* names that contain EVENT, TASK, ORDER, ...
    CodeLike,    \* names that end with Code or contain Category
    ActionRoot,  \* "ACTION"
    NoParent,
    ObjectName, ActionName, \* the display names of the two roots
    MetadataNames, \* Metadata and its subtypes
    MinMetadataElements, \* of which so many must be elements
    SampleNames,   \* the classes a smoke test may take: Object, Unit, Task
    CodeListName   \* the code list an attribute is checked with, for those it has

ASSUME DisplayAssumption ==
    /\ DOMAIN Display = Name
    /\ EventLike \cup CodeLike \subseteq Name /\ ActionRoot \in Name

EmptyManifest == [taxonomy |-> <<>>, elements |-> <<>>, code_lists |-> <<>>]

Failed == [ok |-> FALSE, manifest |-> EmptyManifest, imported |-> 0, total |-> 0]

CountOf(taxonomy, branch) == Cardinality({k \in DOMAIN taxonomy : taxonomy[k].branch = branch})

NamesOf(seq) == {x.name : x \in Range(seq)}

Lack(min, n) == IF n < min THEN min - n ELSE 0

\* The first n of a sequence, or as many as it has.
Upto(seq, n) == SubSeq(seq, 1, IF n < Len(seq) THEN n ELSE Len(seq))

\* names, and of the others as many in their order as it takes to have min.
Filled(min, names, others) ==
    names \cup Range(Upto(Sorted(others \ names), Lack(min, Cardinality(names))))

-----------------------------------------------------------------------------
(* The taxonomy.  A name set is [objects, actions].                         *)

PlainClasses(owl) ==
    {n \in DOMAIN owl.classes : n \notin DOMAIN owl.enumerations /\ ~owl.classes[n].enumeration}

\* The padding of OwlImporter::import and pad_class_coverage: more objects, then
\* events as actions, then objects again, then anything as an action.
Padded(owl, names, opts) ==
    LET all     == DOMAIN owl.classes
        objects == Filled(opts.min_objects, names.objects, all \ names.actions)
        actions == Filled(opts.min_actions, names.actions, EventLike \cap all)
        again   == Filled(opts.min_objects, objects \ actions, all \ actions)
        any     == Filled(opts.min_actions, actions, all)
    IN  [objects |-> again \ any, actions |-> any]

\* ensure_property_domains_in_taxonomy
WithDomainClasses(owl, names) ==
    LET domains == {owl.properties[n].domain : n \in DOMAIN owl.properties}
    IN  [names EXCEPT !.objects = @ \cup ((domains \cap DOMAIN owl.classes) \ names.actions)]

TaxonomyNames(owl, opts) ==
    LET actions == DescendantsOf(owl.classes, ActionRoot) \cup {ActionRoot}
        names   == [objects |-> PlainClasses(owl) \ actions, actions |-> actions]
    IN  WithDomainClasses(owl, IF opts.authoritative THEN names ELSE Padded(owl, names, opts))

\* class_to_taxonomy_node: the first parent is the parent, unless it has the
\* node's own name.
TaxonomyNode(owl, branch, n) ==
    LET first == IF owl.classes[n].parents = <<>> THEN NoParent
                 ELSE Display[Head(owl.classes[n].parents)]
    IN  [name |-> Display[n], branch |-> branch,
         parent |-> IF first = Display[n] THEN NoParent ELSE first]

\* taxonomy_to_element
ClassElement(node) ==
    [name |-> node.name, kind |-> "class", parent |-> node.parent,
     mandatory |-> FALSE, code |-> FALSE]

\* resolve_taxonomy_domain: the domain's class if the taxonomy has it, or else
\* its first ancestor that it has.
ParentClass(owl, domain, displays) ==
    LET held == Only(<<domain>> \o AncestorsOf(owl.classes, domain),
                     {n \in Name : Display[n] \in displays})
    IN  IF domain = NoName \/ held = <<>> THEN NoParent ELSE Display[Head(held)]

\* property_to_element
AttributeElement(n, parent) ==
    [name |-> Display[n], kind |-> "attribute", parent |-> parent,
     mandatory |-> FALSE, code |-> FALSE]

\* Slip: those without a domain are counted and kept as well.
ImportedAll(owl, displays) == Sorted(DOMAIN owl.properties)

\* import_owl_attributes
Imported(owl, displays) ==
    Only(Sorted(DOMAIN owl.properties),
         {n \in DOMAIN owl.properties :
            ParentClass(owl, owl.properties[n].domain, displays) # NoParent})

-----------------------------------------------------------------------------
(* The code lists.                                                          *)

CodeList(name, values) == [name |-> name, values |-> values, complete |-> TRUE]

FreshLists(names) == [k \in DOMAIN names |-> CodeList(names[k], {"NotSpecified"})]

\* A list for each value of each enumeration.
SinglesOf(owl, n) ==
    [k \in DOMAIN owl.enumerations[n] |->
        LET v == owl.enumerations[n][k]
        IN  CodeList(<<Display[n], Display[v]>>, {Display[v]})]

Singles(owl) ==
    LET names == Sorted(DOMAIN owl.enumerations)
        singles[k \in 0..Len(names)] ==
            IF k = 0 THEN <<>> ELSE singles[k - 1] \o SinglesOf(owl, names[k])
    IN  singles

Topped(min, lists, more) == lists \o Upto(more, Lack(min, Len(lists)))

\* What classes are displayed as, in the classes' order.
Displays(classes) == LET names == Sorted(classes) IN [k \in DOMAIN names |-> Display[names[k]]]

\* A sequence without what has come before.
Uniting(seq) ==
    LET united[k \in 0..Len(seq)] ==
            IF k = 0 THEN <<>> ELSE AppendNew(united[k - 1], seq[k])
    IN  united

Distinct(seq) == Uniting(seq)[Len(seq)]

\* pad_code_lists: a list for each class that is named like one, a list for each
\* value of an enumeration, a list for each class that has none.
PadCodeLists(owl, lists, min) ==
    LET classes == DOMAIN owl.classes
        without(held) == {n \in classes : Display[n] \notin NamesOf(held)}
        coded  == Topped(min, lists, FreshLists(Displays(CodeLike \cap without(lists))))
        valued == Topped(min, coded, Singles(owl)[Len(Sorted(DOMAIN owl.enumerations))])
    IN  Topped(min, valued, FreshLists(Distinct(Displays(without(valued)))))

-----------------------------------------------------------------------------
\* Slip: what the seed has is added, whatever is there.
Added(seq, seed) == seq \o seed

\* Of two entries of one name the last is held.
LastNamed(seq, n) ==
    CHOOSE k \in DOMAIN seq : seq[k].name = n /\ \A j \in (k + 1)..Len(seq) : seq[j].name # n

ByName(seq) == [n \in NamesOf(seq) |-> seq[LastNamed(seq, n)]]

\* merge_seed, an IndexMap by name: an entry of the seed takes the place of the one of
\* its name.
Overlay(seq, seed) ==
    LET all   == seq \o seed
        names == Distinct([k \in DOMAIN all |-> all[k].name])
    IN  [k \in DOMAIN names |-> ByName(all)[names[k]]]

\* Slip: the taxonomy is not merged.
MergeElements(manifest, seed) ==
    [manifest EXCEPT !.elements = Overlay(@, seed.elements),
                     !.code_lists = Overlay(@, seed.code_lists)]

MergeSeed(manifest, seed) ==
    [taxonomy   |-> Overlay(manifest.taxonomy, seed.taxonomy),
     elements   |-> Overlay(manifest.elements, seed.elements),
     code_lists |-> Overlay(manifest.code_lists, seed.code_lists)]

SyntheticObject(k) == <<"ImportedObject", k>>
SyntheticAction(k) == <<"ImportedAction", k>>

\* append_synthetic_coverage, which an authoritative import gets as well.
SyntheticNodes(taxonomy, opts) ==
    LET objects == Lack(opts.min_objects, CountOf(taxonomy, "object"))
        actions == Lack(opts.min_actions, CountOf(taxonomy, "action"))
    IN  [k \in 1..(objects + actions) |->
            IF k <= objects
            THEN [name |-> SyntheticObject(k), branch |-> "object", parent |-> ObjectName]
            ELSE [name |-> SyntheticAction(k), branch |-> "action", parent |-> ActionName]]

ClassElements(nodes) == [k \in DOMAIN nodes |-> ClassElement(nodes[k])]

AppendSynthetic(manifest, opts) ==
    LET nodes == SyntheticNodes(manifest.taxonomy, opts)
    IN  [manifest EXCEPT !.taxonomy = @ \o nodes, !.elements = @ \o ClassElements(nodes)]

-----------------------------------------------------------------------------
(* OwlImporter::import.                                                     *)

Nodes(owl, branch, classes) ==
    LET names == Sorted(classes) IN [k \in DOMAIN names |-> TaxonomyNode(owl, branch, names[k])]

Taxonomy(owl, opts) ==
    LET names == TaxonomyNames(owl, opts)
    IN  Nodes(owl, "object", names.objects) \o Nodes(owl, "action", names.actions)

Attributes(owl, displays) ==
    LET imported == Imported(owl, displays)
    IN  [k \in DOMAIN imported |->
            AttributeElement(imported[k],
                ParentClass(owl, owl.properties[imported[k]].domain, displays))]

EnumerationLists(owl) ==
    LET names == Sorted(DOMAIN owl.enumerations)
    IN  [k \in DOMAIN names |->
            CodeList(Display[names[k]], {Display[v] : v \in Range(owl.enumerations[names[k]])})]

Mapped(owl, opts) ==
    LET taxonomy == Taxonomy(owl, opts)
    IN  [taxonomy |-> taxonomy,
         elements |-> ClassElements(taxonomy) \o Attributes(owl, NamesOf(taxonomy)),
         code_lists |-> PadCodeLists(owl, EnumerationLists(owl), opts.min_code_lists)]

Import(owl, seed, opts) ==
    LET names  == TaxonomyNames(owl, opts)
        mapped == Mapped(owl, opts)
    IN  IF ~(names.objects \cup names.actions \subseteq DOMAIN owl.classes) THEN Failed
        ELSE [ok |-> TRUE, imported |-> Len(Imported(owl, NamesOf(mapped.taxonomy))),
              total |-> Cardinality(DOMAIN owl.properties),
              manifest |-> AppendSynthetic(
                    IF opts.merge THEN MergeSeed(mapped, seed) ELSE mapped, opts)]

\* meets_owl_coverage_target, the target being all of them.
MeetsTarget(report) == report.total > 0 /\ report.imported = report.total

-----------------------------------------------------------------------------
(* The registry.                                                            *)

Lacking(held, seq) == Only(seq, {x \in Range(seq) : x.name \in MetadataNames \ NamesOf(held)})

\* merge_metadata_from_core: what a full manifest lacks of the metadata classes.
WithMetadata(manifest, core) ==
    [manifest EXCEPT !.taxonomy = @ \o Lacking(@, core.taxonomy),
                     !.elements = @ \o Lacking(@, core.elements)]

RegistryOf(manifest) ==
    [elements |-> ByName(manifest.elements), taxonomy |-> ByName(manifest.taxonomy),
     code_lists |-> ByName(manifest.code_lists)]

\* validate_integrity
IsIntegral(registry) ==
    LET nodes == DOMAIN registry.taxonomy
    IN  /\ \A n \in nodes : registry.taxonomy[n].parent \in nodes \cup {NoParent}
        /\ \A n \in DOMAIN registry.elements :
              registry.elements[n].parent \in nodes \cup DOMAIN registry.elements \cup {NoParent}

\* validate_structure and from_manifest.
CanLoad(manifest) ==
    manifest.taxonomy # <<>> /\ manifest.elements # <<>> /\ IsIntegral(RegistryOf(manifest))

\* One turn of ancestors_of: the element's parent, or else the taxonomy's.
ParentOf(registry, n) ==
    LET of(map) == IF n \in DOMAIN map THEN map[n].parent ELSE NoParent
    IN  IF of(registry.elements) # NoParent THEN of(registry.elements) ELSE of(registry.taxonomy)

AttributesFor(registry, class) ==
    {n \in DOMAIN registry.elements :
        registry.elements[n].kind = "attribute" /\ registry.elements[n].parent = class}

Knows(registry, class) == class \in DOMAIN registry.elements \cup DOMAIN registry.taxonomy

\* code_list_for_attribute and validate_value: a value of an attribute whose term
\* is Code must be in its list, if that is complete.
IsCodeValue(registry, attribute, value) ==
    LET listed == /\ attribute \in DOMAIN registry.elements \cap DOMAIN CodeListName
                  /\ registry.elements[attribute].code
                  /\ CodeListName[attribute] \in DOMAIN registry.code_lists
        list   == registry.code_lists[CodeListName[attribute]]
    IN  listed => value \in list.values \/ ~list.complete

-----------------------------------------------------------------------------
\* serialization_smoke_test needs a class to try.
SmokeTestPasses(registry) == SampleNames \cap DOMAIN registry.elements # {}

\* dimension_metadata
HasMetadata(registry) ==
    /\ MetadataNames \subseteq DOMAIN registry.taxonomy
    /\ Cardinality(MetadataNames \cap DOMAIN registry.elements) >= MinMetadataElements

\* coverage_ratio counts the manifest's entries against what it expects itself.
Covers(manifest, expected) ==
    /\ CountOf(manifest.taxonomy, "object") >= expected.min_objects
    /\ CountOf(manifest.taxonomy, "action") >= expected.min_actions
    /\ Len(manifest.code_lists) >= expected.min_code_lists

\* ComplianceChecker::evaluate: all dimensions, the validation being that of an
\* empty store, the representation terms asking for two elements.
IsCompliant(manifest, registry, expected) ==
    /\ Covers(manifest, expected) /\ HasMetadata(registry) /\ SmokeTestPasses(registry)
    /\ Cardinality(DOMAIN registry.elements) > 1
=============================================================================
