---------------------------- MODULE ModelImport -----------------------------
(***************************************************************************)
(* A model on its way from an ontology to the nodes: a document is read    *)
(* declaration by declaration, the domains of its properties are resolved, *)
(* the manifest is made and written, a stack loads it, and instances are   *)
(* validated with it (crates/mim-import, crates/mim-model,                 *)
(* crates/ainextgenc2/src/stack.rs, crates/mim-runtime/src/validate.rs).   *)
(***************************************************************************)
EXTENDS MimModel

CONSTANTS
    Declarations,    \* what an ontology may declare
    MaxDeclarations, \* the model's bound on a document
    Options,         \* [merge, authoritative, min_objects, min_actions, min_code_lists]
    Core,            \* the core seed manifest
    Instances        \* [class, properties, codes]: instances put to the validator

\* A declaration: a class or property with what it says of itself, flat or with
\* the property of a restriction written out inside.
Declaration ==
    [kind : {"class", "object", "data"}, name : Name, parents : Seq(Name),
     domain : Name \cup {NoName}, range : Name \cup {NoName}, inverse : Name \cup {NoName},
     values : Seq(Name), nested : Name \cup {NoName}]

Option ==
    [merge : BOOLEAN, authoritative : BOOLEAN,
     min_objects : Nat, min_actions : Nat, min_code_lists : Nat]

\* The core seed, as it is shipped, loads by itself, has each name once, and has the
\* two roots.
CoreLoads ==
    /\ CanLoad(Core)
    /\ \A seq \in {Core.taxonomy, Core.elements, Core.code_lists} : seq \in Seq(Range(seq))
    /\ \A seq \in {Core.taxonomy, Core.elements} :
          \A j, k \in DOMAIN seq : seq[j].name = seq[k].name => j = k
    /\ {ObjectName, ActionName} \subseteq NamesOf(Core.taxonomy)

\* Neither the ontology nor the core seed uses a name of append_synthetic_coverage.
SyntheticIsFresh ==
    \A n \in Range(Display) \cup NamesOf(Core.taxonomy) \cup NamesOf(Core.elements) :
        \A o \in Options : \A k \in 1..(o.min_objects + o.min_actions) :
            n # SyntheticObject(k) /\ n # SyntheticAction(k)

ASSUME ImportAssumption ==
    /\ Declarations \subseteq Declaration
    /\ MaxDeclarations \in Nat
    /\ Options \subseteq Option
    /\ CoreLoads /\ SyntheticIsFresh

VARIABLES
    said,     \* the declarations read so far
    parser,   \* ParserState and the OwlModel
    phase,    \* reading, resolving, resolved, written, loaded, or refused
    opts,     \* the options of the import
    report,   \* its ImportReport, with the manifest it wrote
    registry, \* the ModelRegistry of the stack
    check     \* the validation under way or done

vars == <<said, parser, phase, opts, report, registry, check>>

NoCheck == [at |-> "idle", instance |-> <<>>, current |-> NoParent, classes |-> {}, valid |-> FALSE]

Init ==
    /\ said = <<>>
    /\ parser = NewParser
    /\ phase = "reading"
    /\ opts \in Options
    /\ report = Failed
    /\ registry = RegistryOf(EmptyManifest)
    /\ check = NoCheck

-----------------------------------------------------------------------------
Event(at, tag, ref) == [at |-> at, tag |-> tag, ref |-> ref]

\* How a declaration is written: a class as an element with its parents and its
\* oneOf, a property as an element with what it says, a bare one as an empty tag.
Events(d) ==
    LET tag == CASE d.kind = "class" -> "Class"
                 [] d.kind = "object" -> "ObjectProperty"
                 [] OTHER -> "DatatypeProperty"
        each(t, names) == [k \in DOMAIN names |-> Event("empty", t, names[k])]
        some(t, n) == IF n = NoName THEN <<>> ELSE <<Event("empty", t, n)>>
        oneOf == IF d.values = <<>> THEN <<>>
                 ELSE <<Event("start", "oneOf", NoName)>> \o each("Thing", d.values)
                        \o <<Event("end", "oneOf", NoName)>>
        parents == each(IF d.kind = "class" THEN "subClassOf" ELSE "subPropertyOf", d.parents)
        inside == some("ObjectProperty", d.nested) \o parents \o oneOf \o some("domain", d.domain)
                    \o some("range", d.range) \o some("inverseOf", d.inverse)
    IN  IF inside = <<>> THEN <<Event("empty", tag, d.name)>>
        ELSE <<Event("start", tag, d.name)>> \o inside \o <<Event("end", tag, NoName)>>

Reading(p, events) ==
    LET read[k \in 0..Len(events)] == IF k = 0 THEN p ELSE ReadEvent(read[k - 1], events[k])
    IN  read

Read(d) ==
    /\ phase = "reading"
    /\ Len(said) < MaxDeclarations /\ d \notin Range(said)
    /\ said' = Append(said, d)
    /\ parser' = Reading(parser, Events(d))[Len(Events(d))]
    /\ UNCHANGED <<phase, opts, report, registry, check>>

EndDocument ==
    /\ phase = "reading" /\ said # <<>>
    /\ phase' = "resolving"
    /\ UNCHANGED <<said, parser, opts, report, registry, check>>

\* One turn of resolve_property_domains, which ends when no property has got a
\* domain by it: what is offered is collected and then accepted, by the inverses first
\* and by the properties that refine others after them.
Resolve ==
    /\ phase = "resolving"
    /\ \E inverses \in {InverseOffers(parser.owl.properties)} :
       \E turned \in {AcceptAll(parser.owl.properties, inverses)} :
       \E inherited \in {Inheritances(turned)} :
       \E after \in {AcceptAll(turned, inherited)} :
          /\ parser' = [parser EXCEPT !.owl.properties = after]
          /\ phase' = IF Cardinality(WithDomain(after))
                            = Cardinality(WithDomain(parser.owl.properties))
                      THEN "resolved" ELSE "resolving"
    /\ UNCHANGED <<said, opts, report, registry, check>>

WriteManifest ==
    /\ phase = "resolved"
    /\ report' = Import(parser.owl, Core, opts)
    /\ phase' = IF report'.ok THEN "written" ELSE "refused"
    /\ UNCHANGED <<said, parser, opts, registry, check>>

\* MimStack::load_path
Loaded == WithMetadata(report.manifest, Core)

Load ==
    /\ phase = "written"
    /\ phase' = IF CanLoad(Loaded) THEN "loaded" ELSE "refused"
    /\ registry' = IF CanLoad(Loaded) THEN RegistryOf(Loaded) ELSE registry
    /\ UNCHANGED <<said, parser, opts, report, check>>

-----------------------------------------------------------------------------
(* Validator::validate_instance.                                            *)

StartValidation(i) ==
    /\ phase = "loaded" /\ check.at = "idle"
    /\ check' = IF Knows(registry, i.class)
                THEN [at |-> "climb", instance |-> i, current |-> i.class,
                      classes |-> {}, valid |-> FALSE]
                ELSE [NoCheck EXCEPT !.at = "done", !.instance = i]
    /\ UNCHANGED <<said, parser, phase, opts, report, registry>>

\* Slip: the parent looked up is that of the instance's class, every time.
ClimbInPlace ==
    /\ check.at = "climb" /\ check.current # NoParent
    /\ check' = [check EXCEPT !.classes = @ \cup {check.current},
                              !.current = ParentOf(registry, check.instance.class)]
    /\ UNCHANGED <<said, parser, phase, opts, report, registry>>

\* One class further up.
Climb ==
    /\ check.at = "climb" /\ check.current # NoParent
    /\ check' = [check EXCEPT !.classes = @ \cup {check.current},
                              !.current = ParentOf(registry, check.current)]
    /\ UNCHANGED <<said, parser, phase, opts, report, registry>>

\* Slip: what a class inherits is not asked for.
OwnAttributesOnly ==
    /\ \A a \in AttributesFor(registry, check.instance.class) :
          registry.elements[a].mandatory => a \in check.instance.properties
    /\ \A a \in DOMAIN check.instance.codes :
          IsCodeValue(registry, a, check.instance.codes[a])

\* The mandatory attributes of all the classes found, and the codes.
AttributesHold ==
    /\ \A class \in check.classes : \A a \in AttributesFor(registry, class) :
          registry.elements[a].mandatory => a \in check.instance.properties
    /\ \A a \in DOMAIN check.instance.codes :
          IsCodeValue(registry, a, check.instance.codes[a])

Conclude ==
    /\ check.at = "climb" /\ check.current = NoParent
    /\ check' = [check EXCEPT !.at = "done", !.valid = AttributesHold]
    /\ UNCHANGED <<said, parser, phase, opts, report, registry>>

Next ==
    \/ \E d \in Declarations : Read(d)
    \/ EndDocument \/ Resolve \/ WriteManifest \/ Load
    \/ \E i \in Instances : StartValidation(i)
    \/ Climb \/ Conclude

Spec == Init /\ [][Next]_vars

\* A loop that is entered goes on: resolve_property_domains and ancestors_of.
FairSpec == Spec /\ WF_vars(Resolve) /\ WF_vars(Climb \/ Conclude)

-----------------------------------------------------------------------------
Flat(d) == d.nested = NoName

\* Nothing in the document is nested, a domain or range is a property's, and each name
\* is declared by one declaration.
PlainDocument ==
    /\ \A d \in Range(said) : Flat(d)
    /\ \A d \in Range(said) : d.kind = "class" => d.domain = NoName /\ d.range = NoName
    /\ \A d, e \in Range(said) : d.name = e.name => d = e

PropertiesSaid == {d \in Range(said) : d.kind # "class"}

ToldOf(n, side) == {d[side] : d \in {e \in PropertiesSaid : e.name = n}} \ {NoName}

Sides == {"domain", "range"}

Turned(side) == IF side = "domain" THEN "range" ELSE "domain"

\* That the side s of a property may come from the side r of another: the same side of
\* one it refines, the other side of one that it is the inverse of.
Draws(s, r) ==
    \E d \in PropertiesSaid :
        \/ d.name = s[1] /\ r[1] \in Range(d.parents) /\ r[2] = s[2]
        \/ d.inverse = s[1] /\ r[1] = d.name /\ r[2] = Turned(s[2])

PropertySides == {<<n, side>> : n \in Name, side \in Sides}

\* All that a side may come from, found in as many turns as there are sides at most.
DrawnFrom(n, side) ==
    LET drawn[k \in 0..Cardinality(PropertySides)] ==
            IF k = 0 THEN {<<n, side>>}
            ELSE LET before == drawn[k - 1]
                 IN  {r \in PropertySides : r \in before \/ \E s \in before : Draws(s, r)}
    IN  drawn

AllSources(n, side) == DrawnFrom(n, side)[Cardinality(PropertySides)]

\* From a plain document a property keeps the domain and range it was declared with,
\* and has one it was not declared with only if a property above it, or one it is
\* the inverse of, was declared with that: however many turns the resolution takes,
\* it invents nothing and never takes one side for the other
\* (owl.rs resolve_inverse_domains, resolve_subproperty_domains).
OntologyIsKept ==
    PlainDocument =>
        \A n \in DOMAIN parser.owl.properties : \A side \in Sides :
            LET held == parser.owl.properties[n][side] IN
            IF ToldOf(n, side) # {} THEN held \in ToldOf(n, side)
            ELSE held # NoName =>
                    \E s \in AllSources(n, side) : held \in ToldOf(s[1], s[2])

\* A class's first parent is declared, and is not an enumeration.
Closed(owl) ==
    \A n \in DOMAIN owl.classes :
        owl.classes[n].parents # <<>> => Head(owl.classes[n].parents) \in PlainClasses(owl)

\* What is imported with the core model merged in from an ontology that is closed is
\* never a manifest that the node then refuses: every parent the importer writes, for
\* a class, an attribute or a synthetic type, is one the registry's integrity check
\* finds (mapper.rs merge_seed, append_synthetic_coverage; registry.rs
\* validate_integrity).
ImportsLoad ==
    phase = "refused" /\ opts.merge /\ Closed(parser.owl) => ~report.ok

\* No property's manifest name is also that of another property or of a class.
NoTwins ==
    LET owl     == parser.owl
        names   == {Display[n] : n \in DOMAIN owl.properties}
        classes == {Display[n] : n \in DOMAIN owl.classes}
    IN  /\ \A n, p \in DOMAIN owl.properties : Display[n] = Display[p] => n = p
        /\ names \cap (classes \cup NamesOf(Core.taxonomy) \cup NamesOf(Core.elements)) = {}

\* The manifest names of a class and of those above it in the ontology.
Upward(class) == {Display[c] : c \in {class} \cup Range(AncestorsOf(parser.owl.classes, class))}

\* When the import reports that all properties were imported, the registry a node
\* loads gives each of them as an attribute of a class it knows, and that class is the
\* property's domain or one above it: none is counted that has been lost, or come
\* under another's class, between the mapping, the merge and the load by name
\* (mapper.rs import_owl_attributes, resolve_taxonomy_domain, meets_owl_coverage_target).
ReportedIsLoaded ==
    phase = "loaded" /\ MeetsTarget(report) /\ NoTwins =>
        \A n \in DOMAIN parser.owl.properties :
            LET class == registry.elements[Display[n]].parent IN
            /\ Display[n] \in DOMAIN registry.elements
            /\ Knows(registry, class) /\ Display[n] \in AttributesFor(registry, class)
            /\ class \in Upward(parser.owl.properties[n].domain)

\* A model with the core merged in that the checker finds compliant has as many
\* object types, action types and code lists as are asked for, each of a name of its
\* own: the checker counts entries, the registry holds names (mapper.rs merge_seed,
\* mim-compliance checker.rs).
ComplianceIsEarned ==
    phase = "loaded" /\ opts.merge /\ IsCompliant(Loaded, registry, opts) =>
        LET distinct(branch) ==
                Cardinality({n \in DOMAIN registry.taxonomy : registry.taxonomy[n].branch = branch})
        IN  /\ distinct("object") >= opts.min_objects
            /\ distinct("action") >= opts.min_actions
            /\ Cardinality(DOMAIN registry.code_lists) >= opts.min_code_lists

\* The class and all those above it, found in as many turns as there are classes at most.
MostClasses == Cardinality(DOMAIN registry.taxonomy \cup DOMAIN registry.elements) + 1

Up(c) == IF c = NoParent THEN {c} ELSE {c, ParentOf(registry, c)}

Above(class) ==
    LET above[k \in 0..MostClasses] ==
            IF k = 0 THEN {class} ELSE UNION {Up(c) : c \in above[k - 1]}
    IN  above

ClassesAbove(class) == Above(class)[MostClasses]

\* An instance the validator passes has every mandatory attribute of its class and of
\* the classes above, whether they came from the ontology, the core model or both
\* (validate.rs validate_required_attributes).
ValidationIsComplete ==
    check.at = "done" /\ check.valid =>
        \A a \in DOMAIN registry.elements :
            /\ registry.elements[a].kind = "attribute" /\ registry.elements[a].mandatory
            /\ registry.elements[a].parent \in ClassesAbove(check.instance.class) \ {NoParent}
            => a \in check.instance.properties

\* Whether the way up from the class ends.
HasRoot(class) == NoParent \in ClassesAbove(class)

\* The resolution ends, and so does a validation unless the classes above the instance
\* are a cycle (owl.rs resolve_property_domains, registry.rs ancestors_of).
LoopsEnd ==
    /\ phase = "resolving" ~> phase # "resolving"
    /\ (check.at = "climb" /\ HasRoot(check.instance.class)) ~> check.at = "done"

\* The two roots of a model with the core merged in have no class above them
\* (models/mim-core-5.1.json: "Root classifier for all MIM actions.").
RootsStayRoots ==
    phase = "loaded" /\ opts.merge =>
        \A root \in {ObjectName, ActionName} : ParentOf(registry, root) = NoParent
=============================================================================
