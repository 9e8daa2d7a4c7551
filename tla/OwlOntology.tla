---------------------------- MODULE OwlOntology -----------------------------
(***************************************************************************)
(* What mim-import reads of an OWL document: the event parser and the      *)
(* resolution of property domains (crates/mim-import/src/owl.rs).          *)
(*                                                                         *)
(* A document is a sequence of XML events [at, tag, ref], ref being the    *)
(* local name that rdf:ID, rdf:about or rdf:resource refers to.  Labels    *)
(* are wording and are left out.                                           *)
(***************************************************************************)
EXTENDS Loops, Integers, SequencesExt

CONSTANTS
    NameOrder, \* the local names of the ontology, in the order of a BTreeMap
    NoName

ASSUME NameAssumption ==
    /\ NameOrder \in Seq(Range(NameOrder)) /\ IsInjective(NameOrder)
    /\ NoName \notin Range(NameOrder)

Name == Range(NameOrder)

Sorted(names) == Only(NameOrder, names)

NewClass == [parents |-> <<>>, enumeration |-> FALSE]

NewProperty(kind, domain, range) ==
    [kind |-> kind, domain |-> domain, range |-> range, parents |-> <<>>, inverse |-> NoName]

EmptyOwl == [classes |-> <<>>, properties |-> <<>>, enumerations |-> <<>>]

\* ParserState, with the model it fills.
NewParser ==
    [owl |-> EmptyOwl, class |-> NoName, property |-> NoName, domain |-> NoName,
     range |-> NoName, in_one_of |-> FALSE, owner |-> NoName, values |-> <<>>]

\* insert(name, value), entry(name).or_insert(default)
Put(map, n, value) == [x \in DOMAIN map \cup {n} |-> IF x = n THEN value ELSE map[x]]

OrInsert(map, n, default) == IF n \in DOMAIN map THEN map ELSE Put(map, n, default)

AppendNew(seq, x) == IF Contains(seq, x) THEN seq ELSE Append(seq, x)

IfNone(value, default) == IF value = NoName THEN default ELSE value

-----------------------------------------------------------------------------
\* "Class" or "Thing": inside oneOf it is a value, elsewhere it becomes the class
\* that what follows is about.  A self-closing one leaves the property it is in.
OpenClass(p, e) ==
    CASE e.ref = NoName -> p
      [] e.ref # NoName /\ p.in_one_of -> [p EXCEPT !.values = Append(@, e.ref)]
      [] OTHER -> [p EXCEPT !.class = e.ref,
                            !.property = IF e.at = "start" THEN NoName ELSE @,
                            !.owl.classes = OrInsert(@, e.ref, NewClass)]

\* A property starts afresh at each mention of its name.
OpenProperty(p, e) ==
    LET kind == IF e.tag = "ObjectProperty" THEN "object" ELSE "data"
        read == NewProperty(kind, p.domain, p.range)
    IN  IF e.ref = NoName THEN p
        ELSE [p EXCEPT !.property = e.ref, !.class = NoName,
                       !.domain = NoName, !.range = NoName,
                       !.owl.properties = Put(@, e.ref, read)]

\* subPropertyOf, inverseOf, domain and range speak of the property before them;
\* a domain or range with no property before it is kept for the next one.
Describe(p, e) ==
    LET this == p.owl.properties[p.property]
    IN  CASE e.ref = NoName -> p
          [] e.ref # NoName /\ p.property = NoName ->
                CASE e.tag = "domain" -> [p EXCEPT !.domain = e.ref]
                  [] e.tag = "range" -> [p EXCEPT !.range = e.ref]
                  [] OTHER -> p
          [] OTHER ->
                [p EXCEPT !.owl.properties[p.property] =
                    CASE e.tag = "subPropertyOf" -> [this EXCEPT !.parents = AppendNew(@, e.ref)]
                      [] e.tag = "inverseOf" -> [this EXCEPT !.inverse = e.ref]
                      [] e.tag = "domain" -> [this EXCEPT !.domain = e.ref]
                      [] OTHER -> [this EXCEPT !.range = e.ref]]

AddParent(p, e) ==
    IF p.class = NoName \/ e.ref = NoName THEN p
    ELSE [p EXCEPT !.owl.classes[p.class].parents = AppendNew(@, e.ref)]

OpenOneOf(p) == [p EXCEPT !.in_one_of = TRUE, !.values = <<>>, !.owner = p.class]

CloseOneOf(p) ==
    LET closed == [p EXCEPT !.in_one_of = FALSE, !.values = <<>>, !.owner = NoName]
    IN  IF ~p.in_one_of \/ p.owner = NoName \/ p.values = <<>> THEN closed
        ELSE [closed EXCEPT !.owl.enumerations = Put(@, p.owner, p.values),
                            !.owl.classes[p.owner].enumeration = TRUE]

\* The end of a property gives it what it lacks of the pending domain and range.
CloseProperty(p) ==
    LET this == p.owl.properties[p.property]
    IN  IF p.property = NoName THEN p
        ELSE [p EXCEPT !.property = NoName,
                       !.domain = IF this.domain = NoName THEN NoName ELSE @,
                       !.range = IF this.range = NoName THEN NoName ELSE @,
                       !.owl.properties[p.property] =
                            [this EXCEPT !.domain = IfNone(@, p.domain),
                                         !.range = IfNone(@, p.range)]]

IsPropertyTag(tag) == tag \in {"ObjectProperty", "DatatypeProperty"}

\* One event: handle_start, handle_empty, handle_end.
ReadEvent(p, e) ==
    CASE e.at # "end" /\ e.tag \in {"Class", "Thing"} -> OpenClass(p, e)
      [] e.at # "end" /\ IsPropertyTag(e.tag) -> OpenProperty(p, e)
      [] e.at # "end" /\ e.tag \in {"subPropertyOf", "inverseOf", "domain", "range"} ->
            Describe(p, e)
      [] e.at # "end" /\ e.tag = "subClassOf" -> AddParent(p, e)
      [] e.at = "start" /\ e.tag = "oneOf" -> OpenOneOf(p)
      [] e.at = "end" /\ e.tag = "oneOf" -> CloseOneOf(p)
      [] e.at = "end" /\ e.tag = "Class" -> [p EXCEPT !.class = NoName]
      [] e.at = "end" /\ IsPropertyTag(e.tag) -> CloseProperty(p)
      [] OTHER -> p

-----------------------------------------------------------------------------
\* What a property is offered fills what it lacks, offer by offer; a partner nobody
\* declared comes into being, and the child of a data property becomes one.
Offer(to, domain, range, kind) == [to |-> to, domain |-> domain, range |-> range, kind |-> kind]

\* Of the offers to n that have something for the side, the first gives it.
FirstGiven(offers, n, side) ==
    LET given == {k \in DOMAIN offers : offers[k].to = n /\ offers[k][side] # NoName}
    IN  IF given = {} THEN NoName ELSE offers[Min(given)][side]

AcceptAll(properties, offers) ==
    LET partners == {offers[k].to : k \in DOMAIN offers}
        known == [n \in DOMAIN properties \cup partners |->
                    IF n \in DOMAIN properties THEN properties[n]
                    ELSE NewProperty("object", NoName, NoName)]
        isData(n) == \E k \in DOMAIN offers : offers[k].to = n /\ offers[k].kind = "data"
    IN  [n \in DOMAIN known |->
            [known[n] EXCEPT !.domain = IfNone(@, FirstGiven(offers, n, "domain")),
                             !.range = IfNone(@, FirstGiven(offers, n, "range")),
                             !.kind = IF isData(n) THEN "data" ELSE @]]

Inverses(properties) == Sorted({n \in DOMAIN properties : properties[n].inverse # NoName})

\* Slip: an inverse has the domain for its domain.
InverseUnturned(properties) ==
    LET names == Inverses(properties)
    IN  [k \in DOMAIN names |->
            LET this == properties[names[k]]
            IN  Offer(this.inverse, this.domain, this.range, "object")]

\* resolve_inverse_domains
InverseOffers(properties) ==
    LET names == Inverses(properties)
    IN  [k \in DOMAIN names |->
            LET this == properties[names[k]]
            IN  Offer(this.inverse, this.range, this.domain, "object")]

\* What a property is offered by those it refines.
Inheritance(properties, n) ==
    LET parents == Only(properties[n].parents, DOMAIN properties)
    IN  [k \in DOMAIN parents |->
            LET parent == properties[parents[k]]
            IN  Offer(n, parent.domain, parent.range, parent.kind)]

Inheriting(properties) ==
    LET names == Sorted(DOMAIN properties)
        collected[k \in 0..Len(names)] ==
            IF k = 0 THEN <<>> ELSE collected[k - 1] \o Inheritance(properties, names[k])
    IN  collected

\* resolve_subproperty_domains
Inheritances(properties) == Inheriting(properties)[Len(Sorted(DOMAIN properties))]

WithDomain(properties) == {n \in DOMAIN properties : properties[n].domain # NoName}

-----------------------------------------------------------------------------
\* descendants_of, the root not among them unless a cycle leads back to it.
DescendantsOf(classes, root) ==
    LET below(names) ==
            names \cup {n \in DOMAIN classes :
                          Range(classes[n].parents) \cap (names \cup {root}) # {}}
    IN  FoldLeft(LAMBDA names, k : below(names), {}, NameOrder)

\* ancestors_of: depth first, the last parent first, each name once.
Push(walk, parent) ==
    IF parent \in walk.seen THEN walk
    ELSE [walk EXCEPT !.seen = @ \cup {parent}, !.found = Append(@, parent),
                      !.stack = Append(@, parent)]

Pushing(walk, parents) ==
    LET pushed[k \in 0..Len(parents)] ==
            IF k = 0 THEN walk ELSE Push(pushed[k - 1], parents[k])
    IN  pushed

Pop(classes, walk) ==
    LET current == Last(walk.stack)
        popped  == [walk EXCEPT !.stack = Front(@)]
    IN  IF walk.stack = <<>> THEN walk
        ELSE IF current \notin DOMAIN classes THEN popped
        ELSE Pushing(popped, classes[current].parents)[Len(classes[current].parents)]

Climbing(classes, start) ==
    LET walk[k \in 0..(Len(NameOrder) + 1)] ==
            IF k = 0 THEN [stack |-> <<start>>, seen |-> {start}, found |-> <<>>]
            ELSE Pop(classes, walk[k - 1])
    IN  walk

AncestorsOf(classes, start) == Climbing(classes, start)[Len(NameOrder) + 1].found
=============================================================================
