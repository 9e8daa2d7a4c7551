---------------------------- MODULE ObjectQueries ----------------------------
(***************************************************************************)
(* What a GetByFilter request asks for, which instances it selects, and    *)
(* the page of them it gets (crates/mim-transport/src/rest.rs, filter.rs   *)
(* and broker.rs).                                                         *)
(*                                                                         *)
(* An expression is what the parser of filters can tell about its text: it *)
(* begins with //, names a class, has predicates whose values are quoted,  *)
(* and ends there.                                                         *)
(***************************************************************************)
EXTENDS InstanceWire, Loops

\* A query parameter the request does not have.  An empty filter or className is
\* taken for a missing one, and so are empty names in an expression; an empty
\* propertyName or propertyValue is a name or a value like any other.
CONSTANT NoParameter

Predicate(name, value, quoted) == [name |-> name, value |-> value, quoted |-> quoted]

FilterExpression(rooted, class, predicates, ended) ==
    [rooted |-> rooted, class |-> class, predicates |-> predicates, ended |-> ended]

\* parse_filter and parse_predicate.
ParsesFilter(e) ==
    /\ e.rooted /\ e.class # NoParameter /\ e.ended
    /\ \A p \in ToSet(e.predicates) : p.name # NoParameter /\ p.quoted

Query(filter, class, name, value, offset, limit) ==
    [filter |-> filter, class |-> class, name |-> name, value |-> value,
     offset |-> offset, limit |-> limit]

\* filter_from_query: an expression takes the place of the other three.
Asks(q) == IF q.filter # NoParameter THEN ParsesFilter(q.filter) ELSE q.class # NoParameter

\* MimInstance::property: the first of that name.
PropertyOf(i, name) ==
    IF PropertyNamed(i, name) = <<>> THEN Absent ELSE Head(PropertyNamed(i, name)).value

\* instance_matches: a value of any type by its text.
MatchesFilter(i, e) ==
    /\ i.class = e.class
    /\ \A p \in ToSet(e.predicates) :
          /\ PropertyOf(i, p.name).kind = "value"
          /\ PropertyOf(i, p.name).text = p.value

\* get_by_filter without an expression: a value only when it is a string, the
\* mere presence of a property, nil or absent as its value may be, without one.
MatchesClass(i, q) ==
    /\ i.class = q.class
    /\ q.name = NoParameter => q.value = NoParameter
    /\ q.name # NoParameter /\ q.value = NoParameter => PropertyNamed(i, q.name) # <<>>
    /\ q.name # NoParameter /\ q.value # NoParameter =>
          PropertyOf(i, q.name) = Value("string", q.value)

Selects(q, i) ==
    IF q.filter # NoParameter THEN MatchesFilter(i, q.filter) ELSE MatchesClass(i, q)

\* paginate_instances.
Paginate(s, offset, limit) ==
    LET rest == SubSeq(s, offset + 1, Len(s))
    IN  IF limit = NoParameter \/ limit > Len(rest) THEN rest ELSE SubSeq(rest, 1, limit)
=============================================================================
