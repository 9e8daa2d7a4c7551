--------------------------- MODULE MCModelImport ----------------------------
(* A small JC3IEDM: an action class and its twin in another case, a request, *)
(* a unit and a vessel, a code list, a property refined by another, a pair   *)
(* of inverses; and a core model of four classes with an attribute that is   *)
(* mandatory and one that has a code list.                                   *)
EXTENDS ModelImport

CONSTANTS Object, Action, Metadata, Request, Unit, Vessel, Trackcode, Hot, Float,
          Child, Ownedby, Owns, Speed, Label, UnitRange, UnitRangeCode

MCNameOrder == <<"ACTION", "Action", "HOT", "REQUEST", "TrackCode", "UNIT", "VESSEL",
                 "child", "float", "ownedBy", "owns", "speed">>
MCDisplay ==
    [n \in Range(MCNameOrder) |->
        CASE n \in {"ACTION", "Action"} -> Action [] n = "HOT" -> Hot
          [] n = "REQUEST" -> Request [] n = "TrackCode" -> Trackcode
          [] n = "UNIT" -> Unit [] n = "VESSEL" -> Vessel [] n = "child" -> Child
          [] n = "float" -> Float [] n = "ownedBy" -> Ownedby [] n = "owns" -> Owns
          [] OTHER -> Speed]

Bare(kind, name) ==
    [kind |-> kind, name |-> name, parents |-> <<>>, domain |-> NoName, range |-> NoName,
     inverse |-> NoName, values |-> <<>>, nested |-> NoName]

Class(name, parents) == [Bare("class", name) EXCEPT !.parents = parents]

MCDeclarations ==
    {Class("ACTION", <<>>), Class("Action", <<"REQUEST">>), Class("REQUEST", <<"ACTION">>),
     Class("UNIT", <<>>), [Class("VESSEL", <<"UNIT">>) EXCEPT !.nested = "owns"],
     [Class("TrackCode", <<>>) EXCEPT !.values = <<"HOT">>],
     [Bare("data", "speed") EXCEPT !.domain = "UNIT", !.range = "float"],
     [Bare("object", "child") EXCEPT !.parents = <<"speed">>],
     [Bare("object", "owns") EXCEPT !.domain = "ACTION", !.range = "UNIT", !.inverse = "ownedBy"],
     Bare("object", "ownedBy")}

Asked(merge, authoritative, objects, actions, lists) ==
    [merge |-> merge, authoritative |-> authoritative,
     min_objects |-> objects, min_actions |-> actions, min_code_lists |-> lists]
MCOptions == {Asked(TRUE, TRUE, 2, 1, 1), Asked(TRUE, FALSE, 3, 2, 3), Asked(FALSE, FALSE, 0, 1, 0)}

Node(name, branch, parent) == [name |-> name, branch |-> branch, parent |-> parent]
Attribute(name, parent, mandatory, code) ==
    [name |-> name, kind |-> "attribute", parent |-> parent, mandatory |-> mandatory, code |-> code]
Classes == <<Node(Object, "root", NoParent), Node(Action, "root", NoParent),
             Node(Metadata, "root", NoParent), Node(Unit, "object", Object)>>

\* As in the shipped core model, Action is in the taxonomy and not among the elements.
MCCore ==
    [taxonomy |-> Classes,
     elements |-> <<ClassElement(Classes[1]), ClassElement(Classes[3]), ClassElement(Classes[4]),
                    Attribute(Label, Object, TRUE, FALSE), Attribute(UnitRange, Unit, FALSE, TRUE)>>,
     code_lists |-> <<CodeList(UnitRangeCode, {Hot})>>]

MCMetadata     == {Metadata}
MCCodeListName == (UnitRange :> UnitRangeCode)
MCEventLike    == {"ACTION", "Action"}
MCCodeLike     == {"TrackCode"}

NoCodes == [a \in {} |-> Hot]
MCInstances ==
    {[class |-> Unit, properties |-> {Label}, codes |-> UnitRange :> Hot],
     [class |-> Unit, properties |-> {}, codes |-> NoCodes],
     [class |-> Vessel, properties |-> {Label}, codes |-> UnitRange :> Float],
     [class |-> Request, properties |-> {}, codes |-> NoCodes]}
=============================================================================
