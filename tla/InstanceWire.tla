---------------------------- MODULE InstanceWire ----------------------------
(***************************************************************************)
(* How an instance is written on the wire and read back, and which format  *)
(* a request or an answer has (crates/mim-runtime/src/serialize.rs and     *)
(* instance.rs, crates/mim-transport/src/wire.rs).                         *)
(*                                                                         *)
(* A document is what its reader can tell apart: its syntax, whether it    *)
(* holds one instance or an exchange of several, and the instances.  The   *)
(* text of a value is JSON in every syntax and comes back as it was.       *)
(***************************************************************************)
EXTENDS Naturals, Sequences, SequencesExt

CONSTANTS
    XmlName,       \* what a class or property name is as an XML element's name
    NoSecurity,    \* the metadata of an instance without a security classification
    MimVersion,    \* 5.1.0, the version of the wire
    NoHeader       \* a header the request does not have

Format == {"json", "jsonld", "xml"}

\* A value has its type and the text it is compared by, a nil its reason.
Value(type, text) == [kind |-> "value", type |-> type, text |-> text]
Nil(reason)       == [kind |-> "nil", type |-> "none", text |-> reason]
Absent            == [kind |-> "absent", type |-> "none", text |-> "none"]

\* The associations and the security classification of the metadata are what
\* the formats treat differently; typed is the semantic id of a property.
MimInstance(oid, class, properties, links, security) ==
    [oid |-> oid, class |-> class, properties |-> properties, links |-> links,
     security |-> security]

Property(name, value) == [name |-> name, typed |-> FALSE, value |-> value]

PropertyNamed(i, name) == SelectSeq(i.properties, LAMBDA p : p.name = name)

-----------------------------------------------------------------------------
(* Serializer.                                                              *)

Document(syntax, kind, instances) ==
    [syntax |-> syntax, kind |-> kind, instances |-> instances]

\* An element per property that is not absent; neither the metadata nor the
\* associations are written.
XmlInstance(i) ==
    LET present == SelectSeq(i.properties, LAMBDA p : p.value.kind # "absent")
        element(p) == Property(XmlName[p.name], p.value)
    IN  MimInstance(i.oid, XmlName[i.class], [k \in DOMAIN present |-> element(present[k])],
                    {}, NoSecurity)

Written(i, format) == IF format = "xml" THEN XmlInstance(i) ELSE i

SerializeInstance(i, format)   == Document(format, "instance", <<Written(i, format)>>)
SerializeStore(store, format)  ==
    Document(format, "exchange", [k \in DOMAIN store |-> Written(store[k], format)])

\* An XML reader takes every instance of either kind; JSON and JSON-LD tell an
\* instance from an exchange, and a JSON-LD reader takes the JSON of an instance
\* that is not wrapped in mim:data.
ReadableAs(doc, format, kind) ==
    CASE format = "xml"    -> doc.syntax = "xml" /\ doc.instances # <<>>
      [] format = "json"   -> doc.syntax = "json" /\ doc.kind = kind
      [] format = "jsonld" -> /\ doc.kind = kind
                              /\ \/ doc.syntax = "jsonld"
                                 \/ doc.syntax = "json" /\ kind = "instance"

\* deserialize_instance: the first instance of what parse_xml_instances finds.
DeserializesInstance(doc, format) == ReadableAs(doc, format, "instance")
DeserializedInstance(doc)         == Head(doc.instances)
DeserializesStore(doc, format)    == ReadableAs(doc, format, "exchange")

-----------------------------------------------------------------------------
(* Media types.  A media type stands for its spellings: application/xml and *)
(* text/xml for application/mim+xml, application/json for                   *)
(* application/mim+json; one that names no format is "unknown".             *)

DetectPayloadFormat(doc) == IF doc.syntax \in {"xml", "jsonld"} THEN doc.syntax ELSE "json"

FormatFromContentType(header) == IF header \in Format THEN header ELSE NoHeader

\* put_object: the content type, else X-MIM-Payload-Format, else what the
\* payload looks like.  The reader of the payload has no other say in it.
PayloadFormat(content_type, payload_header, doc) ==
    CASE FormatFromContentType(content_type) # NoHeader -> FormatFromContentType(content_type)
      [] FormatFromContentType(content_type) = NoHeader
            /\ FormatFromContentType(payload_header) # NoHeader
            -> FormatFromContentType(payload_header)
      [] OTHER -> DetectPayloadFormat(doc)

\* negotiate_format: of the ranges of an Accept header the first of those with
\* the highest weight that names a format; */* names the default.  A weight of
\* zero does not exclude a format.
NegotiateFormat(accept, default) ==
    LET named == SelectSeq(accept, LAMBDA range : range.media # "unknown")
        best  == SelectInSeq(named, LAMBDA range :
                                \A k \in DOMAIN named : named[k].q <= range.q)
    IN  CASE best = 0                     -> default
          [] best # 0 /\ named[best].media = "any" -> default
          [] OTHER                        -> named[best].media

ValidMimVersion(header) == header \in {NoHeader, MimVersion}
=============================================================================
