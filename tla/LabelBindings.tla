---------------------------- MODULE LabelBindings ----------------------------
(***************************************************************************)
(* STANAG 4778: a label bound to a payload, as a binding data object, as   *)
(* the REST envelope an object travels in, as a mail header, or apart from *)
(* it (crates/mim-stanag4778/src), under the signatures of the NMBS keys   *)
(* (crates/mim-crypto/src).                                                *)
(*                                                                         *)
(* A digest is the payload it is of, and a signature is who signed what:   *)
(* nobody else can make it, and of two payloads no two digests agree.      *)
(***************************************************************************)
EXTENDS LabelCodecs

CONSTANTS
    Defaults,   \* the built-in SPIF registry, of which NATO's is here
    NoAssertion \* a binding without the signed assertion

\* SpifPolicy::nato: the levels from UNCLASSIFIED, and the countries the built-in
\* list names.
NatoSpif(countries) ==
    [policy_id |-> NATO, allowed_classifications |-> Unclassified..MaxLevel,
     categories |-> (RELEASABLE :> [category_type |-> "permissive", allowed_values |-> countries]),
     validations |-> {}]

\* A label under the built-in policies, which look at every category.
SpifPermits(c, policy) ==
    /\ c.tag_name \in DOMAIN policy.categories
    /\ policy.categories[c.tag_name].category_type = c.category_type
    /\ LET allowed == policy.categories[c.tag_name].allowed_values
       IN  allowed = {} \/ c.values \subseteq allowed

SpifRequires(l, rule) ==
    rule.classification = l.classification =>
        \E c \in ToSet(l.categories) :
            c.tag_name = rule.category_name /\ c.values \cap rule.required_any_of # {}

SpifValid(l) ==
    /\ IsValid(l)
    /\ l.policy.identifier \in DOMAIN Defaults
    /\ LET policy == Defaults[l.policy.identifier]
       IN  /\ l.classification \in policy.allowed_classifications
           /\ \A c \in ToSet(l.categories) : SpifPermits(c, policy)
           /\ \A rule \in policy.validations : SpifRequires(l, rule)

-----------------------------------------------------------------------------
(* NMBS assertions.                                                         *)

Digest(payload) == payload

SignNmbBinding(key, label_text, digest) == [key |-> key, over |-> <<label_text, digest>>]

\* verify_nmb_binding, with the key that key_id names.
VerifyNmbBinding(key, label_text, digest, signature) ==
    signature = SignNmbBinding(key, label_text, digest)

CanAssert(l) == IsValid(l) /\ SpifValid(l)

Assertion(l, payload, key) ==
    [label |-> l, digest |-> Digest(payload), key_id |-> key, signed |-> ToXml(l),
     signature |-> SignNmbBinding(key, ToXml(l), Digest(payload))]

\* Slip: the digest is believed.
AssertionTaken(a, payload, key) ==
    /\ SpifValid(a.label)
    /\ a.key_id = key
    /\ VerifyNmbBinding(key, a.signed, a.digest, a.signature)

\* AssertionBinding::verify.  What is signed is the label's text; the label
\* beside it is validated and not compared with the text.
AssertionVerifies(a, payload, key) ==
    /\ SpifValid(a.label)
    /\ a.digest = Digest(payload)
    /\ a.key_id = key
    /\ VerifyNmbBinding(key, a.signed, a.digest, a.signature)

-----------------------------------------------------------------------------
(* Binding data objects.                                                    *)

\* The constructors' bindings; xml_embedded is encapsulated without a digest.
Binding(method, profile, digest) == [method |-> method, profile |-> profile, data |-> digest]

BindingKind == {"embedded", "xml_embedded", "encapsulated", "detached", "assertion_bound"}

MetadataBinding(kind, payload) ==
    CASE kind = "embedded"        -> Binding("embedded", "JsonSidecar", None)
      [] kind = "xml_embedded"    -> Binding("encapsulated", "XmlEmbedded", None)
      [] kind = "encapsulated"    -> Binding("encapsulated", "XmlEmbedded", Digest(payload))
      [] kind = "detached"        -> Binding("detached", "JsonSidecar", Digest(payload))
      [] kind = "assertion_bound" -> Binding("assertion", "ZtdfAssertion", None)

\* Bound: every kind asks the validator, assertion_bound through its assertion.
CanBind(l) == SpifValid(l)

BindingDataObject(kind, l, payload, assertion) ==
    [binding |-> MetadataBinding(kind, payload), label |-> l,
     encoding |-> IF kind = "embedded" THEN ToJson(l) ELSE ToXml(l),
     digest |-> Digest(payload), assertion |-> assertion]

\* verify_detached_label: of the label found apart only the policy's name and
\* the classification are compared.
DetachedAgrees(l, external) ==
    /\ IsValid(FromXml(external))
    /\ FromXml(external).policy.identifier = l.policy.identifier
    /\ FromXml(external).classification = l.classification

\* BindingDataObject::verify_with_resolver; external is the text the resolver
\* finds for a detached label.
BdoVerifies(bdo, payload, key, external) ==
    /\ IsValid(bdo.label)
    /\ bdo.digest = Digest(payload)
    /\ bdo.binding.data \in {None, Digest(payload)}
    /\ bdo.assertion # NoAssertion => AssertionVerifies(bdo.assertion, payload, key)
    /\ CASE bdo.binding.method = "assertion" -> bdo.assertion # NoAssertion
         [] bdo.binding.method = "detached"  -> /\ DetachedAgrees(bdo.label, external)
                                                /\ SpifValid(bdo.label)
         [] OTHER -> SpifValid(bdo.label)

-----------------------------------------------------------------------------
(* REST envelope and mail header.                                           *)

RestEnvelope(method, text, payload, digest, assertion) ==
    [binding |-> Binding(method, "RestEnvelope", digest), originator |-> text,
     digest |-> digest, payload |-> payload, assertion |-> assertion]

WrapRest(l, payload, key) ==
    RestEnvelope("assertion", ToXml(l), payload, Digest(payload), Assertion(l, payload, key))

RestFromBdo(bdo, payload) ==
    RestEnvelope(bdo.binding.method, bdo.encoding, payload, bdo.digest, bdo.assertion)

\* Neither the originator's label nor the payload's own is compared with the
\* label of the assertion.
RestVerifies(e, key) ==
    /\ e.digest = Digest(e.payload)
    /\ e.assertion # NoAssertion
    /\ AssertionVerifies(e.assertion, e.payload, key)

SmtpHeader(l, payload, key) ==
    [encoding |-> ToXml(l), digest |-> Digest(payload), assertion |-> Assertion(l, payload, key)]

SmtpVerifies(h, payload, key) ==
    h.digest = Digest(payload) /\ AssertionVerifies(h.assertion, payload, key)
=============================================================================
