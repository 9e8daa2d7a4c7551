---------------------------- MODULE ZtdfPackages ----------------------------
(***************************************************************************)
(* ZTDF packages: a payload encrypted under a content key, the key wrapped *)
(* for a key access service, and a manifest with the payload's label under *)
(* an NMBS signature (crates/mim-ztdf/src, and the labelled exchange that  *)
(* crates/mim-dcs/src/labeled_exchange.rs makes of a store).               *)
(*                                                                         *)
(* A ciphertext is what it hides and the key it hides it with.             *)
(***************************************************************************)
EXTENDS LabelBindings

CONSTANTS NoDigest, NoKey \* the empty digest and the all-zero content key of a sealed package

Cipher(cek, plaintext)   == [key |-> cek, hides |-> plaintext]
WrappedKey(kas, cek)     == [kas |-> kas, key |-> cek]

\* ZtdfAssertion::from_label and ZtdfManifest::for_mim_payload.  The label
\* is in the manifest twice: as JSON, which readers go by, and as the XML that is
\* signed.
ManifestAssertion(l, plaintext, signer) ==
    LET a == Assertion(l, plaintext, signer)
    IN  [id |-> "nato-label-1", schema |-> "stanag4774", method |-> "nmb",
         statement |-> ToJson(l), key_id |-> a.key_id, signature |-> a.signature,
         signed |-> a.signed]

ZtdfManifest(l, plaintext, cek, signer, kas) ==
    [version |-> "1.0.0", is_encrypted |-> TRUE, algorithm |-> "AES-256-GCM",
     wrapped |-> WrappedKey(kas, cek),
     assertions |-> <<ManifestAssertion(l, plaintext, signer)>>]

\* nato_label_assertion: the first of its name.
NatoLabels(m)         == {k \in DOMAIN m.assertions : m.assertions[k].id = "nato-label-1"}
NatoLabelAssertion(m) == m.assertions[Min(NatoLabels(m))]

ManifestIsValid(m) ==
    /\ m.version = "1.0.0" /\ m.is_encrypted /\ m.algorithm = "AES-256-GCM"
    /\ NatoLabels(m) # {}
    /\ NatoLabelAssertion(m).schema = "stanag4774"
    /\ NatoLabelAssertion(m).method = "nmb"

\* label_from_manifest and manifest_label.
ManifestLabel(m)      == FromJson(NatoLabelAssertion(m).statement)
HasManifestLabel(m)   == NatoLabels(m) # {} /\ IsValid(ManifestLabel(m))

-----------------------------------------------------------------------------
(* ZtdfPackage.                                                             *)

ZtdfPackage(manifest, payload, key, bdo) ==
    [manifest |-> manifest, payload |-> payload, content_key |-> key, binding |-> bdo]

\* create, where the label can be bound; it signs the plaintext for the manifest
\* and once more for the binding, which it verifies.
CanPackage(l) == CanAssert(l)

CreatedPackage(l, plaintext, cek, signer, kas) ==
    ZtdfPackage(ZtdfManifest(l, plaintext, cek, signer, kas), Cipher(cek, plaintext), cek,
                BindingDataObject("assertion_bound", l, plaintext,
                                  Assertion(l, plaintext, signer)))

\* The assertion of a package that has been through a ZIP; its digest is left
\* empty for whoever opens it.
AssertionOfManifest(m, digest) ==
    LET a == NatoLabelAssertion(m)
    IN  [label |-> ManifestLabel(m), digest |-> digest, key_id |-> a.key_id,
         signed |-> a.signed, signature |-> a.signature]

\* to_zip_bytes: the content key and the binding stay behind.
Zipped(p) == [manifest |-> p.manifest, payload |-> p.payload]

\* from_zip_sealed.
Opens(zip) == ManifestIsValid(zip.manifest) /\ HasManifestLabel(zip.manifest)

Sealed(zip) ==
    LET l   == ManifestLabel(zip.manifest)
        bdo == BindingDataObject("assertion_bound", l, NoDigest,
                                 AssertionOfManifest(zip.manifest, NoDigest))
    IN  ZtdfPackage(zip.manifest, zip.payload, NoKey, bdo)

\* verify_binding_plaintext: the binding's assertion if it has a digest, else the
\* manifest's with the digest of the plaintext.
BindingVerifies(p, plaintext, key) ==
    IF p.binding.assertion # NoAssertion /\ p.binding.assertion.digest # NoDigest
    THEN AssertionVerifies(p.binding.assertion, plaintext, key)
    ELSE /\ HasManifestLabel(p.manifest)
         /\ AssertionVerifies(AssertionOfManifest(p.manifest, Digest(plaintext)), plaintext, key)

ReleaseVerifies(p, plaintext, key) ==
    ManifestIsValid(p.manifest) /\ BindingVerifies(p, plaintext, key)

-----------------------------------------------------------------------------
(* Decryption.  A key access service is the private key it holds; over HTTP *)
(* an answer other than 200 or a key that is not one of 32 bytes fails too. *)

Unwraps(kas, p)    == p.manifest.wrapped.kas = kas
Decrypts(kas, p)   == Unwraps(kas, p) /\ p.manifest.wrapped.key = p.payload.key
Plaintext(p)       == p.payload.hides

\* Slip: the key access service is left to decide.
MayDecryptAnyway(p, subject, domain) == HasManifestLabel(p.manifest)

\* decrypt_with_policy: the enforcement point, then the key.
MayDecrypt(p, subject, domain) ==
    HasManifestLabel(p.manifest) /\ MayAccess(subject, Resource(ManifestLabel(p.manifest)), domain)

\* verify and from_zip_bytes: without the enforcement point.
PackageVerifies(p, key, kas) ==
    /\ ManifestIsValid(p.manifest)
    /\ Decrypts(kas, p)
    /\ BindingVerifies(p, Plaintext(p), key)

\* LabeledMimExchange::build.
CanExchangeLabelled(l) == IsValid(l) /\ CanAssert(l)

LabelledExchange(l, payload, cek, signer, kas, include_ztdf) ==
    [label |-> l, label_xml |-> ToXml(l), mim_json |-> payload,
     binding |-> BindingDataObject("assertion_bound", l, payload, Assertion(l, payload, signer)),
     ztdf_manifest |->
        IF include_ztdf THEN <<CreatedPackage(l, payload, cek, signer, kas).manifest>> ELSE <<>>]
=============================================================================
