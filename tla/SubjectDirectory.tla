-------------------------- MODULE SubjectDirectory --------------------------
(***************************************************************************)
(* Who a request is made by: the TLS listener, the headers it leaves on a  *)
(* request, the order in which they are looked at, and the directory that  *)
(* turns a name into a subject (crates/mim-transport-http/src/identity.rs  *)
(* and server.rs, crates/mim-policy/src/subject_resolver.rs, ldap_pip.rs,  *)
(* live_ldap.rs and saml_pip.rs, crates/mim-transport/src/federation.rs).  *)
(*                                                                         *)
(* A name stands for its spellings: the directory trims it and lowers its  *)
(* case.                                                                   *)
(***************************************************************************)
EXTENDS PolicyDecision, Sequences

CONSTANTS
    DefaultPrincipal, \* the principal uid={cn},ou=operators,... for each name
    Nobody            \* no such header, certificate, mapping or fallback

\* The answer to a question about a name, and the ways there may be none.
Found(subject)   == [result |-> "found", subject |-> subject]
NoSubject(error) == [result |-> error, subject |-> Nobody]

IsFound(answer) == answer.result = "found"

-----------------------------------------------------------------------------
(* LdapSubjectDirectory.  An entry is the subject it describes; one whose   *)
(* clearance cannot be parsed describes Nobody.  A live directory answers   *)
(* with the entries its server finds, of which the first counts.            *)

Directory(fixture, entries, ids, cns, fingerprints, live) ==
    [fixture |-> fixture,           \* fixture_mode
     entries |-> entries,           \* principal -> subject, of the entries file
     ids |-> ids,                   \* subject_id -> principal of the first entry with it
     cns |-> cns,                   \* cert_mappings
     fingerprints |-> fingerprints, \* cert_fingerprint_mappings
     live |-> live]                 \* principal -> what the server answers, when it does

ToSubjectAttributes(entry) == IF entry = Nobody THEN NoSubject("invalid") ELSE Found(entry)

\* search_principal: a server that cannot be reached, or whose entry lacks the
\* clearance, makes the lookup invalid; one that finds nothing, not found.
SearchPrincipal(d, principal) ==
    CASE principal \notin DOMAIN d.live  -> NoSubject("invalid")
      [] principal \in DOMAIN d.live /\ d.live[principal] = <<>> -> NoSubject("not_found")
      [] OTHER -> ToSubjectAttributes(Head(d.live[principal]))

ResolvePrincipal(d, name) ==
    CASE ~d.fixture -> SearchPrincipal(d, name)
      [] d.fixture /\ name \in DOMAIN d.entries -> ToSubjectAttributes(d.entries[name])
      [] d.fixture /\ name \notin DOMAIN d.entries /\ name \in DOMAIN d.ids
            -> ToSubjectAttributes(d.entries[d.ids[name]])
      [] OTHER -> NoSubject("not_found")

ResolveCertCn(d, cn) ==
    ResolvePrincipal(d, IF cn \in DOMAIN d.cns THEN d.cns[cn] ELSE DefaultPrincipal[cn])

ResolveCertFingerprint(d, fingerprint) ==
    IF fingerprint \in DOMAIN d.fingerprints
    THEN ResolvePrincipal(d, d.fingerprints[fingerprint]) ELSE NoSubject("not_found")

ResolveCertCnOrPrincipal(d, name) ==
    IF name \notin DOMAIN d.cns /\ name \in DOMAIN d.entries \cup DOMAIN d.ids
    THEN ResolvePrincipal(d, name) ELSE ResolveCertCn(d, name)

\* SubjectResolver::resolve, without a fallback of its own: a name that looks
\* like a fingerprint is tried as one first, and whatever fails is not found.
Resolve(d, name) ==
    LET direct == ResolveCertFingerprint(d, name)
        named  == ResolveCertCnOrPrincipal(d, name)
    IN  CASE IsFound(direct) -> direct
          [] ~IsFound(direct) /\ IsFound(named) -> named
          [] OTHER -> NoSubject("not_found")

-----------------------------------------------------------------------------
(* A request's credentials, as the routes see them.  A bearer token is the  *)
(* subject its claims describe, or Nobody when they cannot be read.         *)

Header == {"bearer", "principal", "cert_sha256", "client_cn", "tls_cn"}

Anonymous == [h \in Header |-> None]

\* accept_loop: the certificate of the peer overwrites two headers of every
\* request on its connection; without a client CA a peer has none.
Certificate(cn, fingerprint) == [cn |-> cn, fingerprint |-> fingerprint]

AcceptLoop(headers, peer) ==
    IF peer = Nobody THEN headers
    ELSE [headers EXCEPT !.tls_cn = peer.cn, !.cert_sha256 = peer.fingerprint]

\* resolve_request_subject: the first credential there is decides, whether or
\* not it can be resolved.  Of the certificate the name is only reached when no
\* header has the fingerprint.
ResolveRequestSubject(d, headers) ==
    CASE headers.bearer # None -> ToSubjectAttributes(headers.bearer)
      [] headers.bearer = None /\ headers.principal # None -> Resolve(d, headers.principal)
      [] headers.bearer = None /\ headers.principal = None /\ headers.cert_sha256 # None
            -> ResolveCertFingerprint(d, headers.cert_sha256)
      [] \A h \in {"bearer", "principal", "cert_sha256"} : headers[h] = None ->
            CASE headers.client_cn # None -> Resolve(d, headers.client_cn)
              [] headers.client_cn = None /\ headers.tls_cn # None -> Resolve(d, headers.tls_cn)
              [] OTHER -> NoSubject("not_found")

-----------------------------------------------------------------------------
(* HttpExchangeConfig and FederationConfig.                                 *)

ServerMode == {"lab", "coalition", "production"}

Federation(require_client_auth, client_ca) ==
    [require_client_auth |-> require_client_auth, client_ca |-> client_ca]

\* conformance, coalition_exercise and for_mode.  Without a federation config
\* the environment decides whether an identity is required.
ServerConfig(mode, federation, environment, analyst) ==
    [require_client_identity |->
        CASE mode = "lab" -> FALSE
          [] mode = "coalition" -> TRUE
          [] mode = "production" /\ federation = Nobody -> environment
          [] OTHER -> federation.require_client_auth,
     fallback |-> IF mode = "lab" THEN analyst ELSE Nobody]

\* with_federation and with_client_ca: a peer must show a certificate in production
\* when the federation config has a client CA.
AsksForCertificate(mode, federation) == mode = "production" /\ federation.client_ca

\* resolve_subject_for_request: where identity is not required the fallback
\* stands in for whatever could not be resolved, a bad credential included.
ResolveForRequest(d, config, headers) ==
    LET resolved == ResolveRequestSubject(d, headers)
    IN  IF ~IsFound(resolved) /\ config.fallback # Nobody /\ ~config.require_client_identity
        THEN Found(config.fallback) ELSE resolved
=============================================================================
