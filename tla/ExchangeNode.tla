---------------------------- MODULE ExchangeNode ----------------------------
(***************************************************************************)
(* One MIP4-IES exchange node: its REST handlers from the request to the   *)
(* answer (crates/mim-transport-http/src/routes.rs), the secured broker    *)
(* behind them (crates/mim-transport/src/secured.rs), a client that pages  *)
(* through a query, and the release of its content across the guard as a   *)
(* ZTDF package that readers of another domain open                        *)
(* (crates/mim-dcs/src/labeled_exchange.rs and transfer.rs).               *)
(*                                                                         *)
(* A handler holds the broker's lock from its decision to its answer, so   *)
(* a request is one step.  An instance is the broker's content under its   *)
(* OID; the store keeps the order of the first puts, as an IndexMap does.  *)
(***************************************************************************)
EXTENDS BrokerState, ObjectQueries, ZtdfPackages, SubjectDirectory

CONSTANTS
    PutRequest, OidRequest, QueryRequest, \* the requests that clients send about objects
    Reader,          \* and those of which only who sends them matters
    ReleaseRequest,  \* a label and the kind of binding that an operator releases under
    Own,             \* instances the node publishes itself, in this order
    TheFederation, TheDirectory, Config, TrustedKey,
    NodeDomain, TargetDomain, NodeSubject, NodeKey, Kas,
    PageSize,        \* the limit of a client that pages
    NoWalk, NoPackage,
    MaxJournal,      \* bound: changes of the store
    ReleaseBy        \* bound: changes of the store before its release

\* What an operator's label is to the guard.
IsLabel(l) ==
    /\ {"classification", "categories"} \subseteq DOMAIN l
    /\ l.classification \in Level
    /\ l.categories \in Seq([tag_name: CategoryName, category_type: CategoryType,
                             values: SUBSET (Country \cup Caveat)])

ASSUME NodeAssumption ==
    /\ NoSecurity = Unmarked /\ PageSize \in Nat \ {0}
    /\ MaxJournal \in Nat /\ ReleaseBy \in Nat
    /\ \A i \in ValidInstance : i.oid \in Oid
    /\ Own \in Seq(Instance)
    /\ TargetDomain \in Domain
    /\ NoParameter \notin Nat
    /\ \A r \in QueryRequest :
          {r.query.offset, r.query.limit} \subseteq Nat \cup {NoParameter}
    /\ \A r \in ReleaseRequest : IsLabel(r.label)

VARIABLES
    client_ca, \* whether the listener asks for certificates; never changes
    broker,    \* the broker behind the lock
    answer,    \* the last answer and who it went to
    walk,      \* a client's walk through the pages of a query
    package,   \* what was released: the zip, and the label the guard put on it
    marked     \* what the last accepted envelope of each object was labelled

vars == <<client_ca, broker, answer, walk, package, marked>>

-----------------------------------------------------------------------------
(* The secured broker.                                                      *)

ResourceOf(i)         == Resource(LabelFromSecurity(i.security))
Permits(subject, i)   == LabelReadable(i.security) /\ MayAccess(subject, ResourceOf(i), NodeDomain)

\* Slip: an object that is put again goes to the end.
OrderOfLastPuts(b) ==
    FoldLeft(LAMBDA order, e :
                IF e.operation = "PutObject"
                THEN Append(SelectSeq(order, LAMBDA o : o # e.oid), e.oid) ELSE order,
             <<>>, b.journal)

\* The order of the store after each entry of the journal, and now.
Ordering(b) ==
    LET order[k \in 0..Len(b.journal)] ==
            IF k = 0 THEN <<>>
            ELSE LET before == order[k - 1]
                     o      == b.journal[k].oid
                 IN  IF o \in ToSet(before) THEN before ELSE Append(before, o)
    IN  order

StoredOrder(b) == Ordering(b)[Len(b.journal)]

\* The status of each kind of TransportError: map_error behind map_policy_error.
\* A label that cannot be read or is not valid is a bad request.
WriteRefusal(b, subject, i) ==
    IF ~LabelReadable(i.security) \/ ~ValidLabel(ResourceOf(i)) THEN 400
    ELSE IF ~Permits(subject, i) THEN 403
    ELSE IF i \notin ValidInstance THEN 400
    ELSE 201

ReadRefusal(b, subject, o) ==
    IF o \in b.inactive THEN 410
    ELSE IF o \notin Stored(b) THEN 404
    ELSE IF ~ValidLabel(ResourceOf(b.store[o])) THEN 400
    ELSE IF ~Permits(subject, b.store[o]) THEN 403
    ELSE 200

Readable(b, subject) == {o \in Oid : ReadRefusal(b, subject, o) = 200}

\* get_by_filter: the page is cut from every active match, and total counts them.
Selected(b, q) == {o \in Active(b) : Selects(q, b.store[o])}
Matches(b, q)  == Only(StoredOrder(b), Selected(b, q))
Page(b, q)     == Paginate(Matches(b, q), IF q.offset = NoParameter THEN 0 ELSE q.offset, q.limit)

\* Slip: who the node is, not who asks, decides.
PermittedToNode(b, subject, q) ==
    Only(Page(b, q), {o \in Stored(b) : Permits(NodeSubject, b.store[o])})

\* get_by_filter_as: what the subject may not read is left out of its page.
PermittedPage(b, subject, q) ==
    Only(Page(b, q), {o \in Stored(b) : Permits(subject, b.store[o])})

\* sync_since_as from the beginning: deletes are told to everyone, puts to those
\* who may read the object now.
VisibleEntries(b, subject) ==
    {e \in SyncSince(b, 0) : e.operation = "DeleteObject" \/ e.oid \in Readable(b, subject)}

-----------------------------------------------------------------------------
(* Requests and answers.                                                    *)

\* build_server_config: a client has to show a certificate, or is not asked for one.
Connects(r)   == client_ca <=> r.peer # Nobody

HeadersOf(r)  == AcceptLoop(r.headers, r.peer)
SubjectOf(r)  == ResolveForRequest(TheDirectory, Config, HeadersOf(r))
NotResolved(found) == IF found.result = "invalid" THEN 400 ELSE 403

Body(oids, instances, total) == [oids |-> oids, instances |-> instances, total |-> total]
NoBody == Body({}, <<>>, 0)

Answered(request, subject, status, body) ==
    [to |-> subject, headers |-> HeadersOf(request), status |-> status, body |-> body,
     released |-> FALSE]

Refusal(status) ==
    [to |-> Nobody, headers |-> Anonymous, status |-> status, body |-> NoBody,
     released |-> FALSE]

\* An answer in XML or JSON-LD is the instances and nothing around them.
InstancesBody(b, oids, format, total) ==
    Body(ToSet(oids), [k \in DOMAIN oids |-> Written(b.store[oids[k]], format)],
         IF format = "json" THEN total ELSE 0)

\* handle_put, up to the lock: 0 when nothing is wrong so far.
EnvelopeRefusal(r) ==
    LET e      == r.envelope
        format == PayloadFormat(r.content_type, r.payload_header, e.payload)
    IN  IF ~ValidMimVersion(r.version) THEN 400
        ELSE IF e.assertion = NoAssertion THEN 403
        ELSE IF e.assertion.key_id \notin TrustedKey THEN 400
        ELSE IF r.label_header # e.originator THEN 403
        ELSE IF ~RestVerifies(e, e.assertion.key_id) THEN 403
        ELSE IF ~DeserializesInstance(e.payload, format) THEN 422
        ELSE IF ~IsFound(SubjectOf(r)) THEN NotResolved(SubjectOf(r))
        ELSE 0

-----------------------------------------------------------------------------
(* A client that pages, told by offset and total where it is.               *)

\* What the walk can be held to: base is what its reader could read on every
\* page so far, and shrunk tells that a match has gone.
WalkOn(b) ==
    IF walk = NoWalk THEN NoWalk
    ELSE [walk EXCEPT !.base = @ \cap Readable(b, walk.subject) \cap ToSet(Matches(b, walk.query)),
                      !.shrunk = @ \/ ~(ToSet(Matches(broker, walk.query))
                                            \subseteq ToSet(Matches(b, walk.query)))]

-----------------------------------------------------------------------------
(* Actions.                                                                 *)

Init ==
    /\ \E mode \in ServerMode : client_ca = AsksForCertificate(mode, TheFederation)
    /\ broker = NewBroker
    /\ answer = Refusal(0)
    /\ walk = NoWalk
    /\ package = NoPackage
    /\ marked = [o \in Oid |-> None]

Changes(b) == Len(b.journal) <= MaxJournal

\* put_object and handle_put; the webhooks of an accepted put are in Federation.
Put(r) ==
    LET early  == EnvelopeRefusal(r)
        i      == DeserializedInstance(r.envelope.payload)
        status == IF early # 0 THEN early ELSE WriteRefusal(broker, SubjectOf(r).subject, i)
    IN  /\ Connects(r)
        /\ UNCHANGED <<client_ca, package>>
        /\ IF status = 201
           THEN /\ broker' = PutObject(broker, i.oid, i)
                /\ Changes(broker')
                /\ answer' = Answered(r, SubjectOf(r).subject, 201, NoBody)
                /\ walk' = WalkOn(broker')
                /\ marked' = [marked EXCEPT ![i.oid] =
                                  r.envelope.assertion.label.classification]
           ELSE /\ answer' = Refusal(status)
                /\ UNCHANGED <<broker, walk, marked>>

\* publish_store under the subject of the node, of instances that did not come
\* in an envelope: the first that is refused ends it.
Published(b) ==
    LET stored == {k \in DOMAIN Own :
                      \A j \in 1..k : WriteRefusal(b, NodeSubject, Own[j]) = 201}
        after[k \in 0..Len(Own)] ==
            IF k = 0 THEN b
            ELSE LET before == after[k - 1]
                 IN  IF k \in stored THEN PutObject(before, Own[k].oid, Own[k]) ELSE before
    IN  after

PublishOwn ==
    /\ broker.journal = <<>>
    /\ broker' = Published(broker)[Len(Own)]
    /\ walk' = WalkOn(broker')
    /\ UNCHANGED <<client_ca, answer, package, marked>>

\* get_by_oid.
Get(r) ==
    LET found  == SubjectOf(r)
        status == IF ~ValidMimVersion(r.version) THEN 400
                  ELSE IF ~IsFound(found) THEN NotResolved(found)
                  ELSE ReadRefusal(broker, found.subject, r.oid)
    IN  /\ Connects(r)
        /\ answer' = IF status = 200
                     THEN Answered(r, found.subject, 200,
                                   InstancesBody(broker, <<r.oid>>,
                                                 NegotiateFormat(r.accept, "json"), 1))
                     ELSE Refusal(status)
        /\ UNCHANGED <<client_ca, broker, walk, package, marked>>

\* delete_object: the version of the request is not looked at.
Delete(r) ==
    LET found  == SubjectOf(r)
        status == IF ~IsFound(found) THEN NotResolved(found)
                  ELSE ReadRefusal(broker, found.subject, r.oid)
    IN  /\ Connects(r)
        /\ UNCHANGED <<client_ca, package, marked>>
        /\ IF status = 200
           THEN /\ broker' = DeleteObject(broker, r.oid)
                /\ Changes(broker')
                /\ answer' = Answered(r, found.subject, 200, NoBody)
                /\ walk' = WalkOn(broker')
           ELSE /\ answer' = Refusal(status)
                /\ UNCHANGED <<broker, walk>>

\* get_by_filter answering q, which may be the next page of a walk.
QueryAnswer(r, q) ==
    LET found == SubjectOf(r)
    IN  IF ~Asks(q) THEN Refusal(400)
        ELSE IF ~IsFound(found) THEN Refusal(NotResolved(found))
        ELSE Answered(r, found.subject, 200,
                      InstancesBody(broker, PermittedPage(broker, found.subject, q),
                                    NegotiateFormat(r.accept, "json"),
                                    Len(Matches(broker, q))))

GetByFilter(r) ==
    /\ Connects(r)
    /\ answer' = QueryAnswer(r, r.query)
    /\ UNCHANGED <<client_ca, broker, walk, package, marked>>

\* sync_changes.
Sync(r) ==
    LET found   == SubjectOf(r)
        visible == VisibleEntries(broker, found.subject)
        put     == {e \in visible : e.operation = "PutObject"}
    IN  /\ Connects(r)
        /\ answer' = IF ~IsFound(found) THEN Refusal(NotResolved(found))
                     ELSE Answered(r, found.subject, 200,
                                   Body({e.oid : e \in put}, <<>>, broker.sequence))
        /\ UNCHANGED <<client_ca, broker, walk, package, marked>>

StartWalk(r) ==
    /\ walk = NoWalk /\ Connects(r)
    /\ Asks(r.query) /\ IsFound(SubjectOf(r))
    /\ NegotiateFormat(r.accept, "json") = "json"
    /\ walk' = [request |-> r, query |-> r.query, subject |-> SubjectOf(r).subject,
                offset |-> 0, seen |-> {}, shrunk |-> FALSE, done |-> FALSE,
                base |-> Readable(broker, SubjectOf(r).subject)
                            \cap ToSet(Matches(broker, r.query))]
    /\ UNCHANGED <<client_ca, broker, answer, package, marked>>

\* The same query for the page from an offset on.
PageOf(q, offset) == Query(q.filter, q.class, q.name, q.value, offset, PageSize)

\* The walk ends with the page that reaches the total.
NextPage ==
    /\ walk # NoWalk /\ ~walk.done
    /\ answer' = QueryAnswer(walk.request, PageOf(walk.query, walk.offset))
    /\ walk' = [walk EXCEPT !.offset = @ + PageSize, !.seen = @ \cup answer'.body.oids,
                            !.done = walk.offset + PageSize >= answer'.body.total]
    /\ UNCHANGED <<client_ca, broker, package, marked>>

\* The guard evaluates a label for a subject of its own, cleared for that label.
GuardSubject(l) ==
    [clearance |-> l.classification, nationality |-> None, mission |-> None, caveats |-> {}]

\* downgraded_label_for_target on the whole label: what the guard decided of its
\* classification and its countries.
EffectiveLabel(l, decided) ==
    LET keep(c) == IF c.tag_name = RELEASABLE
                   THEN [c EXCEPT !.values = @ \cap decided.releasable] ELSE c
        kept    == [k \in DOMAIN l.categories |-> keep(l.categories[k])]
    IN  [l EXCEPT !.classification = decided.classification,
                  !.categories = Only(kept, {c \in ToSet(kept) : c.values # {}})]

\* LabeledMimExchange::build of the active objects, then CrossDomainTransfer's
\* execute: a binding without an assertion is refused, and so is what the guard
\* denies.  The label is the operator's, for the store as a whole.
Release(r) ==
    LET l       == r.label
        active  == Only(StoredOrder(broker), Active(broker))
        text    == SerializeStore([k \in DOMAIN active |-> broker.store[active[k]]], "json")
        inbound == BindingDataObject(r.binding, l, text, Assertion(l, text, NodeKey))
        decided == EvaluateCrossDomain(GuardSubject(l), Resource(l), NodeDomain, TargetDomain,
                                       TRUE)
        out     == EffectiveLabel(l, decided.label)
    IN  /\ package = NoPackage /\ active # <<>>
        /\ Len(broker.journal) <= ReleaseBy
        /\ CanExchangeLabelled(l)
        /\ inbound.binding.method = "assertion"
        /\ BdoVerifies(inbound, text, NodeKey, <<>>)
        /\ decided.effect \in {"permit", "downgrade"}
        /\ CanPackage(out)
        /\ package' = [zip |-> Zipped(CreatedPackage(out, text, 1, NodeKey, Kas)),
                       label |-> decided.label]
        /\ UNCHANGED <<client_ca, broker, answer, walk, marked>>

\* receive_ztdf_on_target: from_zip_sealed, decrypt_with_policy and the binding.
Open(r) ==
    LET found  == SubjectOf(r)
        sealed == Sealed(package.zip)
        text   == Plaintext(sealed)
    IN  /\ package # NoPackage
        /\ IsFound(found)
        /\ answer' = IF /\ Opens(package.zip)
                        /\ MayDecrypt(sealed, found.subject, TargetDomain)
                        /\ Decrypts(Kas, sealed)
                        /\ BindingVerifies(sealed, text, NodeKey)
                     THEN [Answered(r, found.subject, 200, Body({}, text.instances, 0))
                             EXCEPT !.released = TRUE]
                     ELSE Refusal(403)
        /\ UNCHANGED <<client_ca, broker, walk, package, marked>>

Next ==
    \/ \E r \in PutRequest : Put(r)
    \/ PublishOwn
    \/ \E r \in OidRequest : Get(r) \/ Delete(r)
    \/ \E r \in Reader : Sync(r) \/ Open(r)
    \/ \E r \in QueryRequest : GetByFilter(r) \/ StartWalk(r)
    \/ NextPage
    \/ \E r \in ReleaseRequest : Release(r)

Spec == Init /\ [][Next]_vars

-----------------------------------------------------------------------------
(* Properties.                                                              *)

\* A subject that a credential of the request names, by what the directory says
\* of it, or the one that stands in where no identity is required.
NamedBy(headers, subject) ==
    \/ subject = Config.fallback /\ ~Config.require_client_identity
    \/ headers.bearer = subject
    \/ \E h \in Header \ {"bearer"} :
          /\ headers[h] # None
          /\ Found(subject) \in {Resolve(TheDirectory, headers[h]),
                                ResolveCertFingerprint(TheDirectory, headers[h])}

\* Whoever is answered with an object, from a get, a page of a query or the
\* journal, is a subject that a credential of the request names, and may read the
\* object under the label it is stored with (routes.rs, identity.rs, secured.rs).
ReadersAreEntitled ==
    answer.status = 200 =>
        /\ NamedBy(answer.headers, answer.to)
        /\ \A o \in answer.body.oids : Permits(answer.to, broker.store[o])

\* Whoever opens a release is cleared, in the domain it was released to, for the
\* label the guard put on it: what the zip carries of that label, in the manifest's
\* JSON, is enough to tell (transfer.rs, package.rs, json.rs).
ReceiversAreCleared ==
    answer.released => MayAccess(answer.to, package.label, TargetDomain)

\* A client that pages by offset and limit until the total has had every object
\* its reader could read all along, although each page is cut before the objects
\* the reader may not see are taken out, and objects are put while it pages.  Only
\* a match that goes away can move another one past it (broker.rs, secured.rs).
PagesCoverReadable ==
    walk # NoWalk => (walk.done /\ ~walk.shrunk => walk.base \subseteq walk.seen)

\* What a trusted signer put in an envelope, as it comes back from that payload.
Signed ==
    {DeserializedInstance(r.envelope.payload) :
        r \in {q \in PutRequest :
                /\ q.envelope.assertion # NoAssertion
                /\ \E key \in TrustedKey :
                      q.envelope.assertion.signature
                        = SignNmbBinding(key, q.envelope.assertion.signed, q.envelope.payload)}}

\* Nothing is stored but what the node published itself and what a trusted signer
\* signed, to the last property (envelope.rs, rest_envelope.rs, assertion.rs).
StoredIsSigned == \A o \in Stored(broker) : broker.store[o] \in ToSet(Own) \cup Signed

\* docs/NATO-STANAG-SYSTEM.md:151 "PEP verifies operator clearance >= object
\* classification": whoever reads an object is cleared for the classification
\* that the envelope it came in was marked with (envelope.rs, serialize.rs).
OperatorsAreCleared ==
    answer.status = 200 =>
        \A o \in answer.body.oids :
            marked[o] # None => marked[o] <= answer.to.clearance
=============================================================================
