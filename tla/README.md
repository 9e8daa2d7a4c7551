# AINextGenC2 in TLA+

A verification project for `jblestang/AINextGenC2`: the MIP4-IES exchange broker,
its REST nodes and their federation, the labels, bindings and packages that
protect what is exchanged, the tamper-evident audit log, the cross-domain guard
from its configuration to its audit trail, and the model that instances are
validated with, from the ontology it is imported from. TLA+ modules model the
code under `src/`, TLC checks them on small instances, and TLAPS proves the
safety properties of the broker, the federation, the replication agent, the
exchange node, the log, the guard and its deployment, and the imported model for
every value of the constants.
`PROJECT.json` maps every definition to the lines it stands for and lists every
run, theorem, finding and hazard.

## 1. Inventory

| Component | State | Operations | Interacts with | Hard part |
|---|---|---|---|---|
| Exchange broker (`mim-transport/src/broker.rs`) | object store, inactive set, journal, `sequence`, `applied_sequence` | put, soft delete, bulk load, apply a journal entry, sync since n, filtered pages | everything that exchanges objects holds one | journal, store and cursor have to tell the same story; the counter saturates at `u64::MAX` |
| HTTP node, federation client, notify (`mim-transport-http`, `replication_notify.rs`) | a broker behind an async mutex; webhook list; publisher of the node | PUT, DELETE, GET, query, sync, notify handler | peers by HTTP; webhook threads; identity; the PEP | the notify handler clones, talks to the network without the lock, and writes the clone back |
| Replication agent (`replication.rs`, `remote.rs`) | none of its own | raw, secured and remote pull | two brokers | stops at a refused entry and keeps what it applied |
| Exchange persistence (`persistence.rs`) | a snapshot file | save, load, journal lines | a broker | the rule that invents a cursor for a snapshot that has none |
| Secured broker (`secured.rs`) | a broker and a PEP | the same operations for a subject | policy plane | a page is cut before it is filtered; deletes pass the filter, puts only if readable now |
| REST parsing and wire formats (`rest.rs`, `filter.rs`, `wire.rs`, `serialize.rs`) | none | negotiate, parse, write and read three formats, select, paginate | nodes, runtime | the formats do not keep the same parts of an instance |
| Identity and directories (`identity.rs`, `subject_resolver.rs`, `ldap_pip.rs`, `live_ldap.rs`, `saml_pip.rs`) | mappings and attributes | resolve a request's headers and certificate to a subject | nodes, PEP | five credentials in an order; a fallback where none is required |
| Labels, STANAG 4774 codecs (`mim-labeling`, `mim-stanag4774`, `pip.rs`) | values | make, validate, write as XML or JSON, read | everything that decides or signs | what an encoding leaves out, and what a reader adds |
| STANAG 4778 bindings (`mim-stanag4778`) | values | bind five ways, wrap for REST and mail, verify | nodes, guard, packages | which of several labels and digests is compared with which |
| ZTDF and KAS (`mim-ztdf`, `labeled_exchange.rs`) | a package | create, zip, seal, open, decrypt, verify | guard, policy plane | a sealed package has neither its key nor its digest; nothing is unwrapped before the policy gate |
| Policy plane (`mim-policy`) | domains, cross-domain rules, SPIF policies | access decision, cross-domain decision, downgrade, administration | nodes, guard, ZTDF | two decisions by different rules have to agree on what crosses |
| SPIF (`mim-spif`) | registry of policies | parse, register, validate a label | policy store, bindings | the parser's state between elements; a load that stops in the middle |
| Cross-domain guard and transfer (`mim-dcs`) | domain pair, PEP, accredited flag | configure, deploy, execute, receive | policy plane, log, bindings, ZTDF, KAS | each of some ten steps may fail; an accredited guard must not act unrecorded |
| Audit log (`mim-audit`) | hash chain, sink (memory, JSONL, write-once with sidecar) | record, open, reload, verify | guard, PEP, transport | record and seal are two critical sections; three writes per append may be cut anywhere |
| SIEM forwarding (`siem.rs`, `config.rs`) | none | forward to three destinations with retries | log, collectors | repeated and partial delivery |
| MIM import (`mim-import`) | an ontology, a report | read OWL, resolve domains, map, pad, merge, write a manifest | registry | passes that run while something changes; entries told apart by name after a change of names |
| MIM registry, runtime, compliance (`mim-model`, `mim-runtime`, `mim-compliance`, `stack.rs`) | taxonomy, elements, code lists | load, check integrity, climb, validate, evaluate | broker, nodes | a climb ends only if the manifest has no cycle |
| MIM core types, crypto and PKI, HTTP/TLS set-up, conformance suites, scenarios | keys, sockets | primitives and wiring | all | I/O |

What makes each of them correct:

- **Broker.** The journal is numbered by position; replayed, it yields exactly
  the readable objects; a poller that is up to date is told of every change.
- **Federation.** A consumer's cursor never claims an entry whose effect is not
  there, never moves back, and what clients fall silent on is eventually
  everywhere that may read it; nobody holds what the PEP would have withheld.
- **Replication.** The same for a pull that may stop in the middle and a
  consumer that restarts from an old snapshot.
- **Node.** Whoever is answered with an object is named by a credential of the
  request and may read it; nothing is stored that a trusted signer did not sign;
  a client that pages until the total has seen everything it may read.
- **Labels, bindings, packages.** What an encoding leaves out changes no
  decision; a binding holds for its payload and no other; a package opens for
  those who may read its payload under the label it was made with.
- **Guard.** Nothing crosses unrecorded, nothing crosses to be unreadable, the
  original label binds whoever reads the payload in the end; a deployment that is
  accredited anywhere in its file releases nothing it cannot account for.
- **Audit log.** What was acknowledged is in the file, in one chain, and vouched
  for by the sidecar, whatever stopped or failed in between; a forward that ends
  well has been delivered.
- **Model.** Resolution invents nothing, what is imported loads, what is reported
  is there, and validation asks for all that a class inherits, and ends.

## 2. Modules and their correspondence to the code

State machines:

| Module | Models | State and actions |
|---|---|---|
| `ExchangeBroker` | one broker in use | `broker`; `Put`, `Delete`, `Publish`, `ApplyRemoteEntry`. Every method takes `&mut self`, so each is one step. |
| `ObjectExchange` | abstract: what clients and peers are promised | `visible`, `feed`; a change and its announcement are one step. |
| `Federation` | nodes over HTTP | `broker[n]`, `notices[n]` (webhooks under way), `pull[n][h]` (notify handlers, at `clone`, `sync`, `fetch`); `ClientPut`, `ClientDelete`, `StartPull`/`CloneBroker`/`CommitPull` (the handler's three critical sections), `FetchSync` and `ReplicateEntry` (its requests), `LoseNotice`, `FailPull`. |
| `Replication` | in-process agent and persistence | `publisher`, `consumer`, `snapshot`; the pulls, each one step with the whole loop over the entries; `Save`, `Restart`. |
| `ExchangeNode` | every REST handler of one node from request to answer, a paging client, and the release of the store as a package | `broker`, `answer` (the last one and who it went to), `walk`, `package`; `Put`, `Get`, `Delete`, `GetByFilter`, `Sync`, `PublishOwn`, `StartWalk`/`NextPage`, `Release`, `Open`. A handler holds the lock from decision to answer, so a request is one step. |
| `AuditLog` | log and its three sinks | the chain in memory, `file`, `manifest` (sidecar), the WORM sink's `state`, `sealing[c]` (callers between the two halves of `record`); `Begin`, `Commit`, `AppendFails`, `ManifestFails`, `Crash`, `CrashInAppend`, `Open`, `Reload`. |
| `CrossDomainTransfer` | `execute` and `receive_ztdf_on_target` | `transfer`, `receipt` (where each call is), `audit`, `received`; one action per step that can fail on its own. |
| `GuardDeployment` | a guard from its configuration or SPIF registry to its trail at the SIEM | `prp` (policy store), `guard`, `log`, `released`, `forward`, `delivered`; `Configure`, `ConfigureFromSpif`, `RegisterDomain`, `AddRule`, `DropRule`, `Load`, `Redeploy`, `Transfer`, `StartForward`, `Deliver`, `Skip`, `Fail`. |
| `ModelImport` | a model from an ontology to the validator | `parser`, `report`, `registry`, `check`; `Read` (a declaration), `Resolve` (one turn of the resolution), `WriteManifest`, `Load`, `StartValidation`, `Climb`, `Conclude`. |

Values and pure algorithms they are built from:

| Module | Models |
|---|---|
| `BrokerState` | `ExchangeBroker` as a value: a record with the Rust fields, one operator per method. A value because the notify handler clones it. |
| `PolicyDecision` | the decision point, downgrade, label and domain predicates |
| `SpifPolicies` | parsing of a SPIF document, element by element, the registry, validation of labels |
| `PolicyStore` | policy retrieval and administration points; an operation that can be refused is an outcome `[ok, store]` |
| `LabelCodecs` | labels in full, security metadata, XML as a sequence of elements and its reader as a fold, structured JSON |
| `LabelBindings` | assertions, binding data objects, REST envelope, mail header |
| `ZtdfPackages` | packages, sealed reopening, the two ways to decrypt, labelled exchange |
| `SubjectDirectory` | what the listener leaves on a request, the order in which it is looked at, the directory |
| `InstanceWire` | instances in JSON, XML and JSON-LD, detection and negotiation of formats |
| `ObjectQueries` | query parameters, filter expressions, pagination |
| `OwlOntology`, `MimModel` | the OWL event parser, the two resolution passes; mapper, manifest, registry, compliance |
| `Loops` | the loop over a vector that keeps some of its elements (`filter`, a `BTreeSet` in its order), as a function of the turn |

Proofs: `BrokerStateProofs` (lemmas about the broker as a value),
`ExchangeBrokerProofs`, `FederationProofs`, `ReplicationProofs`,
`CrossDomainTransferProofs`, `GuardDeploymentProofs` (with the audit log, whose
definitions are named `Log...` for that), `ExchangeNodeProofs`, `ModelImportProofs`.
`MC*` modules give the constants for TLC. `MCExchangeNode` ends with aliases of its
constants so that TLC evaluates each once.

Composition. `Replication` and `Federation` compose brokers through
`BrokerState`; `ExchangeNode` puts a broker behind identity, wire formats,
envelopes and the decision point, and hands its content to packages;
`CrossDomainTransfer` composes the decision point with a log; `GuardDeployment`
has a transfer as one step, since `CrossDomainTransfer` has its steps.
`Federation` and `Replication` use the outcome of the PEP as a constant
(`Readable`), because a read decision there depends on the label alone.
`Federation`, `AuditLog`, `Replication` and `CrossDomainTransfer` pick their
deployment in `Init`, so that one run covers several.

Operators marked *Slip* state a plausible mistake in the definition that follows
them (a dropped guard, an off-by-one, a missing reset). They are used by no
specification; replacing the definition by its slip makes TLC find the property
named in `PROJECT.json` violated, which shows that the property depends on it.

Abstractions: an object is its content, a model value, except in `ExchangeNode`,
where it is an instance with class, properties and security metadata; a hash is
the list of everything hashed into it, so hashes are equal exactly when inputs
are, and so are signatures; a ciphertext is what it hides and the key it hides it
with; a file's length is its number of pieces; names are compared up to case, as
the domains do; a document is the sequence of the elements a reader tells apart.

## 3. Runs

| Run | Expect | What it shows |
|---|---|---|
| `broker` | pass | Clients, a bulk load with a refused instance and a replication agent on one broker, beyond the saturation of the counter: numbering, completeness of the journal, pollers, refinement of `ObjectExchange`. |
| `federation` | pass | A publisher and a consumer in four deployments: one handler over a faulty network, one over a sound network, two handlers at a time over a sound network, two at a consumer with clients of its own. In all of them: types, what a replica may hold, a cursor that is never ahead. In the serial ones: what the cursor covers, what a replica may lose, and, where nothing is lost, convergence. |
| `federation_lost_update` | violation | A PUT that the consumer acknowledged during a pull is gone when the clone is written back. |
| `replication` | pass | A secured agent with restarts, and a raw agent with local clients: cursor and convergence after a successful pull, with refused entries, re-reads from 0 and old snapshots. |
| `replication_reload` | violation | A consumer with objects of its own, saved before its first pull, reloads with its own sequence as cursor and skips the publisher's first entries. |
| `audit` | pass | Two callers over the three sinks: what the file and the sidecar still say of what was acknowledged, under interleaving, crashes, and writes that are cut, refused or fail to sign. |
| `cross_domain` | pass | Every label over thirteen deployments, with failing records and calls: recording, readability of what is released, and the origin's label at the receipt. |
| `guard_deployment` | pass | Eight configurations and three SPIF registries made into guards, administrative changes in any order, transfers whose records fail, forwards that fail and are retried. |
| `model_import` | pass | Every document of up to four of ten declarations, in every order, with three sets of options: read, resolved, imported, written, loaded and validated with. |
| `model_roots` | violation | A class named like the Action root becomes its parent's descendant and its ancestor; the climb to the root never ends. |
| `exchange_node` | pass | A node with and without client certificates: puts in three formats and every way to be refused, gets, deletes, pages, the journal, and a release that readers of the other domain open. |
| `node_xml_label` | violation | An object marked SECRET that is put in XML is stored without its marking, and a reader cleared for UNCLASSIFIED gets it. |

`MCExchangeNode` also states, as assumptions that TLC evaluates, what the pure
algorithms do on every label, instance and payload of the instance:
`WireKeepsInstances` (a format is recognised and read back), `XmlKeepsLabels`,
`JsonKeepsDecisions`, `SecurityKeepsDecisions`, `BindingsHoldTheirPayload` (every
kind of binding, both wrappers and the package verify for their payload and no
other), and `AlternativesLeak` (section 5).

The properties say in their comments which code they are about. Some hold under
a condition because the unconditional statement is false of the code:

- `CursorCovers`, `ReplicaIsKept` and `Converges` of `Federation` hold in *serial*
  deployments: one handler at a time and no writers at the consumer. With two
  handlers one reads its cursor, another commits, and the first writes back an
  older clone, or clones a broker whose cursor is no longer the one it asked from.
  The objects the other had pulled are gone, or skipped, and no notice is left that
  would bring them back, though nothing failed. This has the same cause as the lost
  update.
- `Converges` also asks that no POST is lost and no request fails: a notice is
  posted once and a failed pull is not tried again.
- `CursorNeverAhead` speaks of publishers that do not themselves pull. Where two
  nodes pull from each other, writing a clone back shortens the journal the other
  one's cursor already counts, and entries with those numbers are never asked
  for.
- `FileChainVerifies` speaks of logs that are reloaded and whose writes do not
  fail. `BufWriter` flushes once more when it is dropped, so an append that
  reported failure may leave its line, and the next record is sealed on the same
  predecessor.
- `AcknowledgedIsSealed` speaks of the write-once sink. The JSONL file is opened
  anew for every line, so after a write that was cut short the next line is
  written behind the fragment, acknowledged, and does not parse.
- `NatoGovernsReleasability` leaves out domains registered after the load, and
  `CategoriesAreKept` the categories that a SPIF lists between a validation and
  the next classification: the `classification` inside a validation leaves the
  parser inside a classification, which takes their names (`parser.rs:52-134`).
- `PagesCoverReadable` leaves out walks during which a match went away: what
  follows it moves up and out of the client's way.
- `OntologyIsKept` speaks of documents in which every name is declared once (a
  second mention of a property starts it afresh), nothing is nested (a property
  inside another element ends the one it is in), and only properties have a domain
  or range (one that a class element has is kept for the next property).
- `ImportsLoad` and `ComplianceIsEarned` speak of imports with `--merge`: without
  the core seed a manifest has parents that nobody declares.
- `ReportedIsLoaded` leaves out ontologies with two names that `to_pascal_case`
  makes one, of which the manifest keeps the later.

### Bounds

- Two objects suffice for the broker's and the federation's properties, each of
  which speaks of one object at a time; the second is there to be the other
  object. Contents come in the kinds the code tells apart (releasable before and
  after a revision, withheld, refused by the validator, the consumer's own).
- `federation`: five client requests over the faulty network, four over the
  sound one, three where two handlers overlap, with and without faults. The known
  counterexamples to the unconditional variants above take two or three: without
  its condition `Serial` each of the three properties is violated in this run,
  `Converges` in the deployment of two handlers over a sound network.
- `MaxSequence` is 4 in the broker's run (journals up to 6), so the saturated
  counter is reached, and beyond reach elsewhere, as 2^64 writes are.
- Two callers of the log suffice for an interleaving of the two halves of
  `record`; five records leave room for a crash, a failure and an acknowledged
  record on each side of them.
- Domains of the guard: with and without releasability, nationality list and
  compartment, below UNCLASSIFIED, and at a level the label's policy does not
  allow. Readers differ in clearance, nationality and caveat.
- `guard_deployment`: two administrative changes after the configuration reach
  every order of a load and a registration or rule; two transfers, one recorded
  and one not; one forward, whose destinations each fail up to the limit.
- `model_import`: four declarations are a property, the property it refines or
  is the inverse of, and their two classes; the ten to choose from include the
  twins and cycles the code does not rule out.
- `exchange_node`: four changes of a store of three objects with pages of one
  object, so that a walk has more pages than one and objects come and go between
  them; a release after the first change (`ReleaseBy` 1), because what it
  promises does not depend on what else is stored.

`CHECK_DEADLOCK FALSE` is set where the system stops because the bound is reached
or because nobody has anything to ask.

### Fairness

- `federation`: weak fairness of each handler's steps (`PullStep`). The runtime
  polls a spawned handler until it ends, and a POST that was not lost is
  delivered; `Converges` asks nothing of deployments with faults or
  with overlapping handlers. Clients owe nothing: there is no fairness on `ClientPut` and `ClientDelete`.
- `guard_deployment`: weak fairness of `ForwardStep`. The thread that forwards
  keeps running, and a connect or a write returns or fails; `siem.rs` sets no
  timeouts, so this is the operating system's promise and excludes a collector
  that accepts a connection and stops reading.
- `model_import`: weak fairness of `Resolve` and of `Climb`/`Conclude`: a loop
  that is entered goes on. `LoopsEnd` is about whether that is enough.

## 4. Proofs

### Broker (`ExchangeBrokerProofs`, `BrokerStateProofs`)

For every set of objects and contents, every width of the sequence counter and
journals of any length:

| Theorem | Property |
|---|---|
| `TypeCorrect` | `TypeOK` |
| `JournalIsNumbered` | `JournalNumbered` |
| `JournalIsComplete` | `JournalTellsActive` |
| `StoreFollowsJournal` | `StoreIsJournalled` |
| `DeletesFollowTheirPuts` | `DeletesFollowPuts` |
| `HistoryGrows` | `HistoryOnlyGrows` |
| `PollersMissNothing` | `ChangesReachPollers` |
| `Refinement` | `ImplementsExchange` |

Assumed: `BrokerAssumption` only (valid contents are contents, `NoInstance` is
none, the counter can hold 1). The argument: none of the invariants is inductive
alone. That a delete is preceded by a put of its object needs that everything
stored was put (`Journalled`), which needs that the inactive objects are stored;
that the journal tells the active objects needs both for the entry being
appended; numbering needs the type. `SoundBroker` is their conjunction. A broker
that goes from sound to sound by appending one entry for one object *announces*
it: each method either announces, announces twice (`publish_store`) or leaves
journal and view as they were, and the lemmas about announcing are proved once
and used by all the actions, by the two action properties and by the refinement,
whose mapping is `visible <- View(broker)`, `feed <- Feed(broker)`. `MaxJournal`
bounds TLC only; the theorems do not use it.

### Federation (`FederationProofs`)

For any number of nodes and handlers, any topology of publishers and webhooks,
any deployments:

| Theorem | Property |
|---|---|
| `TypeCorrect` | `TypeOK` |
| `ReplicasReadable` | `ReplicasAreReadable` |
| `CursorsStayBehind` | `CursorNeverAhead` |
| `SerialStaysInOrder` | (`SerialInv`, the invariant below) |
| `CursorsCover` | `CursorCovers` |
| `ReplicasAreKept` | `ReplicaIsKept` |

Assumed: `FederationAssumption`, `BrokerAssumption` and, for the last three,
`UnsaturatedAssumption` (no journal outgrows its counter of 2^64 - 1). The
invariant of the first three, `IInv`, says of every
broker, and of every clone a handler holds, that it is sound in the sense of
`BrokerStateProofs` and has only contents of its own clients or readable at the
publisher; and `Behind`: where the publisher does not pull, the cursor of the
broker, the cursors of the clones and the numbers of the entries a handler has
still to fetch are all at most the publisher's sequence. The clones are what makes
the properties themselves not inductive: `CommitPull` replaces the broker by one.
That the publisher's sequence only grows needs that nobody commits a clone there,
which is the condition of the property.

What a cursor covers depends on the order in which entries are applied, and on a
clone being a later state of its own broker. `SerialInv` says, of a serial
deployment, that each consumer *follows* its publisher (every object whose last
entry its cursor has passed is read alike or withheld), that a running handler's
clone is announced by its broker and follows the publisher too, and that what the
handler has fetched and not applied are entries of the publisher's journal, between
the clone's cursor and which nothing was left out that the consumer may read now.
Each of the three is needed by the others: a commit makes the clone the broker, and
an applied entry is the publisher's next only if nothing readable was skipped.
`FollowsOn`, `ApplyFollows` and `WithheldUnseen` of `BrokerStateProofs` say when
applying an entry, or skipping one, keeps a follower one. `ReplicasAreKept` is then
that every broker announces its next state.

### Replication (`ReplicationProofs`)

For any journal, any contents, any filtering and any setups:

| Theorem | Property |
|---|---|
| `AlwaysSound` | (`IInv`) |
| `TypeCorrect` | `TypeOK` |
| `CursorsCover` | `CursorCovers`, where `Coherent` |
| `PullsConverge` | `PullConverges`, where `Coherent` |

Assumed: the assumptions of `BrokerState` and `Replication`, among them
`UnsaturatedAssumption`. `Coherent` says that the consumer does not both put objects
of its own and restart: with both, `CursorCovers` is false, which is the finding of
`replication_reload`, and the run `replication` has setups of every other kind. The
invariant says that publisher, consumer and snapshot are sound and that the consumer,
and the snapshot it may restart from, follow the publisher. A pull is a loop over the
response, stated as the recursive function `Turns`; `PullGood` proves turn by turn
that the consumer follows up to the entry just reached, and stays where it was once
an entry failed.

### Guard deployment (`GuardDeploymentProofs`)

For any configuration, SPIF document of any length, registry, destination and
number of retries:

| Theorem | Property |
|---|---|
| `TypeCorrect` | `TypeOK` |
| `NatoGoverns` | `NatoGovernsReleasability` |
| `CategoriesKept` | `CategoriesAreKept` |
| `ReleasesAreDurable` | `AccreditedReleasesAreDurable` |
| `ForwardsAreDelivered` | `ForwardedIsDelivered` |

Assumed: `PolicyAssumption`, `StoreAssumption` and `DeploymentAssumption`: the
configurations, documents and registries offered are of the types the code
deserialises into (`ConfiguredDomain`, `StoredRule`, `SpifDocument`; what a policy
lists as releasable are countries, and a registry finds each policy under its own
identifier). There are three invariants. `DurableInv`: as long as the guard comes
from the configuration file it is accredited if either section of the file says so,
and its log is then write-once. `TrailInv`: every configured destination that a
forward has behind it has at least the log as it was when the forward began, unless
the faults include the loss of what was delivered. `StoreInv`: the store is
*governed*, every domain but the late ones carries the NATO countries, and the policy
it has under the identifier of the document loaded last is that document parsed.
`ReadingTurns` proves of the parser, element by element, what `CategoriesAreKept`
says of a whole document, together with the flag it depends on: the parser is inside
a classification exactly while a validation has been read and no classification
since.

### Induction

Reading a document, loading a registry, building a store, applying a response,
filtering, the order of the store, the bulk load and the passes of the importer are
loops. The models state them as recursive functions over the turns, and the proofs go
by `LoopExists` (such a function exists and maps turns to states) and `UpTo` or
`Turnwise` (a set of numbers that has 0 and each next one has them all), both proved
from the least element of a set of numbers, since the libraries' induction
theorems need an operator as argument.

### Audit log (`GuardDeploymentProofs`)

For every set of callers, deployments and faults and any number of records:

| Theorem | Property |
|---|---|
| `LogTypeCorrect` | `LogTypeOK` |
| `ReloadedChainVerifies` | `FileChainVerifies` |
| `AcknowledgedAreVouchedFor` | `AcknowledgedIsSealed` |

Assumed: `AuditAssumption` (the setups are well typed, debris is no envelope).
`ChainInv` adds to the first property that while the process runs the file is
whole and the hash it will seal on is that of the last line; a crash may leave a
fragment, after which nothing is parsable and a reload refuses the file. `SealInv`
adds to the second that the sidecar never names more than is in the file, that a
file of exactly the sidecar's length does not end in a fragment, and neither does
one of the length the running sink counts. The sink takes an append only at that
length, so what is written then never spoils a piece the sidecar vouches for.

### Cross-domain transfer (`CrossDomainTransferProofs`)

For every number of levels, every set of countries, caveats, missions, readers
and deployments, and both settings of the downgrade:

| Theorem | Property |
|---|---|
| `TypeCorrect` | `TypeOK` |
| `ReleaseReadable` | `ReleaseIsReadable` |
| `OriginRespected` | `ReceiptRespectsOrigin` |
| `AccreditedRecorded` | `AccreditedIsRecorded` |

Assumed: `PolicyAssumption` (levels are an initial segment of the naturals, no
nationality or mission is the absent one) and `TransferAssumption` (deployments
and readers are well typed, and the guard is not one of the readers). The first
part is about the decision alone: `ReleaseDecision` and `GuardRelease` say what a
decision to release promises about the label it gives. It has no caveats, since
the guard has none; it goes to no compartment, since the guard has no mission; and
it keeps every country of the original, since a label for a country the target
does not accept is refused before any downgrade. The invariant that carries this
to the readers, `DecisionInv`, adds that the decision stands from packaging on,
that nothing happens on the target side before the release, and that past the
enforcement point there are only readers it let through. `RecordInv` is the same
for the log, which only grows: where each call is tells what must be in it.
`Faults` and `MaxReceipts` may be anything.

### Exchange node (`ExchangeNodeProofs`)

For any instances, directory, configuration of the listener, requests, headers,
envelopes, filters and page sizes, and a store and journal of any length:

| Theorem | Property |
|---|---|
| `StoredStaysSigned` | `StoredIsSigned` |
| `AnsweredAreEntitled` | `ReadersAreEntitled` |
| `WalksCover` | `PagesCoverReadable` |
| `OpenersAreCleared` | `ReceiversAreCleared` |
| `JsonKeepsResource`, `JsonKeepsValidity` | (any label) |
| `SealedOpensForReaders`, `SealedHoldsItsPayload` | (any label, payload, key, subject, domain) |

Assumed: `NodeAssumption` (what the node publishes are instances, offsets and limits
are naturals or absent, as `Option<usize>` has them, the label of a release has a
level and categories as `ConfidentialityLabel` has them, the domain it goes to is
one), `BrokerAssumption`, `PolicyAssumption`, and ideal signatures and digests.
There are three invariants.

- `Holding(W)`: the broker is sound in the sense of `BrokerStateProofs` and stores
  nothing outside `W`. Puts, deletes and the bulk load keep it for the `W` of
  `StoredIsSigned`; what remains is that an envelope that verifies for a payload was
  signed for that payload.
- `NodeInv`: `Holding`, with what the last answer and the walk say of the store.
  `Entitled` adds to `ReadersAreEntitled` that whatever an answer names is stored,
  for without it the label compared would be that of nothing. `PagesCoverReadable`
  says something of finished walks only; `Covers` says of every walk that, as
  long as no match has gone, what it has not seen of its base is *ahead* of it: a
  match that is preceded by at least `offset` matches, whatever the reader may see
  of them. The store's order only grows at its end (`OrderGrows`), an object that
  was put keeps its place, so a put can move what is ahead only further ahead, and
  only a match that goes away can move it behind. That a page is cut before it is
  filtered is harmless because the offset counts matches, not what was answered.
- `Cleared`: a package that has been released opens, even before anyone tries, only
  for readers that may read under the label the guard gave it. What a reader is
  compared with is the label rebuilt from the manifest's JSON; `JsonKeepsResource`
  and `JsonKeepsValidity` say that what JSON leaves out changes no decision, and
  `SealedOpensForReaders` that a package that has been through a ZIP opens for
  exactly the subjects that may read under the label it was made with.
  `EffectiveResource` and `LetThrough` relate that label to the decision: what the
  guard strips from an operator's label is what the downgrade takes from the
  resource.

`SealedHoldsItsPayload` says that a sealed package, which has no digest of its own,
verifies for its own payload under its signer's key and for nothing else. The
last four rows are the general form of `JsonKeepsDecisions` and of the package's part
of `BindingsHoldTheirPayload`.

### Imported model (`ModelImportProofs`)

For any ontology (documents of any length, in any order, with cycles of classes and
of properties), any core seed that loads, any names, options and instances:

| Theorem | Property |
|---|---|
| `OntologyKept` | `OntologyIsKept` |
| `ClosedImportsLoad` | `ImportsLoad` |
| `ReportedLoaded` | `ReportedIsLoaded` |
| `ComplianceEarned` | `ComplianceIsEarned` |
| `ValidationComplete` | `ValidationIsComplete` |
| `ResolutionAdvances` | (`TurnAdvances`, the bound on the resolution's turns) |
| `ClimbAdvances` | (`StepAdvances`, the bound on the climb's steps) |

Assumed: `NameAssumption` (the names are those of a list without repetition, in the
order of a `BTreeMap`), `DisplayAssumption`, and `ImportAssumption`: declarations and
options are well typed; the core seed loads by itself, has each name once and has the
two roots, as `models/mim-core-5.1.json` does; and nobody uses a name that
`append_synthetic_coverage` makes up. Nothing is assumed of what `to_pascal_case`
makes of a name.

There are three invariants. `Stage` says what each phase has behind it: the parser is
well typed and whatever it is inside is in the model; from the written manifest on,
the report is what `Import` makes of the parser's model; a loaded registry is that
of a manifest that passed the check, and a refused one failed it. The three
properties about the manifest speak of both ends of that way, and follow from `Stage`
by what `Import` and `RegistryOf` do:

- `MappedIntegral` and `CoreIntegral` say where the parent of every entry is to be
  found, and `LoadsWhenClosed` that merging and topping up lose none of them;
- `ParentClassFacts` says that an attribute is given to its domain's class or one
  above it, `LoadedParts` follows it from there through the merge, and `NoTwins` is
  what makes the entry found under its name its own;
- `NamedOnceCount` says that entries count names where each name is once, which
  `LoadedMerged` shows of taxonomy and code lists after the merge.

`Validating` adds to `Stage` that the classes a running climb has found, with the one
it is at, contain the class above each of them. At the end there is no class to
climb to, so what was found is closed upwards and contains all that is above the
instance's class, cycle or not.

`Faithful` adds what was said. While a plain document is read the properties are
*as declared* (`AsDeclared`): one for each property said, with exactly its domain and
range, and nothing pending. This is what no single event shows: inside a property
the record has only part of the declaration, and what is still to come may change
it. `ReadProperty` goes through the events of one declaration and says what holds
at its end. From then on they are *grounded* (`Grounded`): what was
declared is kept, parents and inverses are those that were said, and every domain
and range held is one that some source of that side was declared with. A turn keeps
that (`TurnGrounded`), since a side draws from its partner's sources too:
`SourcesFacts` shows that the bounded search `AllSources` finds everything that can
be reached, because a turn that finds nothing new is the last one that could, and
there are no more turns than sides. Nothing in
these proofs depends on the order in which names are gone through or declarations
read.

The last two rows are the part of `LoopsEnd` that is not about fairness. A turn of
the resolution that is not the last one adds to the properties with a domain, and
there are no more of them than names. A climb that came to a class a second time
would have found a set that has the class above each of its own, hence all that is
above the instance's class (`NeverTwice`), and no root among them; so where there is
a root each step adds a class of the registry (`AmongKnown`). The condition is the
one that the run `model_roots` shows to be needed.

Proved about operators on the way: `SortedFacts` and `OnlyFacts` (a selection in
order), `LastNamedFacts`, `ByNameFacts` and `OverlayFacts` (what a map made from a
list holds, and what a merge by name keeps), `AncestorsFacts`, `AcceptAllFacts`,
`EventsFacts` (how a declaration is written).

### Only model-checked

- Liveness (`Converges`, `ForwardEnds`, `LoopsEnd`), out of the prover's reach. Of
  `LoopsEnd` the bounds on both loops are proved.
- The assumptions of `MCExchangeNode` about XML labels, wire formats and bindings
  other than the sealed package (section 3): what a recursive definition computes
  for all inputs.

## 5. Findings

`PROJECT.json` lists the four disagreements between the code and what its
documents, comments or tests say that the violation runs exhibit: the update lost
by clone write-back, the invented cursor, the Action root that becomes its own
ancestor, and the marking that an XML put loses.

Others were met while modelling, and the models have them, as conditions of the
properties (section 3) or as what a definition says:

- The DELETE handler posts no webhook (`routes.rs:200`; PUT does,
  `routes.rs:44`), so a consumer that waits for notices keeps a retired object.
- The SIEM forward reads no answer (`siem.rs:48-60`): what a collector took and
  refused is delivered as far as the guard knows, and `ForwardedIsDelivered` says
  no more than that the bytes were accepted.
- `execute` verifies the binding and decides on the label it is asked for, and
  never compares that label with the bound one (`transfer.rs:67-84`). Every caller
  in the repository binds the label it asks for, and `CrossDomainTransfer` has one
  label for both, so what it shows of the original label is shown of such callers.
- `AuditLog::file` on an existing file begins a second chain at GENESIS
  (`log.rs:142`); only `load_from_file` goes on with the one there is.
- A crash between line and sidecar makes a write-once file be refused as
  tampered with (`worm.rs:77`, `112`).
- `audit.fail_closed` is read by the SIEM forward alone: a guard that is not
  accredited releases although the log did not take the record (`config.rs:50`,
  `transfer.rs:329`).
- The XML label parser writes an alternative's policy and categories into the
  label itself (`xml.rs:199-284`), so a label released to one country in an
  alternative reads as released to it outright; `AlternativesLeak` shows a
  label that gains a country. JSON drops colour, marking data, alternatives and
  the policy's OID, none of which decides anything.
- Under mutual TLS the fingerprint header always decides, so the mapping of
  common names (`identity.rs:83-90`) is not reached; `config/fmn-ldap-pip.toml`
  maps common names only.
- A detached label is compared with the bound one by policy and classification
  only; a sealed package's label allows every level.
- A `Content-Type` of `application/json` makes an XML payload be read as JSON;
  `q=0` does not exclude a format; a query answered in XML loses its total.
- DELETE does not look at the request's MIM version.
- `CrossDomainPolicy::allow_downgrade` is never read; `guard.evaluate` asks
  without a mission or caveats, so `execute` never releases a label with a caveat
  nor anything into or out of a compartmented domain; a release is recorded
  before its package is written.
- A guard's decision asks no SPIF policy: only bindings do, under built-in
  defaults (`docs/NATO-STANAG-SYSTEM.md:100`, `156`).
- The importer pads a model with synthetic entries whatever its coverage
  (`mapper.rs:26` says "no synthetic padding"); without `--merge` what it writes
  may not load; the compliance checker counts a manifest's own statement of its
  coverage.

## 6. Not modelled

- `mim-core`: value types without state.
- `fetch.rs`, sockets, the TLS handshake, key loading, cryptographic primitives:
  I/O, or ideal in the model.
- Exchange persistence is modelled but for the write in place of a snapshot (half
  of one is refused by `load`, which is a start without objects) and the journal
  lines that nothing reads back in a node.
- Poisoned mutexes. `AuditLog::record` answers `Ok` without sealing when the lock of
  its chain is poisoned (`log.rs:217`); that takes a panic while the lock is held,
  which nothing done there is written to do.
- MIM runtime: the XSD checks of payloads and the text of OIDs.
- The labelling, ADatP and MIP4 conformance suites and most scenarios are
  harnesses that call the other crates with fixed values; they were read for what
  they expect.

`PROJECT.json` gives status and reason for each component.

## 7. Plan

Done, in this order: broker, refinement and proofs; federation; replication with
snapshots; audit log; policy decision and cross-domain transfer with proofs; guard
deployment, SPIF and SIEM; import, registry and validation; the exchange node with
identity, wire formats, queries, labels, bindings and packages; proofs of the
audit log, of the federation's safety and of what a label's JSON keeps; proofs of the
federation's order, of replication, of the deployed guard, of the exchange node and
of the imported model.

Left:

1. The refused entry that blocks a pull in `Federation`, as it does in
   `Replication`, and a publisher that restarts with an empty journal.
2. Contents told apart by their author, for two publishers that pull from one
   another.
