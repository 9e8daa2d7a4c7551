-------------------------- MODULE GuardDeployment ---------------------------
(***************************************************************************)
(* A cross-domain guard from its configuration to its audit trail at the   *)
(* SIEM: the configuration or a SPIF registry is made into a policy store  *)
(* and a guard, administrators change the store, a guard is deployed on a  *)
(* copy of it, labels are put to the guard, and the log is forwarded to a  *)
(* file, an HTTP collector and a syslog collector with retries             *)
(* (crates/mim-dcs/src/config.rs, guard.rs, crates/mim-audit/src/siem.rs,  *)
(* crates/ainextgenc2/src/scenarios/dcs_cross_domain.rs).                  *)
(*                                                                         *)
(* One transfer is one step here: CrossDomainTransfer has its steps.  What *)
(* counts of the log is how many transfers are on record.                  *)
(***************************************************************************)
EXTENDS PolicyStore

CONSTANTS
    Configs,      \* configurations considered
    Registries,   \* SPIF registries a guard may be administered from
    Documents,    \* documents an administrator may load
    NewDomains,   \* pairs of id and domain an administrator may register
    NewRules,     \* rules an administrator may add
    Labels,       \* labels put to the guard
    NoDocument,
    Unparsable,   \* a maxClassification that is no level
    Faults,       \* which of {"audit", "siem", "reset"} occur
    Attempts,     \* 3: tries of an accredited forward
    MaxChanges, MaxTransfers, MaxForwards \* the model's bounds

ConfiguredDomain ==
    [id: DomainId \cup {NoDomainId},
     domain: [max_classification: Level \cup {Unparsable}, releasable_to: SUBSET Country,
              accepted_nationalities: SUBSET Country, mission_compartments: SUBSET Mission]]

\* domains and rules are sequences, as in the file; a domain may name no level.
\* audit: whether there is a path, the sink, and the two flags; siem: which of
\* the three destinations are configured.
ASSUME DeploymentAssumption ==
    /\ \A c \in Configs :
          /\ {c.accredited, c.audit.accredited, c.audit.fail_closed, c.audit.path} \subseteq BOOLEAN
          /\ c.audit.sink \in {"file", "worm"}
          /\ c.siem \subseteq {"file", "http", "syslog"}
          /\ c.domains \in Seq(ConfiguredDomain) /\ c.rules \in Seq(StoredRule)
          /\ c.spifs \in Seq(SpifDocument)
    /\ Unparsable \notin Level
    /\ \A registry \in Registries : IsRegistry(registry)
    /\ Documents \subseteq SpifDocument
    /\ NewDomains \subseteq [id: DomainId \cup {NoDomainId}, domain: Domain]
    /\ NewRules \subseteq StoredRule
    /\ Faults \subseteq {"audit", "siem", "reset"}
    /\ Attempts \in Nat \ {0} /\ {MaxChanges, MaxTransfers, MaxForwards} \subseteq Nat

VARIABLES
    config,   \* the DcsConfig, which never changes
    prp,      \* the administration point's store
    guard,    \* the guard in service, or NoGuard
    loaded,   \* the document an administrator loaded last, or NoDocument
    late,     \* ids registered since the prp was last brought in line with NATO's list
    changes,  \* administrative operations so far
    log,      \* transfers on record
    transfers, released, \* transfers so far; of those released: by a guard of
              \* which origin, over which sink, and whether recorded
    delivered,\* delivered[d]: transfers on record in what destination d last took whole
    forward   \* forward_audit_siem: where it is, what it exports, tries, result of the
              \* last call, the log when it began, and calls so far

vars == <<config, prp, guard, loaded, late, changes, log, transfers, released, delivered,
          forward>>

Destination == {"file", "http", "syslog"}

NoGuard == [in_service |-> FALSE, source |-> NoDomainId, target |-> NoDomainId,
            store |-> EmptyStore, accredited |-> FALSE, sink |-> "memory", origin |-> "none"]

Idle == [at |-> "idle", export |-> 0, attempt |-> 0, result |-> "none", since |-> 0, calls |-> 0]

Init ==
    /\ config \in Configs
    /\ prp = EmptyStore
    /\ guard = NoGuard
    /\ loaded = NoDocument
    /\ late = {}
    /\ changes = 0 /\ log = 0 /\ transfers = 0
    /\ released = {}
    /\ delivered = [d \in Destination |-> 0]
    /\ forward = Idle

-----------------------------------------------------------------------------
(* DcsConfig.                                                               *)

\* Slip: the profile of the audit section does not count.
GuardSectionOnly(c) == c.accredited

IsAccreditedProfile(c) == c.accredited \/ c.audit.accredited

ValidProfile(c) == IsAccreditedProfile(c) => c.audit.path /\ c.audit.sink = "worm"

\* build_policy_store: domains, then rules, then SPIF policies.
InsertConfigured(store, d) ==
    IF d.domain.max_classification = Unparsable THEN Error(store)
    ELSE InsertDomain(store, d.id, d.domain)

BuildPolicyStore(c) ==
    LET built == EachOf(EachOf(Ok(EmptyStore), InsertConfigured, c.domains), InsertRule, c.rules)
        spifs(store) == IF Loads(c.spifs) THEN Administer(store, LoadedRegistry(c.spifs))
                                          ELSE Error(store)
    IN  IF c.spifs = <<>> THEN built ELSE AndThen(built, spifs)

\* primary_domain_pair: the first rule is the guard's; its domains are in the
\* store by then, which is where the decision point looks them up.
Builds(c) == ValidProfile(c) /\ BuildPolicyStore(c).ok /\ c.rules # <<>>

BuildGuard(c) ==
    [in_service |-> TRUE, source |-> c.rules[1].source, target |-> c.rules[1].target,
     store |-> BuildPolicyStore(c).store, accredited |-> IsAccreditedProfile(c),
     sink |-> IF c.audit.path THEN c.audit.sink ELSE "memory", origin |-> "config"]

\* A configuration that cannot be built leaves nothing behind.
Configure ==
    /\ ~guard.in_service
    /\ Builds(config)
    /\ guard' = BuildGuard(config)
    /\ prp' = guard'.store
    /\ late' = {}
    /\ UNCHANGED <<config, loaded, changes, log, transfers, released, delivered, forward>>

\* CrossDomainGuard::from_spif_registry: the pair is fixed, nothing is accredited
\* and there is no log but the one in memory.
ConfigureFromSpif(registry) ==
    /\ ~guard.in_service
    /\ StoreFromSpif(registry).ok
    /\ prp' = StoreFromSpif(registry).store
    /\ guard' = [in_service |-> TRUE, source |-> HighId, target |-> LowId, store |-> prp',
                 accredited |-> FALSE, sink |-> "memory", origin |-> "spif"]
    /\ late' = {}
    /\ UNCHANGED <<config, loaded, changes, log, transfers, released, delivered, forward>>

-----------------------------------------------------------------------------
(* Administration, on a store of its own; a refused operation is an error   *)
(* and changes nothing.                                                     *)

Administered(outcome) ==
    /\ guard.in_service
    /\ changes < MaxChanges
    /\ changes' = changes + 1
    /\ outcome.ok
    /\ prp' = outcome.store
    /\ UNCHANGED <<config, guard, log, transfers, released, delivered, forward>>

RegisterDomain(id, domain) ==
    Administered(InsertDomain(prp, id, domain)) /\ late' = late \cup {id} /\ UNCHANGED loaded

AddRule(rule) == Administered(InsertRule(prp, rule)) /\ UNCHANGED <<loaded, late>>

DropRule(id) == Administered(RemoveRule(prp, id)) /\ UNCHANGED <<loaded, late>>

Load(doc) ==
    /\ Administered(LoadSpif(prp, doc))
    /\ loaded' = doc
    /\ late' = IF doc.policy_id = Nato /\ ReleasableValues(Parsed(doc)) # {} THEN {} ELSE late

\* A decision point owns its store: a change of the prp takes effect with a new
\* policy plane, behind the same pair of domains and without the old one's log.
Redeploy ==
    /\ guard.in_service
    /\ guard.store # prp
    /\ guard' = [guard EXCEPT !.store = prp, !.accredited = FALSE,
                              !.sink = "memory", !.origin = "prp"]
    /\ UNCHANGED <<config, prp, loaded, late, changes, log, transfers, released, delivered,
                   forward>>

-----------------------------------------------------------------------------
(* Transfers.                                                               *)

GuardSubject(l) == [clearance |-> l.classification, nationality |-> None,
                    mission |-> None, caveats |-> {}]

\* evaluate_cross_domain: the domains are the store's under the guard's ids.
GuardDecision(l) ==
    IF guard.source = guard.target THEN Failure
    ELSE IF PolicyForPair(guard.store, guard.source, guard.target)
         THEN EvaluateCrossDomain(GuardSubject(l), l, guard.store.domains[guard.source],
                                  guard.store.domains[guard.target], TRUE)
         ELSE Failure

\* record_audit: only an accredited guard stops when the log fails.
GoesOn(recorded) == recorded \/ ~guard.accredited

Transfer(l, recorded) ==
    /\ guard.in_service
    /\ transfers < MaxTransfers
    /\ recorded \/ "audit" \in Faults
    /\ transfers' = transfers + 1
    /\ log' = IF recorded THEN log + 1 ELSE log
    /\ LET d == GuardDecision(l)
       IN  released' = IF GoesOn(recorded) /\ d.effect \in {"permit", "downgrade"}
                       THEN released \cup {[origin |-> guard.origin, sink |-> guard.sink,
                                            recorded |-> recorded]}
                       ELSE released
    /\ UNCHANGED <<config, prp, guard, loaded, late, changes, delivered, forward>>

-----------------------------------------------------------------------------
(* forward_audit_siem: file, HTTP, syslog, in this order.                   *)

FailClosed(c) == c.audit.fail_closed \/ IsAccreditedProfile(c)

MaxAttempts(d) == IF IsAccreditedProfile(config) /\ d # "file" THEN Attempts ELSE 1

After(d) == CASE d = "file" -> "http" [] d = "http" -> "syslog" [] d = "syslog" -> "end"

\* Every destination has the log exported anew, and tries with that export.
Turn(d) == IF d = "end" THEN [forward EXCEPT !.at = "idle", !.result = "ok"]
           ELSE [forward EXCEPT !.at = d, !.export = log, !.attempt = 0]

Forwarding(d) ==
    /\ forward.at = d
    /\ UNCHANGED <<config, prp, guard, loaded, late, changes, log, transfers, released>>

StartForward ==
    /\ Forwarding("idle")
    /\ guard.in_service
    /\ forward.calls < MaxForwards
    /\ forward' = [at |-> "file", export |-> log, attempt |-> 0, result |-> "none",
                   since |-> log, calls |-> forward.calls + 1]
    /\ UNCHANGED delivered

Skip(d) ==
    /\ Forwarding(d)
    /\ d \notin config.siem
    /\ forward' = Turn(After(d))
    /\ UNCHANGED delivered

\* A connection that took the request whole has succeeded: no answer is read, so
\* that what is reset afterwards is lost unseen, and what a collector took and
\* answered with an error counts as delivered.
Deliver(d) ==
    /\ Forwarding(d)
    /\ d \in config.siem
    /\ delivered' \in {[delivered EXCEPT ![d] = forward.export]}
                        \cup (IF d # "file" /\ "reset" \in Faults THEN {delivered} ELSE {})
    /\ forward' = Turn(After(d))

\* Slip: one try too many.
OneMoreTry(d) == forward.attempt < MaxAttempts(d)

TryLeft(d) == forward.attempt + 1 < MaxAttempts(d)

\* Slip: the last failure is reported and the next destination served.
GiveUpQuietly(d) == Turn(After(d))

\* Slip: the last failure starts the destination over.
GiveUpNever(d) == Turn(d)

\* The last try failed: an error if the deployment fails closed.
GiveUp(d) == IF FailClosed(config) THEN [forward EXCEPT !.at = "idle", !.result = "error"]
                                   ELSE Turn(After(d))

\* The file is truncated before it is written.
Fail(d) ==
    /\ Forwarding(d)
    /\ d \in config.siem /\ "siem" \in Faults
    /\ delivered' \in {delivered} \cup (IF d = "file" THEN {[delivered EXCEPT ![d] = 0]} ELSE {})
    /\ forward' = IF TryLeft(d) THEN [forward EXCEPT !.attempt = @ + 1] ELSE GiveUp(d)

ForwardStep == \E d \in Destination : Skip(d) \/ Deliver(d) \/ Fail(d)

-----------------------------------------------------------------------------
Next ==
    \/ Configure
    \/ \E registry \in Registries : ConfigureFromSpif(registry)
    \/ \E d \in NewDomains : RegisterDomain(d.id, d.domain)
    \/ \E rule \in NewRules : AddRule(rule)
    \/ \E id \in RuleId : DropRule(id)
    \/ \E doc \in Documents : Load(doc)
    \/ Redeploy
    \/ \E l \in Labels, recorded \in BOOLEAN : Transfer(l, recorded)
    \/ StartForward
    \/ ForwardStep

Spec == Init /\ [][Next]_vars

\* The thread that forwards keeps running; nobody owes a transfer or a change.
FairSpec == Spec /\ WF_vars(ForwardStep)

-----------------------------------------------------------------------------
\* Types of the store, the guard and the trail (config.rs, guard.rs, siem.rs).
TypeOK ==
    /\ DOMAIN prp.domains \subseteq DomainId /\ DOMAIN prp.spifs \subseteq PolicyId
    /\ \A d \in DOMAIN prp.domains : prp.domains[d] \in Domain
    /\ late \subseteq DomainId
    /\ guard.sink \in {"memory", "file", "worm"}
    /\ changes \in 0..MaxChanges /\ transfers \in 0..MaxTransfers
    /\ log \in 0..transfers /\ delivered \in [Destination -> 0..log]
    /\ forward.at \in Destination \cup {"idle"} /\ forward.attempt \in 0..(Attempts - 1)

\* Once a NATO policy with a list of countries is in the store, every domain
\* releases to exactly that list, whatever it was configured with, but for the
\* domains registered after the load (spif_admin.rs:11-40, 62-75).
NatoGovernsReleasability ==
    Nato \in DOMAIN prp.spifs /\ ReleasableValues(prp.spifs[Nato]) # {} =>
        \A d \in DOMAIN prp.domains \ late :
            prp.domains[d].releasable_to = ReleasableValues(prp.spifs[Nato])

\* Of the document loaded last the store's policy has every category but those
\* that come after a validation without a classification in between
\* (parser.rs:52-134): a list that goes missing there governs nothing.
CategoriesAreKept ==
    loaded # NoDocument =>
        DOMAIN prp.spifs[loaded.policy_id].categories =
            {loaded.elements[k].name : k \in {k \in DOMAIN loaded.elements :
                /\ loaded.elements[k].tag = "category"
                /\ \A j \in 1..k : loaded.elements[j].tag = "validation" =>
                      \E i \in j..k : loaded.elements[i].tag = "class"}}

\* A deployment accredited in either section of its file releases nothing it has
\* not put on record in a write-once log (config.rs:173-189, transfer.rs).
AccreditedReleasesAreDurable ==
    \A r \in released :
        r.origin = "config" /\ (config.accredited \/ config.audit.accredited)
            => r.recorded /\ r.sink = "worm"

\* A forward of a deployment that fails closed ends well only if every configured
\* destination took at least the log as it was when the call began, unless the
\* network lost what it had taken.  To take is to accept the bytes: what a
\* collector answers is not read (config.rs:237-265, siem.rs:24-60).
ForwardedIsDelivered ==
    /\ forward.at = "idle" /\ forward.result = "ok"
    /\ FailClosed(config) /\ "reset" \notin Faults
    => \A d \in config.siem : delivered[d] >= forward.since

\* Retries are bounded: a forward comes to an end whatever fails (siem.rs:24-46).
ForwardEnds == forward.at # "idle" ~> forward.at = "idle"

=============================================================================
