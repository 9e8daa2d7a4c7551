---------------------------- MODULE PolicyStore -----------------------------
(***************************************************************************)
(* The policy retrieval point: domains, cross-domain rules and SPIF        *)
(* policies, and what the administration point does to them                *)
(* (crates/mim-policy/src/store.rs, pap.rs, spif_admin.rs).  Every         *)
(* operation that can be refused is an outcome, [ok, store]; a refused one *)
(* hands back the store as far as it got.                                  *)
(***************************************************************************)
EXTENDS SpifPolicies

CONSTANTS
    DomainId, NoDomainId, \* the empty identifier is NoDomainId
    RuleId, NoRuleId,
    SpifRule,             \* the id cross_domain_policy_from_spif makes up
    Nato,                 \* the one policy that governs releasability
    HighId, LowId, Secret, Restricted, DefaultReleasable \* guard_domains_from_spif

ASSUME StoreAssumption ==
    /\ NoDomainId \notin DomainId /\ NoRuleId \notin RuleId /\ NoPolicyId \notin PolicyId
    /\ Nato \in PolicyId /\ SpifRule \in RuleId
    /\ {HighId, LowId} \subseteq DomainId /\ HighId # LowId
    /\ {Secret, Restricted} \subseteq Level
    /\ DefaultReleasable \subseteq Country /\ DefaultReleasable # {}

Rule(id, source, target) == [id |-> id, source |-> source, target |-> target]

\* Rules as they are configured or added; InsertRule looks whether they can be.
StoredRule == [id: RuleId \cup {NoRuleId}, source: DomainId \cup {NoDomainId},
               target: DomainId \cup {NoDomainId}]

EmptyStore == [domains |-> [d \in {} |-> {}], rules |-> <<>>, spifs |-> EmptyRegistry]

Ok(store)    == [ok |-> TRUE, store |-> store]
Error(store) == [ok |-> FALSE, store |-> store]

\* One operation after another, as ? chains them.
AndThen(outcome, Op(_)) == IF outcome.ok THEN Op(outcome.store) ELSE outcome

EachOf(outcome, Op(_, _), seq) ==
    LET out[k \in 0..Len(seq)] ==
            IF k = 0 THEN outcome
            ELSE AndThen(out[k - 1], LAMBDA store : Op(store, seq[k]))
    IN  out[Len(seq)]

\* A domain is inserted over one of the same id.
InsertDomain(store, id, domain) ==
    IF id = NoDomainId THEN Error(store)
    ELSE Ok([store EXCEPT !.domains = PutOver(@, id, domain)])

RuleIds(store) == {store.rules[k].id : k \in DOMAIN store.rules}

InsertRule(store, rule) ==
    IF /\ rule.id # NoRuleId
       /\ {rule.source, rule.target} \subseteq DOMAIN store.domains
       /\ rule.id \notin RuleIds(store)
    THEN Ok([store EXCEPT !.rules = Append(@, rule)])
    ELSE Error(store)

RemoveRule(store, id) ==
    IF id \in RuleIds(store)
    THEN Ok([store EXCEPT !.rules = SelectSeq(@, LAMBDA rule : rule.id # id)])
    ELSE Error(store)

PolicyForPair(store, source, target) ==
    \E k \in DOMAIN store.rules :
        store.rules[k].source = source /\ store.rules[k].target = target

-----------------------------------------------------------------------------
(* SPIF administration.                                                     *)

ReleasableValues(policy) ==
    IF RELEASABLE \in DOMAIN policy.categories
    THEN policy.categories[RELEASABLE].allowed_values ELSE {}

\* A registry's policies are found under their own identifiers.
IsRegistry(registry) ==
    /\ DOMAIN registry \subseteq PolicyId
    /\ \A id \in DOMAIN registry :
          registry[id].policy_id = id /\ ReleasableValues(registry[id]) \subseteq Country

\* sync_domain_releasability: every domain the store has by now is given the
\* policy's countries, in place of its own.
SyncReleasability(store, policy) ==
    IF policy.policy_id = Nato /\ ReleasableValues(policy) # {}
    THEN [store EXCEPT !.domains =
            [d \in DOMAIN @ |-> [@[d] EXCEPT !.releasable_to = ReleasableValues(policy)]]]
    ELSE store

\* apply_spif_to_store: of the registry's policies only NATO changes anything.
ApplySpif(store, registry) ==
    IF Nato \in DOMAIN registry THEN SyncReleasability(store, registry[Nato]) ELSE store

\* The store, unlike a registry, takes an identifier once.  A registry's policies
\* come in no order and no two share an identifier, so registering them one by
\* one is refused exactly when the store has one of them.
RegisterAll(store, registry) ==
    IF DOMAIN registry \cap DOMAIN store.spifs # {} THEN Error(store)
    ELSE Ok([store EXCEPT !.spifs =
                [id \in DOMAIN registry \cup DOMAIN @ |->
                    IF id \in DOMAIN registry THEN registry[id] ELSE @[id]]])

\* Slip: the policies are registered and their releasability is left alone.
AdministerWithoutSync(store, registry) == RegisterAll(store, registry)

\* Registering a registry's policies and refreshing the domains: the second half
\* of build_policy_store, with_spif_registry and load_spif_xml.
Administer(store, registry) ==
    AndThen(RegisterAll(store, registry),
            LAMBDA registered : Ok(ApplySpif(registered, registry)))

SpifDomain(registry, max) ==
    LET values == ReleasableValues(registry[Nato])
    IN  [max_classification |-> max,
         releasable_to |-> IF values = {} THEN DefaultReleasable ELSE values,
         accepted_nationalities |-> {}, mission_compartments |-> {}]

\* PolicyAdministrationPoint::with_spif_registry.
StoreFromSpif(registry) ==
    IF Nato \notin DOMAIN registry THEN Error(EmptyStore)
    ELSE LET high(store) == InsertDomain(store, HighId, SpifDomain(registry, Secret))
             low(store)  == InsertDomain(store, LowId, SpifDomain(registry, Restricted))
             rule(store) == InsertRule(store, Rule(SpifRule, HighId, LowId))
             all(store)  == Administer(store, registry)
         IN  AndThen(AndThen(AndThen(AndThen(Ok(EmptyStore), high), low), rule), all)

\* PolicyAdministrationPoint::load_spif_xml: a registry of the one document.
LoadSpif(store, doc) ==
    IF Parses(doc) THEN Administer(store, LoadedRegistry(<<doc>>)) ELSE Error(store)
=============================================================================
