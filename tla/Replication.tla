---------------------------- MODULE Replication -----------------------------
(***************************************************************************)
(* In-process replication: a ReplicationAgent that holds a publisher and a *)
(* consumer broker and applies the publisher's journal to the consumer     *)
(* (crates/mim-transport/src/replication.rs), with a consumer that is      *)
(* saved to and reloaded from a snapshot file (persistence.rs).            *)
(*                                                                         *)
(* A pull borrows both brokers, so it is one step; but it stops at the     *)
(* first entry the consumer refuses and keeps what it applied before.      *)
(***************************************************************************)
EXTENDS BrokerState

CONSTANTS
    PublisherOid, \* objects that clients of the publisher write
    ConsumerOid,  \* objects that clients of the consumer write
    Readable,     \* contents the publisher's PEP lets the subscriber read
    Accepted,     \* contents the consumer's own registry validates
    Setups,       \* the deployments considered
    MaxWrites     \* client requests, in all: the model's bound

\* The kind of pull the agent makes, whether the consumer has clients of its own,
\* and whether it is ever saved and restarted.
Setup == [agent: {"raw", "secured"}, local: BOOLEAN, restarts: BOOLEAN]

ASSUME ReplicationAssumption ==
    /\ PublisherOid \cup ConsumerOid \subseteq Oid
    /\ PublisherOid \cap ConsumerOid = {}
    /\ Readable \subseteq Instance
    /\ Accepted \subseteq Instance
    /\ Setups \subseteq Setup
    /\ MaxWrites \in Nat

\* No journal outgrows its counter (2^64 - 1 entries): past that, entries share
\* a number and a consumer takes a new one for one it has applied.
ASSUME UnsaturatedAssumption == MaxWrites <= MaxSequence

VARIABLES
    setup,               \* the deployment, which never changes
    publisher, consumer, \* the two brokers
    snapshot,            \* what the consumer's file holds: its broker when last saved
    writes,              \* client requests so far
    lastPull             \* how the last step ended, if it was a pull: "ok", "failed" or "none"

vars == <<setup, publisher, consumer, snapshot, writes, lastPull>>

Init ==
    /\ setup \in Setups
    /\ publisher = NewBroker
    /\ consumer = NewBroker
    /\ snapshot = NewBroker
    /\ writes = 0
    /\ lastPull = "none"

Write ==
    /\ writes < MaxWrites
    /\ writes' = writes + 1
    /\ lastPull' = "none"

PublisherPut(o, i) ==
    /\ Write
    /\ publisher' = PutObject(publisher, o, i)
    /\ UNCHANGED <<consumer, snapshot>>

PublisherDelete(o) ==
    /\ Write
    /\ o \in Stored(publisher)
    /\ publisher' = DeleteObject(publisher, o)
    /\ UNCHANGED <<consumer, snapshot>>

ConsumerPut(o, i) ==
    /\ setup.local
    /\ Write
    /\ consumer' = PutObject(consumer, o, i)
    /\ UNCHANGED <<publisher, snapshot>>

-----------------------------------------------------------------------------
\* Slip: deletes are filtered by the label of what they delete.
SyncReadableOnly(since) ==
    {e \in SyncSince(publisher, since) : publisher.store[e.oid] \in Readable}

\* sync_since_as: a put passes if the subscriber may read the object as it is
\* now, a delete always.
SyncSinceAs(since) ==
    {e \in SyncSince(publisher, since) :
        \/ e.operation = "DeleteObject"
        \/ e.oid \in Active(publisher) /\ publisher.store[e.oid] \in Readable}

\* Slip: an entry that is refused is left out.
ApplyAcceptable(run, e) ==
    IF \/ run.broker.applied_sequence >= e.sequence
       \/ e.operation = "PutObject" /\ publisher.store[e.oid] \notin Accepted
    THEN run
    ELSE [run EXCEPT !.broker = ApplyEntry(run.broker, e, publisher.store[e.oid])]

\* Slip: what was applied is read off the consumer's own journal.
ApplyByOwnSequence(run, e) ==
    IF run.broker.sequence >= e.sequence
    THEN run
    ELSE [run EXCEPT !.broker = ApplyEntry(run.broker, e, publisher.store[e.oid])]

\* One turn of the loop: skip what was applied, stop at what is refused.
ApplyNext(run, e) ==
    IF run.failed \/ run.broker.applied_sequence >= e.sequence
    THEN run
    ELSE IF e.operation = "PutObject" /\ publisher.store[e.oid] \notin Accepted
    THEN [run EXCEPT !.failed = TRUE]
    ELSE [run EXCEPT !.broker = ApplyEntry(run.broker, e, publisher.store[e.oid])]

\* The loop after each entry of the journal: the response is the journal, in its
\* order, without what was filtered out.
Turns(b, entries) ==
    LET turn[k \in 0..Len(publisher.journal)] ==
            IF k = 0 THEN [broker |-> b, failed |-> FALSE]
            ELSE IF publisher.journal[k] \in entries
                 THEN ApplyNext(turn[k - 1], publisher.journal[k])
                 ELSE turn[k - 1]
    IN  turn

ApplySyncResponse(b, entries) == Turns(b, entries)[Len(publisher.journal)]

PullEntries(entries) ==
    LET run == ApplySyncResponse(consumer, entries)
    IN  /\ consumer' = run.broker
        /\ lastPull' = IF run.failed THEN "failed" ELSE "ok"
        /\ UNCHANGED <<publisher, snapshot, writes>>

\* pull_and_apply: every entry, those of inactive objects included.
PullAndApply(since) ==
    /\ setup.agent = "raw"
    /\ PullEntries(SyncSince(publisher, since))

\* pull_and_apply_secured and pull_and_apply_for_subject.
PullAndApplySecured(since) ==
    /\ setup.agent = "secured"
    /\ PullEntries(SyncSinceAs(since))

-----------------------------------------------------------------------------
\* Slip: the cursor is set one entry back, so as to read the last one again.
ReloadOneBack(b) == [b EXCEPT !.applied_sequence = b.applied_sequence - 1]

\* load: a snapshot without a cursor is given its own latest sequence.
Reload(b) ==
    [b EXCEPT !.applied_sequence =
        IF b.applied_sequence = 0 THEN b.sequence ELSE b.applied_sequence]

Save ==
    /\ setup.restarts
    /\ snapshot' = consumer
    /\ lastPull' = "none"
    /\ UNCHANGED <<publisher, consumer, writes>>

\* The consumer stops, with or without a last save, and starts from its file.
Restart ==
    /\ setup.restarts
    /\ consumer' = Reload(snapshot)
    /\ lastPull' = "none"
    /\ UNCHANGED <<publisher, snapshot, writes>>

Step ==
    \/ \E o \in PublisherOid, i \in ValidInstance : PublisherPut(o, i)
    \/ \E o \in PublisherOid : PublisherDelete(o)
    \/ \E o \in ConsumerOid, i \in Accepted : ConsumerPut(o, i)
    \/ \E since \in {0, consumer.applied_sequence} : \* what callers pass
            PullAndApply(since) \/ PullAndApplySecured(since)
    \/ Save
    \/ Restart

Next == Step /\ UNCHANGED setup

Spec == Init /\ [][Next]_vars

-----------------------------------------------------------------------------
\* Types of the brokers and of the agent's bookkeeping (replication.rs:8-14).
TypeOK ==
    /\ setup \in Setups
    /\ publisher \in Broker /\ consumer \in Broker /\ snapshot \in Broker
    /\ writes \in 0..MaxWrites
    /\ lastPull \in {"none", "ok", "failed"}

\* What the subscriber is given at all.
Subscribed == IF setup.agent = "raw" THEN Instance ELSE Readable

\* The cursor covers what it claims, through failed pulls, re-reads from 0 and
\* restarts from an old snapshot: an object whose last entry lies at or before
\* the cursor is read at the consumer as at the publisher, unless its present
\* content is withheld from the subscriber (replication.rs:91, persistence.rs:65).
CursorCovers ==
    \A k \in DOMAIN publisher.journal :
        LET o == publisher.journal[k].oid
        IN  /\ IsLast(publisher, k)
            /\ k <= consumer.applied_sequence
            /\ View(publisher)[o] \in Subscribed \cup {NoInstance}
            => View(consumer)[o] = View(publisher)[o]

\* A pull that reports success leaves the consumer with everything the
\* subscriber may read, and without what was deleted, whatever was skipped
\* (replication.rs:82-104; the conformance test two_node_converge).
PullConverges ==
    lastPull = "ok" =>
        \A o \in PublisherOid :
            View(publisher)[o] \in Subscribed \cup {NoInstance}
                => View(consumer)[o] = View(publisher)[o]
=============================================================================
