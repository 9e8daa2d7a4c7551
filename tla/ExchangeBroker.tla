--------------------------- MODULE ExchangeBroker ---------------------------
(***************************************************************************)
(* One exchange broker and everything that changes it: clients that put    *)
(* and delete objects, the bulk load, and a replication agent that applies *)
(* journal entries of some publisher                                       *)
(* (crates/mim-transport/src/broker.rs).  Every operation takes the broker *)
(* by &mut, so each is one step.                                           *)
(***************************************************************************)
EXTENDS BrokerState

CONSTANT MaxJournal \* no operation starts on a journal this long: the model's bound

VARIABLE broker

vars == <<broker>>

Init == broker = NewBroker

MayStep == Len(broker.journal) < MaxJournal

Put(o, i) ==
    /\ MayStep
    /\ broker' = PutObject(broker, o, i)

Delete(o) ==
    /\ MayStep
    /\ o \in Stored(broker)
    /\ broker' = DeleteObject(broker, o)

Publish(o1, i1, o2, i2) ==
    /\ MayStep
    /\ broker' = PublishStore(broker, o1, i1, o2, i2)

\* Slip: entries that were applied before are applied again.
ApplyAnyEntry(e, i) ==
    /\ MayStep
    /\ broker' = ApplyEntry(broker, e, i)

\* The agent hands over an entry it has not applied yet; for a put, with an
\* instance this broker's validator accepts.
ApplyRemoteEntry(e, i) ==
    /\ MayStep
    /\ e.sequence > broker.applied_sequence
    /\ broker' = ApplyEntry(broker, e, i)

Next ==
    \/ \E o \in Oid, i \in ValidInstance : Put(o, i)
    \/ \E o \in Oid : Delete(o)
    \/ \E o1, o2 \in Oid, i1, i2 \in Instance : Publish(o1, i1, o2, i2)
    \/ \E e \in Entry, i \in ValidInstance : ApplyRemoteEntry(e, i)

Spec == Init /\ [][Next]_vars

-----------------------------------------------------------------------------
\* The broker record is well typed (broker.rs:17).
TypeOK == broker \in Broker

\* Until the u64 saturates, an entry's number is its position in the journal and
\* the counter is the newest number: what sync_since compares a cursor with
\* (broker.rs:159, 305).
JournalNumbered == Numbered(broker)

\* A consumer that replays the journal from 0 ends with the publisher's set of
\* active objects, however puts, deletes, repeated deletes and applied entries
\* were mixed (broker.rs:192, 289).
JournalTellsActive == TellsActive(broker)

\* Every stored object was announced and every announced object is still stored:
\* a soft delete keeps the content, and only stored objects are ever inactive
\* (broker.rs:289-303, and the tests that expect len() = 1 after a delete).
StoreIsJournalled == Journalled(broker)

\* A consumer walking the journal from its beginning never meets the delete of
\* an object it has not been given before (broker.rs:133, 293).
DeletesFollowPuts == DeletesFollow(broker)

\* A poller whose cursor is the latest sequence misses nothing: whatever object
\* a step makes readable, unreadable or different is named by an entry beyond
\* that cursor, of the right operation.  Not so once the counter has
\* saturated (broker.rs:159, 305).
ChangesReachPollers ==
    [][broker.sequence < MaxSequence =>
        \A o \in Oid : View(broker)[o] # View(broker')[o] =>
            \E e \in SyncSince(broker', broker.sequence) :
                /\ e.oid = o
                /\ e.operation = IF View(broker')[o] = NoInstance
                                 THEN "DeleteObject" ELSE "PutObject"]_vars

\* Replication has no way back: the cursor of applied entries only grows, and
\* the journal only grows at its end (broker.rs:129, 139, 305).
HistoryOnlyGrows ==
    [][/\ broker.applied_sequence <= broker'.applied_sequence
       /\ Len(broker.journal) <= Len(broker'.journal)
       /\ \A k \in DOMAIN broker.journal : broker'.journal[k] = broker.journal[k]]_vars

Exchange == INSTANCE ObjectExchange WITH
    visible <- View(broker),
    feed <- Feed(broker)

\* The broker implements the exchange its clients and peers rely on: a change of
\* what they read and the record of it in the change feed are one step
\* (broker.rs:192-323).
ImplementsExchange == Exchange!ExchangeSpec
=============================================================================
