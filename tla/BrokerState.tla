---------------------------- MODULE BrokerState ----------------------------
(***************************************************************************)
(* The state of one MIP4-IES exchange broker as a value, and its           *)
(* operations as functions from broker values to broker values             *)
(* (crates/mim-transport/src/broker.rs).  The machines that own a broker   *)
(* (ExchangeBroker, Replication, Federation, ExchangePersistence) keep it  *)
(* in a variable; a broker is a value because the HTTP notify handler      *)
(* clones one, works on the clone, and writes the clone back.              *)
(*                                                                         *)
(* An instance is its content: everything put_object stores under the OID, *)
(* security label included.                                                *)
(***************************************************************************)
EXTENDS Integers, Sequences, FiniteSets

CONSTANTS
    Oid,           \* object identifiers
    Instance,      \* contents a client may submit for an object
    ValidInstance, \* those that pass the schema and the registry validator
    NoInstance,    \* the store has no entry for the OID
    MaxSequence    \* u64::MAX, the largest journal sequence number

ASSUME BrokerAssumption ==
    /\ ValidInstance \subseteq Instance
    /\ NoInstance \notin Instance
    /\ MaxSequence \in Nat \ {0}

Sequence  == 0..MaxSequence
Operation == {"PutObject", "DeleteObject"}
Entry     == [sequence: Sequence, operation: Operation, oid: Oid]
Broker    == [store: [Oid -> Instance \cup {NoInstance}],
              inactive: SUBSET Oid,
              journal: Seq(Entry),
              sequence: Sequence,
              applied_sequence: Sequence]

NewBroker == [store |-> [o \in Oid |-> NoInstance], inactive |-> {},
              journal |-> <<>>, sequence |-> 0, applied_sequence |-> 0]

Stored(b) == {o \in Oid : b.store[o] # NoInstance}
Active(b) == Stored(b) \ b.inactive

\* What get_by_oid answers: the content of an active object, nothing for an
\* unknown or a retired one.
View(b) == [o \in Oid |-> IF o \in b.inactive THEN NoInstance ELSE b.store[o]]

\* Slip: + 1 without a limit.
NextSequenceUnbounded(s) == s + 1

\* Slip: wrapping_add(1).
NextSequenceWraps(s) == (s + 1) % (MaxSequence + 1)

\* saturating_add(1) on a u64
NextSequence(s) == IF s < MaxSequence THEN s + 1 ELSE MaxSequence

RecordJournal(b, op, o) ==
    [b EXCEPT !.sequence = NextSequence(b.sequence),
              !.journal = Append(b.journal, [sequence |-> NextSequence(b.sequence),
                                             operation |-> op, oid |-> o])]

\* Slip: a put that leaves a retired object inactive.
PutInactive(b, o, i) ==
    RecordJournal([b EXCEPT !.store = [b.store EXCEPT ![o] = i]], "PutObject", o)

\* Enabled only for i \in ValidInstance; the caller gets Validation otherwise.
PutObject(b, o, i) ==
    RecordJournal([b EXCEPT !.store = [b.store EXCEPT ![o] = i],
                            !.inactive = b.inactive \ {o}],
                  "PutObject", o)

\* Slip: a delete that removes the content.
DeleteErases(b, o) ==
    RecordJournal([b EXCEPT !.store = [b.store EXCEPT ![o] = NoInstance],
                            !.inactive = b.inactive \cup {o}],
                  "DeleteObject", o)

\* Slip: a delete that is not journalled.
DeleteSilently(b, o) == [b EXCEPT !.inactive = b.inactive \cup {o}]

\* Enabled only for o \in Stored(b).  An object that is already inactive is
\* journalled again.
DeleteObject(b, o) ==
    RecordJournal([b EXCEPT !.inactive = b.inactive \cup {o}], "DeleteObject", o)

\* publish_store stops at the first instance put_object refuses and keeps what
\* it stored before it; written out for a load of two objects.
PublishStore(b, o1, i1, o2, i2) ==
    LET first == PutObject(b, o1, i1)
    IN  CASE i1 \notin ValidInstance -> b
          [] i1 \in ValidInstance /\ i2 \notin ValidInstance -> first
          [] OTHER -> PutObject(first, o2, i2)

\* Slip: the cursor is moved to the next entry to ask for.
ApplyPutAhead(b, e, i) ==
    [PutObject(b, e.oid, i) EXCEPT !.applied_sequence = NextSequence(e.sequence)]

ApplyPutEntry(b, e, i) ==
    [PutObject(b, e.oid, i) EXCEPT !.applied_sequence = e.sequence]

\* Slip: a delete is recorded for an object the consumer never stored.
ApplyDeleteUnknown(b, e) ==
    [DeleteObject(b, e.oid) EXCEPT !.applied_sequence = e.sequence]

\* A delete of an object the consumer never stored only moves the cursor.
ApplyDeleteEntry(b, e) ==
    [(IF e.oid \in Stored(b) THEN DeleteObject(b, e.oid) ELSE b)
        EXCEPT !.applied_sequence = e.sequence]

\* apply_remote_entry and apply_entry_from once the instance is at hand.
ApplyEntry(b, e, i) ==
    IF e.operation = "PutObject" THEN ApplyPutEntry(b, e, i) ELSE ApplyDeleteEntry(b, e)

\* Slip: the cursor is taken for the first entry wanted.
SyncSincePast(b, since) ==
    {b.journal[k] : k \in {j \in DOMAIN b.journal : b.journal[j].sequence > since + 1}}

\* The entries of sync_since, as a set: until the counter saturates an entry's
\* number is its position (JournalNumbered), so the set and the order in which
\* a consumer walks it are the response.
SyncSince(b, since) ==
    {b.journal[k] : k \in {j \in DOMAIN b.journal : b.journal[j].sequence > since}}

\* The journal without its numbers.
Feed(b) == [k \in DOMAIN b.journal |-> <<b.journal[k].operation, b.journal[k].oid>>]

-----------------------------------------------------------------------------
(* What a broker's journal is expected to be; the machines' invariants are  *)
(* made of these.                                                           *)

\* The k-th entry carries number k until the u64 saturates, and the counter is
\* the number of the newest entry.
Numbered(b) ==
    /\ \A k \in DOMAIN b.journal :
          b.journal[k].sequence = IF k <= MaxSequence THEN k ELSE MaxSequence
    /\ b.sequence = IF Len(b.journal) <= MaxSequence THEN Len(b.journal) ELSE MaxSequence

\* Entry k is the last word of the journal on its object.
IsLast(b, k) ==
    \A m \in DOMAIN b.journal : m > k => b.journal[m].oid # b.journal[k].oid

\* The journal alone tells which objects are readable.
TellsActive(b) ==
    \A k \in DOMAIN b.journal :
        IsLast(b, k) => (b.journal[k].operation = "PutObject"
                            <=> b.journal[k].oid \in Active(b))

PutIn(b, o) ==
    \E k \in DOMAIN b.journal :
        b.journal[k].oid = o /\ b.journal[k].operation = "PutObject"

\* Nothing is stored that the journal does not announce, and nothing is
\* inactive that was never stored.
Journalled(b) ==
    /\ Stored(b) = {o \in Oid : PutIn(b, o)}
    /\ b.inactive \subseteq Stored(b)

\* No delete of an object that was not put before.
DeletesFollow(b) ==
    \A k \in DOMAIN b.journal :
        b.journal[k].operation = "DeleteObject" =>
            \E m \in 1..(k - 1) : b.journal[m].oid = b.journal[k].oid
                                    /\ b.journal[m].operation = "PutObject"
=============================================================================
