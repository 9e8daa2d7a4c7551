------------------------ MODULE ExchangeBrokerProofs ------------------------
(***************************************************************************)
(* The exchange broker for every set of objects and contents, every        *)
(* journal length and every width of the sequence counter: types, the      *)
(* invariants that tie the journal to the store, the action properties,    *)
(* and the refinement of ObjectExchange.                                   *)
(***************************************************************************)
EXTENDS ExchangeBroker, BrokerStateProofs

-----------------------------------------------------------------------------
(* The invariants of the machine.                                          *)

IInv == SoundBroker(broker)

\* A new broker satisfies the invariant (broker.rs:27).
LEMMA InitSound == Init => IInv
BY NewBrokerSound DEF Init, IInv

\* Every operation of the broker keeps it (broker.rs:99-323).
LEMMA NextSound == IInv /\ [Next]_vars => IInv'
<1> SUFFICES ASSUME IInv, [Next]_vars PROVE IInv'
  OBVIOUS
<1> USE DEF IInv
<1>1. ASSUME NEW o \in Oid, NEW i \in ValidInstance, Put(o, i) PROVE IInv'
  BY BrokerAssumption, <1>1, PutSound DEF Put
<1>2. ASSUME NEW o \in Oid, Delete(o) PROVE IInv'
  BY <1>2, DeleteSound DEF Delete
<1>3. ASSUME NEW o1 \in Oid, NEW o2 \in Oid, NEW i1 \in Instance, NEW i2 \in Instance,
             Publish(o1, i1, o2, i2)
      PROVE  IInv'
  BY <1>3, PublishSound DEF Publish
<1>4. ASSUME NEW e \in Entry, NEW i \in ValidInstance, ApplyRemoteEntry(e, i) PROVE IInv'
  BY BrokerAssumption, <1>4, ApplySound DEF ApplyRemoteEntry
<1>5. CASE UNCHANGED vars
  BY <1>5 DEF vars
<1>6. QED
  BY <1>1, <1>2, <1>3, <1>4, <1>5 DEF Next

\* The inductive invariant holds of every behaviour of the broker
\* (broker.rs:17-323).
THEOREM AlwaysSound == Spec => []IInv
BY InitSound, NextSound, PTL DEF Spec

\* The broker record stays well typed: no sequence number leaves the u64, no
\* content that failed validation is stored (broker.rs:17).
THEOREM TypeCorrect == Spec => []TypeOK
<1>1. IInv => TypeOK
  BY DEF IInv, SoundBroker, TypeOK
<1>2. QED
  BY <1>1, AlwaysSound, PTL

\* Until the u64 saturates an entry's number is its position (broker.rs:305).
THEOREM JournalIsNumbered == Spec => []JournalNumbered
<1>1. IInv => JournalNumbered
  BY DEF IInv, SoundBroker, JournalNumbered
<1>2. QED
  BY <1>1, AlwaysSound, PTL

\* The journal alone tells which objects are readable (broker.rs:192, 289).
THEOREM JournalIsComplete == Spec => []JournalTellsActive
<1>1. IInv => JournalTellsActive
  BY DEF IInv, SoundBroker, JournalTellsActive
<1>2. QED
  BY <1>1, AlwaysSound, PTL

\* Stored is exactly what was announced (broker.rs:289-303).
THEOREM StoreFollowsJournal == Spec => []StoreIsJournalled
<1>1. IInv => StoreIsJournalled
  BY DEF IInv, SoundBroker, StoreIsJournalled
<1>2. QED
  BY <1>1, AlwaysSound, PTL

\* No delete is journalled before a put of its object (broker.rs:133, 293).
THEOREM DeletesFollowTheirPuts == Spec => []DeletesFollowPuts
<1>1. IInv => DeletesFollowPuts
  BY DEF IInv, SoundBroker, DeletesFollowPuts
<1>2. QED
  BY <1>1, AlwaysSound, PTL

-----------------------------------------------------------------------------
(* What a step adds to the journal: Announces composes along the chain of  *)
(* puts, deletes and cursor moves an operation is.                         *)

\* Every step of the broker announces what it changes and never moves the
\* cursor back (broker.rs:99-323).
LEMMA StepAnnounces ==
    IInv /\ [Next]_vars =>
        /\ Announces(broker, broker')
        /\ broker.applied_sequence <= broker'.applied_sequence
<1> SUFFICES ASSUME IInv, [Next]_vars
             PROVE  /\ Announces(broker, broker')
                    /\ broker.applied_sequence <= broker'.applied_sequence
  OBVIOUS
<1>1. broker \in Broker /\ broker.applied_sequence \in Nat
  BY BrokerAssumption DEF IInv, SoundBroker, Broker, Sequence
<1>2. ASSUME NEW o \in Oid, NEW i \in ValidInstance, Put(o, i)
      PROVE  /\ Announces(broker, broker')
             /\ broker.applied_sequence <= broker'.applied_sequence
  <2>1. broker'.applied_sequence = broker.applied_sequence
    BY BrokerAssumption, <1>1, <1>2, PutFields, ZenonT(30) DEF Put
  <2>2. QED
    BY <1>1, <1>2, <2>1, BrokerAssumption, PutAnnounces DEF Put
<1>3. ASSUME NEW o \in Oid, Delete(o)
      PROVE  /\ Announces(broker, broker')
             /\ broker.applied_sequence <= broker'.applied_sequence
  <2>1. broker'.applied_sequence = broker.applied_sequence
    BY <1>1, <1>3, DeleteFields DEF Delete
  <2>2. QED
    BY <1>1, <1>3, <2>1, DeleteAnnounces DEF Delete
<1>4. ASSUME NEW o1 \in Oid, NEW o2 \in Oid, NEW i1 \in Instance, NEW i2 \in Instance,
             Publish(o1, i1, o2, i2)
      PROVE  /\ Announces(broker, broker')
             /\ broker.applied_sequence <= broker'.applied_sequence
  <2> DEFINE first == PutObject(broker, o1, i1)
  <2>1. broker' = PublishStore(broker, o1, i1, o2, i2)
    BY <1>4 DEF Publish
  <2>2. CASE i1 \notin ValidInstance
    <3>1. broker' = broker
      BY <2>1, <2>2 DEF PublishStore
    <3>2. QED
      BY <1>1, <3>1, NothingAnnounces
  <2>3. CASE i1 \in ValidInstance /\ i2 \notin ValidInstance
    <3>1. broker' = first
      BY <2>1, <2>3 DEF PublishStore
    <3>2. first.applied_sequence = broker.applied_sequence
      BY <1>1, <2>3, PutFields, ZenonT(30)
    <3>3. QED
      BY <1>1, <2>3, <3>1, <3>2, BrokerAssumption, PutAnnounces
  <2>4. CASE i1 \in ValidInstance /\ i2 \in ValidInstance
    <3>1. broker' = PutObject(first, o2, i2)
      BY <2>1, <2>4 DEF PublishStore
    <3>2. first \in Broker /\ Announces(broker, first)
      BY <1>1, <2>4, BrokerAssumption, PutAnnounces
    <3>3. first.applied_sequence = broker.applied_sequence
      BY <1>1, <2>4, PutFields, ZenonT(30)
    <3> HIDE DEF first
    <3>4. broker' \in Broker /\ Announces(first, broker')
      BY <2>4, <3>1, <3>2, BrokerAssumption, PutAnnounces
    <3>5. broker'.applied_sequence = broker.applied_sequence
      <4>1. PutObject(first, o2, i2).applied_sequence = first.applied_sequence
        BY <2>4, <3>2, PutFields, ZenonT(30)
      <4>2. QED
        BY <3>1, <3>3, <4>1
    <3>6. QED
      BY <1>1, <3>2, <3>4, <3>5, AnnouncesChain
  <2>5. QED
    BY <2>2, <2>3, <2>4
<1>5. ASSUME NEW e \in Entry, NEW i \in ValidInstance, ApplyRemoteEntry(e, i)
      PROVE  /\ Announces(broker, broker')
             /\ broker.applied_sequence <= broker'.applied_sequence
  <2> DEFINE changed == CASE e.operation = "PutObject" -> PutObject(broker, e.oid, i)
                          [] e.operation # "PutObject" /\ e.oid \in Stored(broker)
                               -> DeleteObject(broker, e.oid)
                          [] OTHER -> broker
  <2>1. e.oid \in Oid /\ e.sequence \in Sequence /\ e.sequence \in Nat
    BY BrokerAssumption DEF Entry, Sequence
  <2>2. broker' = [changed EXCEPT !.applied_sequence = e.sequence]
    BY <1>5 DEF ApplyRemoteEntry, ApplyEntry, ApplyPutEntry, ApplyDeleteEntry
  <2>3. changed \in Broker /\ Announces(broker, changed)
    <3>1. CASE e.operation = "PutObject"
      BY <1>1, <2>1, <3>1, BrokerAssumption, PutAnnounces
    <3>2. CASE e.operation # "PutObject" /\ e.oid \in Stored(broker)
      BY <1>1, <2>1, <3>2, DeleteAnnounces
    <3>3. CASE e.operation # "PutObject" /\ e.oid \notin Stored(broker)
      BY <1>1, <3>3, NothingAnnounces
    <3>4. QED
      BY <3>1, <3>2, <3>3
  <2> HIDE DEF changed
  <2>4. broker' \in Broker /\ Announces(changed, broker')
    BY <2>1, <2>2, <2>3, CursorAnnounces
  <2>5. broker'.applied_sequence = e.sequence
    BY <2>1, <2>2, <2>3, CursorFields
  <2>6. broker.applied_sequence <= e.sequence
    BY <1>1, <1>5, <2>1 DEF ApplyRemoteEntry
  <2>7. QED
    BY <1>1, <2>3, <2>4, <2>5, <2>6, AnnouncesChain
<1>6. CASE UNCHANGED vars
  BY <1>1, <1>6, NothingAnnounces DEF vars
<1>7. QED
  BY <1>2, <1>3, <1>4, <1>5, <1>6 DEF Next

\* The cursor and the journal only grow (broker.rs:129, 139, 305).
THEOREM HistoryGrows == Spec => HistoryOnlyGrows
<1>1. IInv /\ [Next]_vars =>
        [/\ broker.applied_sequence <= broker'.applied_sequence
         /\ Len(broker.journal) <= Len(broker'.journal)
         /\ \A k \in DOMAIN broker.journal : broker'.journal[k] = broker.journal[k]]_vars
  BY StepAnnounces DEF Announces
<1>2. QED
  BY <1>1, AlwaysSound, PTL DEF Spec, HistoryOnlyGrows

\* The entry behind every visible change lies beyond the cursor of a poller
\* that was up to date, until the u64 saturates (broker.rs:159, 305).
LEMMA ChangeIsServed ==
    ASSUME IInv, IInv', Announces(broker, broker'), broker.sequence < MaxSequence,
           NEW o \in Oid, View(broker)[o] # View(broker')[o]
    PROVE  \E e \in SyncSince(broker', broker.sequence) :
              /\ e.oid = o
              /\ e.operation = IF View(broker')[o] = NoInstance
                               THEN "DeleteObject" ELSE "PutObject"
<1>1. PICK k \in DOMAIN broker'.journal :
          /\ k > Len(broker.journal)
          /\ broker'.journal[k].oid = o
          /\ broker'.journal[k].operation = IF View(broker')[o] = NoInstance
                                            THEN "DeleteObject" ELSE "PutObject"
  BY DEF Announces
<1>2. broker \in Broker /\ Numbered(broker) /\ broker' \in Broker /\ Numbered(broker')
  BY DEF IInv, SoundBroker
<1>3. Len(broker.journal) \in Nat /\ k \in Nat
  BY <1>2 DEF Broker
<1>4. broker.sequence = Len(broker.journal)
  BY <1>2, <1>3, BrokerAssumption DEF Numbered
<1>5. broker'.journal[k].sequence = IF k <= MaxSequence THEN k ELSE MaxSequence
  BY <1>2 DEF Numbered
<1>6. broker'.journal[k].sequence > broker.sequence
  BY <1>1, <1>3, <1>4, <1>5, BrokerAssumption
<1>7. broker'.journal[k] \in SyncSince(broker', broker.sequence)
  BY <1>6 DEF SyncSince
<1>8. QED
  BY <1>1, <1>7

\* A poller that is up to date misses no change (broker.rs:159, 305).
THEOREM PollersMissNothing == Spec => ChangesReachPollers
<1>1. IInv /\ IInv' /\ [Next]_vars =>
        [broker.sequence < MaxSequence =>
            \A o \in Oid : View(broker)[o] # View(broker')[o] =>
                \E e \in SyncSince(broker', broker.sequence) :
                    /\ e.oid = o
                    /\ e.operation = IF View(broker')[o] = NoInstance
                                     THEN "DeleteObject" ELSE "PutObject"]_vars
  BY StepAnnounces, ChangeIsServed
<1>2. QED
  BY <1>1, AlwaysSound, PTL DEF Spec, ChangesReachPollers

-----------------------------------------------------------------------------
(* The broker implements ObjectExchange under visible <- View(broker),     *)
(* feed <- Feed(broker).                                                   *)

\* Recording an entry appends one record to the feed (broker.rs:305).
LEMMA FeedGrows ==
    ASSUME NEW b \in Broker, NEW c \in Broker, NEW e \in Entry,
           c.journal = Append(b.journal, e)
    PROVE  Feed(c) = Append(Feed(b), <<e.operation, e.oid>>)
<1> DEFINE n == Len(b.journal)
           T == Operation \X Oid
<1>1. /\ DOMAIN c.journal = DOMAIN b.journal \cup {n + 1}
      /\ DOMAIN b.journal = 1..n /\ n \in Nat
      /\ \A k \in DOMAIN b.journal : c.journal[k] = b.journal[k]
      /\ c.journal[n + 1] = e
  BY JournalGrows
<1>2. \A k \in 1..n : <<b.journal[k].operation, b.journal[k].oid>> \in T
  BY <1>1, EntryFields
<1>3. Feed(b) \in Seq(T) /\ Len(Feed(b)) = n
  <2>1. Feed(b) \in [1..n -> T]
    BY <1>1, <1>2 DEF Feed
  <2>2. QED
    BY <1>1, <2>1
<1>4. <<e.operation, e.oid>> \in T
  BY DEF Entry
<1>5. /\ DOMAIN Append(Feed(b), <<e.operation, e.oid>>) = 1..(n + 1)
      /\ \A k \in 1..n : Append(Feed(b), <<e.operation, e.oid>>)[k] = Feed(b)[k]
      /\ Append(Feed(b), <<e.operation, e.oid>>)[n + 1] = <<e.operation, e.oid>>
      /\ Append(Feed(b), <<e.operation, e.oid>>)
            = [k \in 1..(n + 1) |-> Append(Feed(b), <<e.operation, e.oid>>)[k]]
  BY <1>1, <1>3, <1>4
<1>6. DOMAIN c.journal = 1..(n + 1)
  BY <1>1
<1>7. \A k \in 1..(n + 1) : <<c.journal[k].operation, c.journal[k].oid>>
                              = Append(Feed(b), <<e.operation, e.oid>>)[k]
  BY <1>1, <1>5 DEF Feed
<1>8. QED
  BY <1>5, <1>6, <1>7 DEF Feed

\* put_object is the exchange's publication of one object (broker.rs:192).
LEMMA PutRefines ==
    ASSUME NEW b \in Broker, NEW o \in Oid, NEW i \in ValidInstance
    PROVE  LET c == PutObject(b, o, i)
           IN  /\ View(c) = [View(b) EXCEPT ![o] = i]
               /\ Feed(c) = Append(Feed(b), <<"PutObject", o>>)
<1> DEFINE c == PutObject(b, o, i)
           e == NewEntry(b, "PutObject", o)
<1>1. /\ c \in Broker
      /\ c.store = [b.store EXCEPT ![o] = i] /\ c.inactive = b.inactive \ {o}
      /\ c.journal = Append(b.journal, e)
  BY BrokerAssumption, PutFields
<1>2. e \in Entry /\ e.oid = o /\ e.operation = "PutObject"
  BY BrokerAssumption DEF NewEntry, Entry, Operation, NextSequence, Sequence, Broker
<1> HIDE DEF c, e
<1>3. Feed(c) = Append(Feed(b), <<"PutObject", o>>)
  BY <1>1, <1>2, FeedGrows
<1>4. View(c) = [View(b) EXCEPT ![o] = i]
  BY <1>1 DEF View, Broker
<1>5. QED
  BY <1>3, <1>4 DEF c

\* delete_object is the exchange's retirement of one object (broker.rs:289).
LEMMA DeleteRefines ==
    ASSUME NEW b \in Broker, NEW o \in Oid
    PROVE  LET c == DeleteObject(b, o)
           IN  /\ View(c) = [View(b) EXCEPT ![o] = NoInstance]
               /\ Feed(c) = Append(Feed(b), <<"DeleteObject", o>>)
<1> DEFINE c == DeleteObject(b, o)
           e == NewEntry(b, "DeleteObject", o)
<1>1. /\ c \in Broker
      /\ c.store = b.store /\ c.inactive = b.inactive \cup {o}
      /\ c.journal = Append(b.journal, e)
  BY DeleteFields
<1>2. e \in Entry /\ e.oid = o /\ e.operation = "DeleteObject"
  BY BrokerAssumption DEF NewEntry, Entry, Operation, NextSequence, Sequence, Broker
<1> HIDE DEF c, e
<1>3. Feed(c) = Append(Feed(b), <<"DeleteObject", o>>)
  BY <1>1, <1>2, FeedGrows
<1>4. View(c) = [View(b) EXCEPT ![o] = NoInstance]
  BY <1>1 DEF View, Broker
<1>5. QED
  BY <1>3, <1>4 DEF c

\* The cursor is no part of the exchange (broker.rs:129).
LEMMA CursorRefines ==
    ASSUME NEW b \in Broker, NEW s \in Sequence
    PROVE  LET c == [b EXCEPT !.applied_sequence = s]
           IN  View(c) = View(b) /\ Feed(c) = Feed(b)
<1> DEFINE c == [b EXCEPT !.applied_sequence = s]
<1>1. c.store = b.store /\ c.inactive = b.inactive /\ c.journal = b.journal
  BY CursorFields
<1> HIDE DEF c
<1>2. View(c) = View(b) /\ Feed(c) = Feed(b)
  BY <1>1 DEF View, Feed
<1>3. QED
  BY <1>2 DEF c

\* A stored object has been announced (broker.rs:289).
LEMMA StoredAnnounced ==
    ASSUME SoundBroker(broker), NEW o \in Stored(broker)
    PROVE  Exchange!Announced(o)
<1>1. PICK k \in DOMAIN broker.journal :
          broker.journal[k].oid = o /\ broker.journal[k].operation = "PutObject"
  BY DEF SoundBroker, Journalled, PutIn
<1>2. k \in DOMAIN Feed(broker) /\ Feed(broker)[k] = <<"PutObject", o>>
  BY <1>1 DEF Feed
<1>3. QED
  BY <1>2 DEF Exchange!Announced

\* Every step of the broker is a step of the exchange, or changes nothing the
\* exchange speaks of (broker.rs:99-323).
LEMMA StepRefines ==
    IInv /\ [Next]_vars => [Exchange!ExchangeNext]_(Exchange!exchangeVars)
<1> SUFFICES ASSUME IInv, [Next]_vars
             PROVE  \/ Exchange!ExchangeNext
                    \/ View(broker') = View(broker) /\ Feed(broker') = Feed(broker)
  BY DEF Exchange!exchangeVars
<1>1. SoundBroker(broker) /\ broker \in Broker
  BY DEF IInv, SoundBroker
<1>2. ASSUME NEW o \in Oid, NEW i \in ValidInstance, broker' = PutObject(broker, o, i)
      PROVE  Exchange!Publish(o, i)
  BY <1>1, <1>2, PutRefines DEF Exchange!Publish
<1>3. ASSUME NEW o \in Stored(broker), broker' = DeleteObject(broker, o)
      PROVE  o \in Oid /\ Exchange!Retire(o)
  <2>1. o \in Oid
    BY DEF Stored
  <2>2. Exchange!Announced(o)
    BY <1>1, StoredAnnounced
  <2>3. QED
    BY <1>1, <1>3, <2>1, <2>2, DeleteRefines DEF Exchange!Retire
<1>4. ASSUME NEW o \in Oid, NEW i \in ValidInstance, Put(o, i)
      PROVE  Exchange!ExchangeNext
  BY <1>2, <1>4 DEF Put, Exchange!ExchangeNext
<1>5. ASSUME NEW o \in Oid, Delete(o) PROVE Exchange!ExchangeNext
  BY <1>3, <1>5 DEF Delete, Exchange!ExchangeNext
<1>6. ASSUME NEW o1 \in Oid, NEW o2 \in Oid, NEW i1 \in Instance, NEW i2 \in Instance,
             Publish(o1, i1, o2, i2)
      PROVE  \/ Exchange!ExchangeNext
             \/ View(broker') = View(broker) /\ Feed(broker') = Feed(broker)
  <2> DEFINE first == PutObject(broker, o1, i1)
  <2>1. broker' = PublishStore(broker, o1, i1, o2, i2)
    BY <1>6 DEF Publish
  <2>2. CASE i1 \notin ValidInstance
    BY <2>1, <2>2 DEF PublishStore
  <2>3. CASE i1 \in ValidInstance /\ i2 \notin ValidInstance
    <3>1. broker' = first
      BY <2>1, <2>3 DEF PublishStore
    <3>2. Exchange!Publish(o1, i1)
      BY <1>2, <2>3, <3>1
    <3>3. QED
      BY <2>3, <3>2 DEF Exchange!ExchangeNext
  <2>4. CASE i1 \in ValidInstance /\ i2 \in ValidInstance
    <3>1. broker' = PutObject(first, o2, i2)
      BY <2>1, <2>4 DEF PublishStore
    <3>2. /\ first \in Broker
          /\ View(first) = [View(broker) EXCEPT ![o1] = i1]
          /\ Feed(first) = Append(Feed(broker), <<"PutObject", o1>>)
      <4>1. first \in Broker
        BY <1>1, <2>4, BrokerAssumption, PutAnnounces
      <4>2. /\ View(first) = [View(broker) EXCEPT ![o1] = i1]
            /\ Feed(first) = Append(Feed(broker), <<"PutObject", o1>>)
        BY <1>1, <2>4, PutRefines
      <4>3. QED
        BY <4>1, <4>2
    <3> HIDE DEF first
    <3>3. /\ View(broker') = [View(first) EXCEPT ![o2] = i2]
          /\ Feed(broker') = Append(Feed(first), <<"PutObject", o2>>)
      BY <2>4, <3>1, <3>2, PutRefines, ZenonT(30)
    <3>4. Exchange!PublishBoth(o1, i1, o2, i2)
      BY <3>2, <3>3 DEF Exchange!PublishBoth
    <3>5. QED
      BY <2>4, <3>4 DEF Exchange!ExchangeNext
  <2>5. QED
    BY <2>2, <2>3, <2>4
<1>7. ASSUME NEW e \in Entry, NEW i \in ValidInstance, ApplyRemoteEntry(e, i)
      PROVE  \/ Exchange!ExchangeNext
             \/ View(broker') = View(broker) /\ Feed(broker') = Feed(broker)
  <2>1. e.oid \in Oid /\ e.sequence \in Sequence
    BY DEF Entry
  <2>2. CASE e.operation = "PutObject"
    <3> DEFINE put == PutObject(broker, e.oid, i)
    <3>1. broker' = [put EXCEPT !.applied_sequence = e.sequence]
      BY <1>7, <2>2 DEF ApplyRemoteEntry, ApplyEntry, ApplyPutEntry
    <3>2. /\ put \in Broker
          /\ View(put) = [View(broker) EXCEPT ![e.oid] = i]
          /\ Feed(put) = Append(Feed(broker), <<"PutObject", e.oid>>)
      <4>1. put \in Broker
        BY <1>1, <2>1, BrokerAssumption, PutAnnounces
      <4>2. /\ View(put) = [View(broker) EXCEPT ![e.oid] = i]
            /\ Feed(put) = Append(Feed(broker), <<"PutObject", e.oid>>)
        BY <1>1, <2>1, PutRefines
      <4>3. QED
        BY <4>1, <4>2
    <3> HIDE DEF put
    <3>3. View(broker') = View(put) /\ Feed(broker') = Feed(put)
      BY <2>1, <3>1, <3>2, CursorRefines
    <3>4. Exchange!Publish(e.oid, i)
      BY <3>2, <3>3 DEF Exchange!Publish
    <3>5. QED
      BY <2>1, <3>4 DEF Exchange!ExchangeNext
  <2>3. CASE e.operation # "PutObject" /\ e.oid \in Stored(broker)
    <3> DEFINE gone == DeleteObject(broker, e.oid)
    <3>1. broker' = [gone EXCEPT !.applied_sequence = e.sequence]
      BY <1>7, <2>3 DEF ApplyRemoteEntry, ApplyEntry, ApplyDeleteEntry
    <3>2. /\ gone \in Broker
          /\ View(gone) = [View(broker) EXCEPT ![e.oid] = NoInstance]
          /\ Feed(gone) = Append(Feed(broker), <<"DeleteObject", e.oid>>)
      BY <1>1, <2>1, DeleteRefines, DeleteFields
    <3> HIDE DEF gone
    <3>3. View(broker') = View(gone) /\ Feed(broker') = Feed(gone)
      BY <2>1, <3>1, <3>2, CursorRefines
    <3>4. Exchange!Announced(e.oid)
      BY <1>1, <2>3, StoredAnnounced
    <3>5. Exchange!Retire(e.oid)
      BY <3>2, <3>3, <3>4 DEF Exchange!Retire
    <3>6. QED
      BY <2>1, <3>5 DEF Exchange!ExchangeNext
  <2>4. CASE e.operation # "PutObject" /\ e.oid \notin Stored(broker)
    <3>1. broker' = [broker EXCEPT !.applied_sequence = e.sequence]
      BY <1>7, <2>4 DEF ApplyRemoteEntry, ApplyEntry, ApplyDeleteEntry
    <3>2. QED
      BY <1>1, <2>1, <3>1, CursorRefines
  <2>5. QED
    BY <2>2, <2>3, <2>4
<1>8. CASE UNCHANGED vars
  BY <1>8 DEF vars
<1>9. QED
  BY <1>4, <1>5, <1>6, <1>7, <1>8 DEF Next

\* A new broker is an empty exchange (broker.rs:27).
LEMMA InitRefines == Init => Exchange!ExchangeInit
<1> SUFFICES ASSUME Init PROVE Exchange!ExchangeInit
  OBVIOUS
<1>1. View(broker) = [o \in Oid |-> NoInstance]
  BY DEF Init, NewBroker, View
<1>2. Feed(broker) = << >>
  BY DEF Init, NewBroker, Feed
<1>3. QED
  BY <1>1, <1>2 DEF Exchange!ExchangeInit

\* The broker implements the exchange (broker.rs:192-323).
THEOREM Refinement == Spec => ImplementsExchange
BY InitRefines, StepRefines, AlwaysSound, PTL
   DEF Spec, ImplementsExchange, Exchange!ExchangeSpec
=============================================================================
