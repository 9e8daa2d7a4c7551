-------------------------- MODULE BrokerStateProofs --------------------------
(***************************************************************************)
(* What the operations of a broker value preserve, for every set of        *)
(* objects and contents, every journal length and every width of the       *)
(* sequence counter: the lemmas of ExchangeBrokerProofs, whose broker is a *)
(* variable, and of the modules that compose brokers.  Those that have     *)
(* loops take their induction from here.                                   *)
(***************************************************************************)
EXTENDS BrokerState, SequenceTheorems, WellFoundedInduction, TLAPS

-----------------------------------------------------------------------------
(* Induction and recursion up to a bound.                                   *)

\* A set of numbers that has 0 and, with a number, the next up to N, has all of
\* them up to N.
LEMMA UpTo ==
    ASSUME NEW N \in Nat, NEW S, 0 \in S,
           \A k \in 1..N : k - 1 \in S => k \in S
    PROVE  0..N \subseteq S
<1> DEFINE T == (0..N) \ S
<1>1. SUFFICES ASSUME T # {} PROVE FALSE
  OBVIOUS
<1>2. T \subseteq Nat
  OBVIOUS
<1>3. PICK x \in T : \A y \in T : ~(<<y, x>> \in OpToRel(<, Nat))
  BY <1>1, <1>2, NatLessThanWellFounded, WFMin
<1>4. x \in T /\ \A y \in T : ~(y < x)
  BY <1>2, <1>3 DEF OpToRel
<1>5. x \in 1..N /\ x \notin S
  BY <1>4
<1>6. x - 1 \in 0..N /\ x - 1 < x /\ x - 1 \notin T
  BY <1>4, <1>5
<1>7. QED
  BY <1>5, <1>6

\* A loop of N turns, each of which maps states to states, has a state after every
\* turn.
LEMMA LoopExists ==
    ASSUME NEW S, NEW a \in S, NEW N \in Nat, NEW F \in [1..N -> [S -> S]]
    PROVE  \E r \in [0..N -> S] : r[0] = a /\ \A k \in 1..N : r[k] = F[k][r[k - 1]]
<1> DEFINE Loop(n, r) == r[0] = a /\ \A k \in 1..n : r[k] = F[k][r[k - 1]]
           G == {n \in 0..N : \E r \in [0..n -> S] : Loop(n, r)}
<1>1. 0 \in G
  <2>1. [k \in 0..0 |-> a] \in [0..0 -> S] /\ Loop(0, [k \in 0..0 |-> a])
    OBVIOUS
  <2>2. \E r \in [0..0 -> S] : Loop(0, r)
    BY <2>1
  <2>3. 0 \in 0..N
    OBVIOUS
  <2> HIDE DEF Loop
  <2>4. QED
    BY <2>2, <2>3
<1>2. ASSUME NEW n \in 1..N, n - 1 \in G PROVE n \in G
  <2>1. PICK r \in [0..(n - 1) -> S] : Loop(n - 1, r)
    BY <1>2
  <2> DEFINE s == [k \in 0..n |-> IF k = n THEN F[n][r[n - 1]] ELSE r[k]]
  <2>2. /\ r \in [0..(n - 1) -> S] /\ r[0] = a
        /\ \A k \in 1..(n - 1) : r[k] = F[k][r[k - 1]]
    BY <2>1
  <2>3. F[n] \in [S -> S] /\ r[n - 1] \in S
    BY <2>2
  <2>4. s \in [0..n -> S] /\ s[0] = a
    BY <2>2, <2>3
  <2>5. ASSUME NEW k \in 1..n PROVE s[k] = F[k][s[k - 1]]
    <3>1. k \in 0..n /\ k - 1 \in 0..n /\ k - 1 # n
      OBVIOUS
    <3>2. s[k - 1] = r[k - 1]
      BY <3>1
    <3>3. CASE k = n
      BY <3>1, <3>2, <3>3
    <3>4. CASE k # n
      <4>1. k \in 1..(n - 1)
        BY <3>4
      <4>2. s[k] = r[k] /\ r[k] = F[k][r[k - 1]]
        BY <2>2, <3>1, <3>4, <4>1
      <4>3. QED
        BY <3>2, <4>2
    <3>5. QED
      BY <3>3, <3>4
  <2> HIDE DEF s
  <2>6. Loop(n, s)
    BY <2>4, <2>5
  <2>7. \E q \in [0..n -> S] : Loop(n, q)
    BY <2>4, <2>6
  <2>8. n \in 0..N
    OBVIOUS
  <2> HIDE DEF Loop
  <2>9. QED
    BY <2>7, <2>8
<1> HIDE DEF G
<1>3. 0..N \subseteq G
  BY <1>1, <1>2, UpTo
<1>4. N \in G
  BY <1>3
<1>5. QED
  BY <1>4 DEF G

-----------------------------------------------------------------------------
(* The broker's operations, field by field.                                *)

NewEntry(b, op, o) == [sequence |-> NextSequence(b.sequence), operation |-> op, oid |-> o]

\* Recording adds one well-formed entry, numbered by the new counter
\* (broker.rs:305).
LEMMA RecordJournalFields ==
    ASSUME NEW b \in Broker, NEW op \in Operation, NEW o \in Oid
    PROVE  LET c == RecordJournal(b, op, o)
           IN  /\ c \in Broker
               /\ c.store = b.store /\ c.inactive = b.inactive
               /\ c.applied_sequence = b.applied_sequence
               /\ c.sequence = NextSequence(b.sequence)
               /\ c.journal = Append(b.journal, NewEntry(b, op, o))
<1>1. NextSequence(b.sequence) \in Sequence
  BY BrokerAssumption DEF Broker, Sequence, NextSequence
<1>2. NewEntry(b, op, o) \in Entry
  BY <1>1 DEF NewEntry, Entry
<1>3. Append(b.journal, NewEntry(b, op, o)) \in Seq(Entry)
  BY <1>2 DEF Broker
<1>4. QED
  BY <1>1, <1>3 DEF RecordJournal, NewEntry, Broker

\* A put stores the content, makes the object active and records it
\* (broker.rs:192).
LEMMA PutFields ==
    ASSUME NEW b \in Broker, NEW o \in Oid, NEW i \in Instance
    PROVE  LET c == PutObject(b, o, i)
           IN  /\ c \in Broker
               /\ c.store = [b.store EXCEPT ![o] = i]
               /\ c.inactive = b.inactive \ {o}
               /\ c.applied_sequence = b.applied_sequence
               /\ c.sequence = NextSequence(b.sequence)
               /\ c.journal = Append(b.journal, NewEntry(b, "PutObject", o))
<1> DEFINE d == [b EXCEPT !.store = [b.store EXCEPT ![o] = i],
                          !.inactive = b.inactive \ {o}]
<1>1. /\ d \in Broker
      /\ d.store = [b.store EXCEPT ![o] = i] /\ d.inactive = b.inactive \ {o}
      /\ d.journal = b.journal /\ d.sequence = b.sequence
      /\ d.applied_sequence = b.applied_sequence
  BY BrokerAssumption DEF Broker
<1>2. "PutObject" \in Operation
  BY DEF Operation
<1>3. PutObject(b, o, i) = RecordJournal(d, "PutObject", o)
  BY DEF PutObject
<1>4. NewEntry(d, "PutObject", o) = NewEntry(b, "PutObject", o)
  BY <1>1 DEF NewEntry
<1> HIDE DEF d
<1>5. QED
  BY <1>1, <1>2, <1>3, <1>4, RecordJournalFields

\* A delete keeps the content, makes the object inactive and records it
\* (broker.rs:289).
LEMMA DeleteFields ==
    ASSUME NEW b \in Broker, NEW o \in Oid
    PROVE  LET c == DeleteObject(b, o)
           IN  /\ c \in Broker
               /\ c.store = b.store
               /\ c.inactive = b.inactive \cup {o}
               /\ c.applied_sequence = b.applied_sequence
               /\ c.sequence = NextSequence(b.sequence)
               /\ c.journal = Append(b.journal, NewEntry(b, "DeleteObject", o))
<1> DEFINE d == [b EXCEPT !.inactive = b.inactive \cup {o}]
<1>1. /\ d \in Broker
      /\ d.store = b.store /\ d.inactive = b.inactive \cup {o}
      /\ d.journal = b.journal /\ d.sequence = b.sequence
      /\ d.applied_sequence = b.applied_sequence
  BY DEF Broker
<1>2. "DeleteObject" \in Operation
  BY DEF Operation
<1>3. DeleteObject(b, o) = RecordJournal(d, "DeleteObject", o)
  BY DEF DeleteObject
<1>4. NewEntry(d, "DeleteObject", o) = NewEntry(b, "DeleteObject", o)
  BY <1>1 DEF NewEntry
<1> HIDE DEF d
<1>5. QED
  BY <1>1, <1>2, <1>3, <1>4, RecordJournalFields

\* Setting the cursor leaves the rest of the broker alone (broker.rs:129, 139).
LEMMA CursorFields ==
    ASSUME NEW b \in Broker, NEW s \in Sequence
    PROVE  LET c == [b EXCEPT !.applied_sequence = s]
           IN  /\ c \in Broker
               /\ c.store = b.store /\ c.inactive = b.inactive
               /\ c.journal = b.journal /\ c.sequence = b.sequence
               /\ c.applied_sequence = s
BY DEF Broker

-----------------------------------------------------------------------------
(* The inductive invariant, on a broker value.  TellsActive alone is not   *)
(* inductive: a delete must find its object announced, which Journalled    *)
(* gives, and Journalled speaks of the store as the journal tells it.      *)

SoundBroker(b) ==
    /\ b \in Broker
    /\ Numbered(b)
    /\ TellsActive(b)
    /\ Journalled(b)
    /\ DeletesFollow(b)

\* A journal holds entries, and a sequence is its domain and its values
\* (broker.rs:17).
LEMMA EntryFields ==
    ASSUME NEW b \in Broker, NEW k \in DOMAIN b.journal
    PROVE  /\ b.journal[k] \in Entry
           /\ b.journal[k].oid \in Oid
           /\ b.journal[k].operation \in Operation
           /\ b.journal[k].sequence \in Sequence
<1>1. b.journal \in Seq(Entry)
  BY DEF Broker
<1>2. b.journal[k] \in Entry
  BY <1>1, ElementOfSeq
<1>3. QED
  BY <1>2 DEF Entry

\* The counter and the next entry's number agree when a journal grows by one
\* entry, at saturation too (broker.rs:305).
LEMMA NumberedGrows ==
    ASSUME NEW b \in Broker, NEW c \in Broker, Numbered(b),
           NEW op \in Operation, NEW o \in Oid,
           c.sequence = NextSequence(b.sequence),
           c.journal = Append(b.journal, NewEntry(b, op, o))
    PROVE  Numbered(c)
<1> DEFINE n == Len(b.journal)
<1>1. /\ n \in Nat /\ Len(c.journal) = n + 1
      /\ DOMAIN b.journal = 1..n /\ DOMAIN c.journal = 1..(n + 1)
  BY DEF Broker
<1>2. b.sequence = IF n <= MaxSequence THEN n ELSE MaxSequence
  BY DEF Numbered
<1>3. NextSequence(b.sequence) = IF n + 1 <= MaxSequence THEN n + 1 ELSE MaxSequence
  BY <1>1, <1>2, BrokerAssumption DEF NextSequence
<1>4. ASSUME NEW k \in 1..(n + 1)
      PROVE  c.journal[k].sequence = IF k <= MaxSequence THEN k ELSE MaxSequence
  <2>1. CASE k \in 1..n
    <3>1. c.journal[k] = b.journal[k]
      BY <1>1, <2>1 DEF Broker
    <3>2. QED
      BY <1>1, <2>1, <3>1 DEF Numbered
  <2>2. CASE k = n + 1
    <3>1. c.journal[k] = NewEntry(b, op, o)
      BY <1>1, <2>2 DEF Broker
    <3>2. QED
      BY <1>3, <2>2, <3>1 DEF NewEntry
  <2>3. QED
    BY <1>1, <2>1, <2>2
<1>5. QED
  BY <1>1, <1>3, <1>4 DEF Numbered

\* A journal that grows by one entry keeps its old entries, and the last word on
\* every other object (broker.rs:305).
LEMMA JournalGrows ==
    ASSUME NEW b \in Broker, NEW c \in Broker, NEW e \in Entry,
           c.journal = Append(b.journal, e)
    PROVE  /\ DOMAIN c.journal = DOMAIN b.journal \cup {Len(b.journal) + 1}
           /\ DOMAIN b.journal = 1..Len(b.journal)
           /\ Len(b.journal) \in Nat
           /\ \A k \in DOMAIN b.journal : c.journal[k] = b.journal[k]
           /\ c.journal[Len(b.journal) + 1] = e
           /\ \A k \in DOMAIN b.journal :
                 IsLast(c, k) => IsLast(b, k) /\ b.journal[k].oid # e.oid
<1>1. /\ Len(b.journal) \in Nat /\ DOMAIN b.journal = 1..Len(b.journal)
      /\ DOMAIN c.journal = 1..(Len(b.journal) + 1)
  BY DEF Broker
<1>2. /\ \A k \in DOMAIN b.journal : c.journal[k] = b.journal[k]
      /\ c.journal[Len(b.journal) + 1] = e
  BY DEF Broker
<1>3. ASSUME NEW k \in DOMAIN b.journal, IsLast(c, k)
      PROVE  IsLast(b, k) /\ b.journal[k].oid # e.oid
  <2>1. b.journal[k].oid # e.oid
    BY <1>1, <1>2, <1>3 DEF IsLast
  <2>2. IsLast(b, k)
    BY <1>1, <1>2, <1>3 DEF IsLast
  <2>3. QED
    BY <2>1, <2>2
<1>4. QED
  BY <1>1, <1>2, <1>3

\* put_object keeps the invariant, whatever the object was before
\* (broker.rs:192).
LEMMA PutSound ==
    ASSUME NEW b, SoundBroker(b), NEW o \in Oid, NEW i \in Instance
    PROVE  SoundBroker(PutObject(b, o, i))
<1> DEFINE c == PutObject(b, o, i)
           e == NewEntry(b, "PutObject", o)
           n == Len(b.journal)
<1>1. b \in Broker
  BY DEF SoundBroker
<1>2. /\ c \in Broker
      /\ c.store = [b.store EXCEPT ![o] = i] /\ c.inactive = b.inactive \ {o}
      /\ c.sequence = NextSequence(b.sequence) /\ c.journal = Append(b.journal, e)
  BY <1>1, PutFields
<1>3. e \in Entry /\ e.oid = o /\ e.operation = "PutObject"
  BY <1>1, BrokerAssumption DEF NewEntry, Entry, Operation, NextSequence, Sequence, Broker
<1>4. i # NoInstance
  BY BrokerAssumption
<1> HIDE DEF c, e
<1>5. /\ DOMAIN c.journal = DOMAIN b.journal \cup {n + 1}
      /\ DOMAIN b.journal = 1..n /\ n \in Nat
      /\ \A k \in DOMAIN b.journal : c.journal[k] = b.journal[k]
      /\ c.journal[n + 1] = e
      /\ \A k \in DOMAIN b.journal : IsLast(c, k) => IsLast(b, k) /\ b.journal[k].oid # o
  BY <1>1, <1>2, <1>3, JournalGrows
<1>6. Stored(c) = Stored(b) \cup {o}
  BY <1>1, <1>2, <1>4 DEF Stored, Broker
<1>7. Numbered(c)
  <2>1. Numbered(b) /\ "PutObject" \in Operation
    BY DEF SoundBroker, Operation
  <2>2. QED
    BY <1>1, <1>2, <2>1, NumberedGrows DEF e
<1>8. TellsActive(c)
  <2>1. \A x \in Oid \ {o} : x \in Active(c) <=> x \in Active(b)
    BY <1>2, <1>6 DEF Active
  <2>2. o \in Active(c)
    BY <1>2, <1>6 DEF Active
  <2>3. ASSUME NEW k \in DOMAIN c.journal, IsLast(c, k)
        PROVE  c.journal[k].operation = "PutObject" <=> c.journal[k].oid \in Active(c)
    <3>1. CASE k = n + 1
      BY <1>3, <1>5, <2>2, <3>1
    <3>2. CASE k \in DOMAIN b.journal
      <4>1. /\ c.journal[k] = b.journal[k] /\ IsLast(b, k) /\ b.journal[k].oid # o
        BY <1>5, <2>3, <3>2
      <4>2. b.journal[k].oid \in Oid
        BY <1>1, <3>2, EntryFields
      <4>3. b.journal[k].operation = "PutObject" <=> b.journal[k].oid \in Active(b)
        BY <3>2, <4>1 DEF SoundBroker, TellsActive
      <4>4. QED
        BY <2>1, <4>1, <4>2, <4>3
    <3>3. QED
      BY <1>5, <3>1, <3>2
  <2>4. QED
    BY <2>3 DEF TellsActive
<1>9. Journalled(c)
  <2>1. \A x \in Oid : PutIn(c, x) <=> PutIn(b, x) \/ x = o
    BY <1>3, <1>5 DEF PutIn
  <2>2. Stored(b) = {x \in Oid : PutIn(b, x)} /\ b.inactive \subseteq Stored(b)
    BY DEF SoundBroker, Journalled
  <2>3. Stored(c) = {x \in Oid : PutIn(c, x)}
    BY <1>6, <2>1, <2>2
  <2>4. c.inactive \subseteq Stored(c)
    BY <1>2, <1>6, <2>2
  <2>5. QED
    BY <2>3, <2>4 DEF Journalled
<1>10. DeletesFollow(c)
  <2>1. ASSUME NEW k \in DOMAIN c.journal, c.journal[k].operation = "DeleteObject"
        PROVE  \E m \in 1..(k - 1) : /\ c.journal[m].oid = c.journal[k].oid
                                     /\ c.journal[m].operation = "PutObject"
    <3>1. k \in DOMAIN b.journal
      BY <1>3, <1>5, <2>1
    <3>2. PICK m \in 1..(k - 1) : /\ b.journal[m].oid = b.journal[k].oid
                                  /\ b.journal[m].operation = "PutObject"
      BY <1>5, <2>1, <3>1 DEF SoundBroker, DeletesFollow
    <3>3. m \in DOMAIN b.journal
      BY <1>5, <3>1, <3>2
    <3>4. QED
      BY <1>5, <3>1, <3>2, <3>3
  <2>2. QED
    BY <2>1 DEF DeletesFollow
<1>11. QED
  BY <1>2, <1>7, <1>8, <1>9, <1>10 DEF SoundBroker, c

\* delete_object keeps the invariant, for an object that is inactive already
\* too (broker.rs:289).
LEMMA DeleteSound ==
    ASSUME NEW b, SoundBroker(b), NEW o \in Stored(b)
    PROVE  SoundBroker(DeleteObject(b, o))
<1> DEFINE c == DeleteObject(b, o)
           e == NewEntry(b, "DeleteObject", o)
           n == Len(b.journal)
<1>1. b \in Broker /\ o \in Oid
  BY DEF SoundBroker, Stored
<1>2. /\ c \in Broker
      /\ c.store = b.store /\ c.inactive = b.inactive \cup {o}
      /\ c.sequence = NextSequence(b.sequence) /\ c.journal = Append(b.journal, e)
  BY <1>1, DeleteFields
<1>3. e \in Entry /\ e.oid = o /\ e.operation = "DeleteObject"
  BY <1>1, BrokerAssumption DEF NewEntry, Entry, Operation, NextSequence, Sequence, Broker
<1> HIDE DEF c, e
<1>4. /\ DOMAIN c.journal = DOMAIN b.journal \cup {n + 1}
      /\ DOMAIN b.journal = 1..n /\ n \in Nat
      /\ \A k \in DOMAIN b.journal : c.journal[k] = b.journal[k]
      /\ c.journal[n + 1] = e
      /\ \A k \in DOMAIN b.journal : IsLast(c, k) => IsLast(b, k) /\ b.journal[k].oid # o
  BY <1>1, <1>2, <1>3, JournalGrows
<1>5. Stored(c) = Stored(b)
  BY <1>2 DEF Stored
<1>6. Stored(b) = {x \in Oid : PutIn(b, x)} /\ b.inactive \subseteq Stored(b)
  BY DEF SoundBroker, Journalled
<1>7. Numbered(c)
  <2>1. Numbered(b) /\ "DeleteObject" \in Operation
    BY DEF SoundBroker, Operation
  <2>2. QED
    BY <1>1, <1>2, <2>1, NumberedGrows DEF e
<1>8. TellsActive(c)
  <2>1. \A x \in Oid \ {o} : x \in Active(c) <=> x \in Active(b)
    BY <1>2, <1>5 DEF Active
  <2>2. o \notin Active(c)
    BY <1>2 DEF Active
  <2>3. ASSUME NEW k \in DOMAIN c.journal, IsLast(c, k)
        PROVE  c.journal[k].operation = "PutObject" <=> c.journal[k].oid \in Active(c)
    <3>1. CASE k = n + 1
      BY <1>3, <1>4, <2>2, <3>1
    <3>2. CASE k \in DOMAIN b.journal
      <4>1. /\ c.journal[k] = b.journal[k] /\ IsLast(b, k) /\ b.journal[k].oid # o
        BY <1>4, <2>3, <3>2
      <4>2. b.journal[k].oid \in Oid
        BY <1>1, <3>2, EntryFields
      <4>3. b.journal[k].operation = "PutObject" <=> b.journal[k].oid \in Active(b)
        BY <3>2, <4>1 DEF SoundBroker, TellsActive
      <4>4. QED
        BY <2>1, <4>1, <4>2, <4>3
    <3>3. QED
      BY <1>4, <3>1, <3>2
  <2>4. QED
    BY <2>3 DEF TellsActive
<1>9. Journalled(c)
  <2>1. \A x \in Oid : PutIn(c, x) <=> PutIn(b, x)
    BY <1>3, <1>4 DEF PutIn
  <2>2. QED
    BY <1>1, <1>2, <1>5, <1>6, <2>1 DEF Journalled
<1>10. DeletesFollow(c)
  <2>1. ASSUME NEW k \in DOMAIN c.journal, c.journal[k].operation = "DeleteObject"
        PROVE  \E m \in 1..(k - 1) : /\ c.journal[m].oid = c.journal[k].oid
                                     /\ c.journal[m].operation = "PutObject"
    <3>1. CASE k = n + 1
      <4>1. PICK m \in DOMAIN b.journal : /\ b.journal[m].oid = o
                                          /\ b.journal[m].operation = "PutObject"
        BY <1>6 DEF PutIn
      <4>2. m \in 1..(k - 1) /\ c.journal[m] = b.journal[m] /\ c.journal[k].oid = o
        BY <1>3, <1>4, <3>1, <4>1
      <4>3. QED
        BY <4>1, <4>2
    <3>2. CASE k \in DOMAIN b.journal
      <4>1. PICK m \in 1..(k - 1) : /\ b.journal[m].oid = b.journal[k].oid
                                    /\ b.journal[m].operation = "PutObject"
        BY <1>4, <2>1, <3>2 DEF SoundBroker, DeletesFollow
      <4>2. m \in DOMAIN b.journal
        BY <1>4, <3>2, <4>1
      <4>3. QED
        BY <1>4, <3>2, <4>1, <4>2
    <3>3. QED
      BY <1>4, <3>1, <3>2
  <2>2. QED
    BY <2>1 DEF DeletesFollow
<1>11. QED
  BY <1>2, <1>7, <1>8, <1>9, <1>10 DEF SoundBroker, c

\* Moving the cursor keeps the invariant (broker.rs:129, 139).
LEMMA CursorSound ==
    ASSUME NEW b, SoundBroker(b), NEW s \in Sequence
    PROVE  SoundBroker([b EXCEPT !.applied_sequence = s])
<1> DEFINE c == [b EXCEPT !.applied_sequence = s]
<1>1. b \in Broker
  BY DEF SoundBroker
<1>2. /\ c \in Broker
      /\ c.store = b.store /\ c.inactive = b.inactive
      /\ c.journal = b.journal /\ c.sequence = b.sequence
  BY <1>1, CursorFields
<1> HIDE DEF c
<1>3. Numbered(c) /\ DeletesFollow(c)
  BY <1>2 DEF SoundBroker, Numbered, DeletesFollow
<1>4. Stored(c) = Stored(b) /\ Active(c) = Active(b)
  BY <1>2 DEF Stored, Active
<1>5. TellsActive(c)
  BY <1>2, <1>4 DEF SoundBroker, TellsActive, IsLast
<1>6. Journalled(c)
  BY <1>2, <1>4 DEF SoundBroker, Journalled, PutIn
<1>7. QED
  BY <1>2, <1>3, <1>5, <1>6 DEF SoundBroker, c

\* So does applying an entry of a publisher, whichever it is (broker.rs:99).
LEMMA ApplySound ==
    ASSUME NEW b, SoundBroker(b), NEW e \in Entry, NEW i \in Instance
    PROVE  SoundBroker(ApplyEntry(b, e, i))
<1>1. e.oid \in Oid /\ e.sequence \in Sequence
  BY DEF Entry
<1>2. SoundBroker(ApplyPutEntry(b, e, i))
  BY <1>1, PutSound, CursorSound DEF ApplyPutEntry
<1>3. SoundBroker(ApplyDeleteEntry(b, e))
  <2>1. SoundBroker(IF e.oid \in Stored(b) THEN DeleteObject(b, e.oid) ELSE b)
    BY DeleteSound
  <2>2. QED
    BY <1>1, <2>1, CursorSound DEF ApplyDeleteEntry
<1>4. QED
  BY <1>2, <1>3 DEF ApplyEntry

\* So does a bulk load, where it stops short too (broker.rs:315).
LEMMA PublishSound ==
    ASSUME NEW b, SoundBroker(b), NEW o1 \in Oid, NEW o2 \in Oid, NEW i1, NEW i2
    PROVE  SoundBroker(PublishStore(b, o1, i1, o2, i2))
<1>1. CASE i1 \notin ValidInstance
  BY <1>1 DEF PublishStore
<1>2. CASE i1 \in ValidInstance /\ i2 \notin ValidInstance
  BY BrokerAssumption, <1>2, PutSound DEF PublishStore
<1>3. CASE i1 \in ValidInstance /\ i2 \in ValidInstance
  <2>1. SoundBroker(PutObject(b, o1, i1))
    BY BrokerAssumption, <1>3, PutSound
  <2>2. SoundBroker(PutObject(PutObject(b, o1, i1), o2, i2))
    BY BrokerAssumption, <1>3, <2>1, PutSound
  <2>3. QED
    BY <1>3, <2>2 DEF PublishStore
<1>4. QED
  BY <1>1, <1>2, <1>3

\* A new broker satisfies the invariant (broker.rs:27).
LEMMA NewBrokerSound == SoundBroker(NewBroker)
<1> USE DEF NewBroker
<1>1. NewBroker \in Broker
  BY BrokerAssumption DEF Broker, Sequence
<1>2. Numbered(NewBroker) /\ TellsActive(NewBroker) /\ DeletesFollow(NewBroker)
  BY BrokerAssumption DEF Numbered, TellsActive, DeletesFollow
<1>3. Journalled(NewBroker)
  BY DEF Journalled, Stored, PutIn
<1>4. QED
  BY <1>1, <1>2, <1>3 DEF SoundBroker
-----------------------------------------------------------------------------
(* What an operation adds to the journal.  An operation is a chain of      *)
(* puts, deletes and cursor moves, and Announces composes along the chain. *)

Announces(b, c) ==
    /\ Len(b.journal) <= Len(c.journal)
    /\ \A k \in DOMAIN b.journal : c.journal[k] = b.journal[k]
    /\ \A o \in Oid : View(b)[o] # View(c)[o] =>
         \E k \in DOMAIN c.journal :
            /\ k > Len(b.journal)
            /\ c.journal[k].oid = o
            /\ c.journal[k].operation = IF View(c)[o] = NoInstance
                                        THEN "DeleteObject" ELSE "PutObject"

\* Nothing announced twice over is lost (broker.rs:305).
LEMMA AnnouncesChain ==
    ASSUME NEW b \in Broker, NEW c \in Broker, NEW d \in Broker,
           Announces(b, c), Announces(c, d)
    PROVE  Announces(b, d)
<1>1. /\ Len(b.journal) \in Nat /\ DOMAIN b.journal = 1..Len(b.journal)
      /\ Len(c.journal) \in Nat /\ DOMAIN c.journal = 1..Len(c.journal)
      /\ Len(d.journal) \in Nat /\ DOMAIN d.journal = 1..Len(d.journal)
  BY DEF Broker
<1>2. Len(b.journal) <= Len(c.journal) /\ Len(c.journal) <= Len(d.journal)
  BY DEF Announces
<1>3. \A k \in DOMAIN b.journal : c.journal[k] = b.journal[k]
  BY DEF Announces
<1>4. \A k \in DOMAIN c.journal : d.journal[k] = c.journal[k]
  BY DEF Announces
<1>5. ASSUME NEW o \in Oid, View(b)[o] # View(d)[o]
      PROVE  \E k \in DOMAIN d.journal :
                /\ k > Len(b.journal)
                /\ d.journal[k].oid = o
                /\ d.journal[k].operation = IF View(d)[o] = NoInstance
                                            THEN "DeleteObject" ELSE "PutObject"
  <2>1. CASE View(c)[o] # View(d)[o]
    <3>1. PICK k \in DOMAIN d.journal :
              /\ k > Len(c.journal)
              /\ d.journal[k].oid = o
              /\ d.journal[k].operation = IF View(d)[o] = NoInstance
                                          THEN "DeleteObject" ELSE "PutObject"
      BY <2>1 DEF Announces
    <3>2. k > Len(b.journal)
      BY <1>1, <1>2, <3>1
    <3>3. QED
      BY <3>1, <3>2
  <2>2. CASE View(c)[o] = View(d)[o]
    <3>1. PICK k \in DOMAIN c.journal :
              /\ k > Len(b.journal)
              /\ c.journal[k].oid = o
              /\ c.journal[k].operation = IF View(c)[o] = NoInstance
                                          THEN "DeleteObject" ELSE "PutObject"
      BY <1>5, <2>2 DEF Announces
    <3>2. k \in DOMAIN d.journal /\ d.journal[k] = c.journal[k]
      BY <1>1, <1>2, <1>4, <3>1
    <3>3. QED
      BY <2>2, <3>1, <3>2
  <2>3. QED
    BY <2>1, <2>2
<1>6. \A k \in DOMAIN b.journal : d.journal[k] = b.journal[k]
  BY <1>1, <1>2, <1>3, <1>4
<1>7. QED
  BY <1>1, <1>2, <1>5, <1>6 DEF Announces

\* A put announces the only object it changes (broker.rs:192).
LEMMA PutAnnounces ==
    ASSUME NEW b \in Broker, NEW o \in Oid, NEW i \in Instance
    PROVE  PutObject(b, o, i) \in Broker /\ Announces(b, PutObject(b, o, i))
<1> DEFINE c == PutObject(b, o, i)
           e == NewEntry(b, "PutObject", o)
           n == Len(b.journal)
<1>1. /\ c \in Broker
      /\ c.store = [b.store EXCEPT ![o] = i] /\ c.inactive = b.inactive \ {o}
      /\ c.journal = Append(b.journal, e)
  BY BrokerAssumption, PutFields
<1>2. e \in Entry /\ e.oid = o /\ e.operation = "PutObject"
  BY BrokerAssumption DEF NewEntry, Entry, Operation, NextSequence, Sequence, Broker
<1> HIDE DEF c, e
<1>3. /\ DOMAIN c.journal = DOMAIN b.journal \cup {n + 1} /\ n \in Nat
      /\ \A k \in DOMAIN b.journal : c.journal[k] = b.journal[k]
      /\ c.journal[n + 1] = e
  BY <1>1, <1>2, JournalGrows
<1>4. Len(c.journal) = n + 1
  BY <1>1 DEF Broker
<1>5. \A x \in Oid : View(b)[x] # View(c)[x] => x = o
  BY <1>1 DEF View, Broker
<1>6. View(c)[o] # NoInstance
  BY <1>1, BrokerAssumption DEF View, Broker
<1>7. \A x \in Oid : View(b)[x] # View(c)[x] =>
         \E k \in DOMAIN c.journal :
            /\ k > Len(b.journal)
            /\ c.journal[k].oid = x
            /\ c.journal[k].operation = IF View(c)[x] = NoInstance
                                        THEN "DeleteObject" ELSE "PutObject"
  BY <1>2, <1>3, <1>5, <1>6
<1>8. QED
  BY <1>1, <1>3, <1>4, <1>7 DEF Announces, c

\* So does a delete (broker.rs:289).
LEMMA DeleteAnnounces ==
    ASSUME NEW b \in Broker, NEW o \in Oid
    PROVE  DeleteObject(b, o) \in Broker /\ Announces(b, DeleteObject(b, o))
<1> DEFINE c == DeleteObject(b, o)
           e == NewEntry(b, "DeleteObject", o)
           n == Len(b.journal)
<1>1. /\ c \in Broker
      /\ c.store = b.store /\ c.inactive = b.inactive \cup {o}
      /\ c.journal = Append(b.journal, e)
  BY DeleteFields
<1>2. e \in Entry /\ e.oid = o /\ e.operation = "DeleteObject"
  BY BrokerAssumption DEF NewEntry, Entry, Operation, NextSequence, Sequence, Broker
<1> HIDE DEF c, e
<1>3. /\ DOMAIN c.journal = DOMAIN b.journal \cup {n + 1} /\ n \in Nat
      /\ \A k \in DOMAIN b.journal : c.journal[k] = b.journal[k]
      /\ c.journal[n + 1] = e
  BY <1>1, <1>2, JournalGrows
<1>4. Len(c.journal) = n + 1
  BY <1>1 DEF Broker
<1>5. \A x \in Oid : View(b)[x] # View(c)[x] => x = o
  BY <1>1 DEF View, Broker
<1>6. View(c)[o] = NoInstance
  BY <1>1 DEF View
<1>7. \A x \in Oid : View(b)[x] # View(c)[x] =>
         \E k \in DOMAIN c.journal :
            /\ k > Len(b.journal)
            /\ c.journal[k].oid = x
            /\ c.journal[k].operation = IF View(c)[x] = NoInstance
                                        THEN "DeleteObject" ELSE "PutObject"
  BY <1>2, <1>3, <1>5, <1>6
<1>8. QED
  BY <1>1, <1>3, <1>4, <1>7 DEF Announces, c

\* Moving the cursor changes nothing a client sees (broker.rs:129).
LEMMA CursorAnnounces ==
    ASSUME NEW b \in Broker, NEW s \in Sequence
    PROVE  LET c == [b EXCEPT !.applied_sequence = s]
           IN  c \in Broker /\ Announces(b, c)
<1> DEFINE c == [b EXCEPT !.applied_sequence = s]
<1>1. /\ c \in Broker
      /\ c.store = b.store /\ c.inactive = b.inactive /\ c.journal = b.journal
  BY CursorFields
<1> HIDE DEF c
<1>2. View(b) = View(c)
  BY <1>1 DEF View
<1>3. Len(b.journal) <= Len(c.journal)
  BY <1>1 DEF Broker
<1>4. QED
  BY <1>1, <1>2, <1>3 DEF Announces, c

\* Nor does doing nothing (broker.rs:133).
LEMMA NothingAnnounces ==
    ASSUME NEW b \in Broker
    PROVE  Announces(b, b)
BY DEF Announces, Broker
\* Whatever a client does to a broker is announced, adds one entry, and leaves the
\* cursor where it is (broker.rs:192, 289).
LEMMA ClientAnnounces ==
    ASSUME NEW b \in Broker, NEW o \in Oid
    PROVE  /\ \A i \in Instance :
                 LET c == PutObject(b, o, i)
                 IN  /\ c \in Broker /\ Announces(b, c)
                     /\ c.applied_sequence = b.applied_sequence
                     /\ Len(c.journal) <= Len(b.journal) + 1
           /\ LET c == DeleteObject(b, o)
              IN  /\ c \in Broker /\ Announces(b, c)
                  /\ c.applied_sequence = b.applied_sequence
                  /\ Len(c.journal) <= Len(b.journal) + 1
<1>1. Len(b.journal) \in Nat /\ b.journal \in Seq(Entry)
  BY DEF Broker
<1>2. ASSUME NEW i \in Instance, NEW c, c = PutObject(b, o, i)
      PROVE  /\ c \in Broker /\ Announces(b, c)
             /\ c.applied_sequence = b.applied_sequence
             /\ Len(c.journal) <= Len(b.journal) + 1
  <2>1. /\ c \in Broker /\ c.applied_sequence = b.applied_sequence
        /\ c.journal = Append(b.journal, NewEntry(b, "PutObject", o))
    BY <1>2, PutFields
  <2>2. Announces(b, c)
    BY <1>2, PutAnnounces
  <2>3. QED
    BY <1>1, <2>1, <2>2
<1>3. ASSUME NEW c, c = DeleteObject(b, o)
      PROVE  /\ c \in Broker /\ Announces(b, c)
             /\ c.applied_sequence = b.applied_sequence
             /\ Len(c.journal) <= Len(b.journal) + 1
  <2>1. /\ c \in Broker /\ c.applied_sequence = b.applied_sequence
        /\ c.journal = Append(b.journal, NewEntry(b, "DeleteObject", o))
    BY <1>3, DeleteFields
  <2>2. Announces(b, c)
    BY <1>3, DeleteAnnounces
  <2>3. QED
    BY <1>1, <2>1, <2>2
<1>4. QED
  BY <1>2, <1>3

-----------------------------------------------------------------------------
(* What a consumer's cursor covers.  A consumer b that follows a publisher *)
(* q of which it may see the contents in `visible' has applied no more     *)
(* than q has journalled, and reads as q does every object whose last      *)
(* entry its cursor has passed.  The numbers of a journal are its          *)
(* positions as long as the counter is not saturated, which these lemmas   *)
(* ask of the publisher where they need it.                                *)

CoversTo(b, q, visible, c) ==
    \A k \in DOMAIN q.journal :
        /\ IsLast(q, k)
        /\ k <= c
        /\ View(q)[q.journal[k].oid] \in visible \cup {NoInstance}
        => View(b)[q.journal[k].oid] = View(q)[q.journal[k].oid]

Follows(b, q, visible) ==
    /\ b.applied_sequence <= Len(q.journal)
    /\ CoversTo(b, q, visible, b.applied_sequence)

\* Below saturation an entry's number is its position (broker.rs:305).
LEMMA PositionIsNumber ==
    ASSUME NEW q, SoundBroker(q), Len(q.journal) <= MaxSequence
    PROVE  /\ Len(q.journal) \in Nat /\ DOMAIN q.journal = 1..Len(q.journal)
           /\ q.sequence = Len(q.journal)
           /\ \A k \in DOMAIN q.journal : q.journal[k].sequence = k
<1>1. q.journal \in Seq(Entry) /\ Numbered(q)
  BY DEF SoundBroker, Broker
<1>2. QED
  BY <1>1, BrokerAssumption DEF Numbered

\* An entry that is still the last word on its object was so before, and what is
\* read of the object has not changed (broker.rs:305).
LEMMA StillLast ==
    ASSUME NEW q \in Broker, NEW r \in Broker, Announces(q, r),
           NEW k \in DOMAIN q.journal, IsLast(r, k)
    PROVE  /\ IsLast(q, k) /\ r.journal[k] = q.journal[k] /\ k \in DOMAIN r.journal
           /\ View(r)[q.journal[k].oid] = View(q)[q.journal[k].oid]
<1>1. /\ Len(q.journal) \in Nat /\ DOMAIN q.journal = 1..Len(q.journal)
      /\ Len(r.journal) \in Nat /\ DOMAIN r.journal = 1..Len(r.journal)
  BY DEF Broker
<1>2. /\ Len(q.journal) <= Len(r.journal)
      /\ \A j \in DOMAIN q.journal : r.journal[j] = q.journal[j]
  BY DEF Announces
<1>3. IsLast(q, k)
  BY <1>1, <1>2 DEF IsLast
<1>4. \A j \in DOMAIN r.journal : j > Len(q.journal) => r.journal[j].oid # q.journal[k].oid
  BY <1>1, <1>2 DEF IsLast
<1>5. q.journal[k].oid \in Oid
  BY EntryFields
<1>6. View(r)[q.journal[k].oid] = View(q)[q.journal[k].oid]
  BY <1>4, <1>5 DEF Announces
<1>7. QED
  BY <1>1, <1>2, <1>3, <1>6

\* A consumer that follows a publisher follows it when it has moved on
\* (broker.rs:192, 289).
LEMMA FollowsOn ==
    ASSUME NEW b \in Broker, NEW q \in Broker, NEW r \in Broker, NEW visible,
           Follows(b, q, visible), Announces(q, r)
    PROVE  Follows(b, r, visible)
<1>1. /\ Len(q.journal) \in Nat /\ DOMAIN q.journal = 1..Len(q.journal)
      /\ Len(r.journal) \in Nat /\ DOMAIN r.journal = 1..Len(r.journal)
      /\ b.applied_sequence \in Nat /\ Len(q.journal) <= Len(r.journal)
  BY BrokerAssumption DEF Broker, Announces, Sequence
<1>2. b.applied_sequence <= Len(q.journal)
  BY DEF Follows
<1>3. ASSUME NEW k \in DOMAIN r.journal, IsLast(r, k), k <= b.applied_sequence,
             View(r)[r.journal[k].oid] \in visible \cup {NoInstance}
      PROVE  View(b)[r.journal[k].oid] = View(r)[r.journal[k].oid]
  <2>1. k \in DOMAIN q.journal
    BY <1>1, <1>2, <1>3
  <2>2. /\ IsLast(q, k) /\ r.journal[k] = q.journal[k]
        /\ View(r)[q.journal[k].oid] = View(q)[q.journal[k].oid]
    BY <1>3, <2>1, StillLast
  <2>3. QED
    BY <1>3, <2>1, <2>2 DEF Follows, CoversTo
<1>4. QED
  BY <1>1, <1>2, <1>3 DEF Follows, CoversTo

\* What an applied entry does to the object it names, and to no other
\* (broker.rs:76-141).
LEMMA ApplyFields ==
    ASSUME NEW b, SoundBroker(b), NEW e \in Entry, NEW i,
           e.operation = "PutObject" => i \in Instance
    PROVE  LET c == ApplyEntry(b, e, i)
           IN  /\ SoundBroker(c) /\ c \in Broker
               /\ c.applied_sequence = e.sequence
               /\ Announces(b, c) /\ Len(c.journal) <= Len(b.journal) + 1
               /\ \A x \in Oid : x # e.oid => View(c)[x] = View(b)[x]
               /\ e.operation = "PutObject" => View(c)[e.oid] = i
               /\ e.operation # "PutObject" => View(c)[e.oid] = NoInstance
<1>1. b \in Broker /\ e.oid \in Oid /\ e.sequence \in Sequence
  BY DEF SoundBroker, Entry
<1>2. Len(b.journal) \in Nat
  BY <1>1 DEF Broker
<1>3. ASSUME NEW d \in Broker, SoundBroker(d), Announces(b, d),
             Len(d.journal) <= Len(b.journal) + 1
      PROVE  LET c == [d EXCEPT !.applied_sequence = e.sequence]
             IN  /\ SoundBroker(c) /\ c \in Broker /\ c.applied_sequence = e.sequence
                 /\ Announces(b, c) /\ Len(c.journal) <= Len(b.journal) + 1
                 /\ View(c) = View(d)
  <2> DEFINE c == [d EXCEPT !.applied_sequence = e.sequence]
  <2>1. /\ c \in Broker /\ c.store = d.store /\ c.inactive = d.inactive
        /\ c.journal = d.journal /\ c.applied_sequence = e.sequence
        /\ SoundBroker(c) /\ Announces(d, c)
    BY <1>1, <1>3, CursorFields, CursorSound, CursorAnnounces
  <2> HIDE DEF c
  <2>2. Announces(b, c) /\ View(c) = View(d)
    BY <1>1, <1>3, <2>1, AnnouncesChain DEF View
  <2>3. QED
    BY <1>3, <2>1, <2>2 DEF c
<1>4. CASE e.operation = "PutObject"
  <2> DEFINE d == PutObject(b, e.oid, i)
  <2>1. /\ d \in Broker /\ SoundBroker(d) /\ Announces(b, d)
        /\ d.store = [b.store EXCEPT ![e.oid] = i] /\ d.inactive = b.inactive \ {e.oid}
        /\ d.journal = Append(b.journal, NewEntry(b, "PutObject", e.oid))
    BY <1>1, <1>4, PutFields, PutSound, PutAnnounces
  <2> HIDE DEF d
  <2>2. Len(d.journal) <= Len(b.journal) + 1
    BY <1>1, <2>1, <1>2 DEF Broker
  <2>3. /\ \A x \in Oid : x # e.oid => View(d)[x] = View(b)[x]
        /\ View(d)[e.oid] = i
    BY <1>1, <2>1 DEF View, Broker
  <2>4. ApplyEntry(b, e, i) = [d EXCEPT !.applied_sequence = e.sequence]
    BY <1>4 DEF ApplyEntry, ApplyPutEntry, d
  <2>5. QED
    BY <1>3, <1>4, <2>1, <2>2, <2>3, <2>4
<1>5. CASE e.operation # "PutObject"
  <2> DEFINE d == IF e.oid \in Stored(b) THEN DeleteObject(b, e.oid) ELSE b
  <2>1. /\ d \in Broker /\ SoundBroker(d) /\ Announces(b, d) /\ d.store = b.store
        /\ d.inactive = IF e.oid \in Stored(b) THEN b.inactive \cup {e.oid} ELSE b.inactive
        /\ d.journal = IF e.oid \in Stored(b)
                       THEN Append(b.journal, NewEntry(b, "DeleteObject", e.oid))
                       ELSE b.journal
    BY <1>1, DeleteFields, DeleteSound, DeleteAnnounces, NothingAnnounces
  <2> HIDE DEF d
  <2>2. Len(d.journal) <= Len(b.journal) + 1
    BY <1>1, <2>1, <1>2 DEF Broker
  <2>3. /\ \A x \in Oid : x # e.oid => View(d)[x] = View(b)[x]
        /\ View(d)[e.oid] = NoInstance
    BY <1>1, <2>1 DEF View, Broker, Stored
  <2>4. ApplyEntry(b, e, i) = [d EXCEPT !.applied_sequence = e.sequence]
    BY <1>5 DEF ApplyEntry, ApplyDeleteEntry, d
  <2>5. QED
    BY <1>3, <1>5, <2>1, <2>2, <2>3, <2>4
<1>6. QED
  BY <1>4, <1>5

\* A consumer that applies the publisher's entry number k, having skipped none it
\* could see, follows the publisher up to k (broker.rs:76, replication.rs:91,
\* federation_client.rs:103).
LEMMA ApplyFollows ==
    ASSUME NEW b, SoundBroker(b), NEW q, SoundBroker(q), NEW visible,
           Len(q.journal) <= MaxSequence, Follows(b, q, visible),
           NEW k \in DOMAIN q.journal, b.applied_sequence < k,
           \A j \in DOMAIN q.journal :
               b.applied_sequence < j /\ j < k /\ IsLast(q, j) =>
                   View(q)[q.journal[j].oid] \notin visible \cup {NoInstance}
    PROVE  LET e == q.journal[k]
               c == ApplyEntry(b, e, q.store[e.oid])
           IN  /\ SoundBroker(c) /\ c \in Broker
               /\ c.applied_sequence = k
               /\ Announces(b, c) /\ Len(c.journal) <= Len(b.journal) + 1
               /\ Follows(c, q, visible)
<1> DEFINE e == q.journal[k]
           i == q.store[e.oid]
           c == ApplyEntry(b, e, i)
<1>1. /\ q \in Broker /\ b \in Broker /\ e \in Entry /\ e.oid \in Oid
      /\ e.operation \in Operation /\ b.applied_sequence \in Nat
      /\ Len(q.journal) \in Nat /\ DOMAIN q.journal = 1..Len(q.journal)
      /\ e.sequence = k
  BY EntryFields, PositionIsNumber, BrokerAssumption DEF SoundBroker, Broker, Sequence
<1>2. e.operation = "PutObject" => i \in Instance
  <2>1. e.operation = "PutObject" => e.oid \in Stored(q)
    BY <1>1 DEF SoundBroker, Journalled, PutIn
  <2>2. QED
    BY <1>1, <2>1 DEF Stored, Broker
<1>3. /\ SoundBroker(c) /\ c \in Broker /\ c.applied_sequence = k
      /\ Announces(b, c) /\ Len(c.journal) <= Len(b.journal) + 1
      /\ \A x \in Oid : x # e.oid => View(c)[x] = View(b)[x]
      /\ e.operation = "PutObject" => View(c)[e.oid] = i
      /\ e.operation # "PutObject" => View(c)[e.oid] = NoInstance
  BY <1>1, <1>2, ApplyFields
<1>4. ASSUME NEW j \in DOMAIN q.journal, IsLast(q, j), j <= k,
             View(q)[q.journal[j].oid] \in visible \cup {NoInstance}
      PROVE  View(c)[q.journal[j].oid] = View(q)[q.journal[j].oid]
  <2>1. CASE j = k
    <3>1. e.operation = "PutObject" <=> e.oid \in Active(q)
      BY <1>4, <2>1 DEF SoundBroker, TellsActive
    <3>2. CASE e.operation = "PutObject"
      BY <1>1, <1>3, <2>1, <3>1, <3>2 DEF View, Active
    <3>3. CASE e.operation # "PutObject"
      BY <1>1, <1>3, <2>1, <3>1, <3>3 DEF View, Active, Stored
    <3>4. QED
      BY <3>2, <3>3
  <2>2. CASE j < k
    <3>1. q.journal[j].oid # e.oid /\ q.journal[j].oid \in Oid
      BY <1>1, <1>4, <2>2, EntryFields DEF IsLast
    <3>2. j <= b.applied_sequence
      BY <1>1, <1>4, <2>2
    <3>3. View(b)[q.journal[j].oid] = View(q)[q.journal[j].oid]
      BY <1>4, <3>2 DEF Follows, CoversTo
    <3>4. QED
      BY <1>3, <3>1, <3>3
  <2>3. QED
    BY <1>1, <1>4, <2>1, <2>2
<1> HIDE DEF c, i
<1>5. CoversTo(c, q, visible, k)
  BY <1>4 DEF CoversTo
<1>6. c.applied_sequence <= Len(q.journal)
  BY <1>1, <1>3
<1>7. QED
  BY <1>3, <1>5, <1>6 DEF Follows, c, i

\* What a publisher withholds from a subscriber is nothing that the subscriber
\* could read now: an entry left out is a put, and if it is the last word on its
\* object the object is active with a content that is not visible
\* (secured.rs:206-239).
LEMMA WithheldUnseen ==
    ASSUME NEW q, SoundBroker(q), NEW visible, NEW since,
           NEW k \in DOMAIN q.journal, IsLast(q, k), q.journal[k].sequence > since,
           q.journal[k] \notin {e \in SyncSince(q, since) :
                                   \/ e.operation = "DeleteObject"
                                   \/ e.oid \in Active(q) /\ q.store[e.oid] \in visible}
    PROVE  View(q)[q.journal[k].oid] \notin visible \cup {NoInstance}
<1> DEFINE e == q.journal[k]
<1>1. e \in Entry /\ e.oid \in Oid /\ e.operation \in Operation
  BY EntryFields DEF SoundBroker
<1>2. e \in SyncSince(q, since)
  BY DEF SyncSince
<1>3. e.operation = "PutObject" /\ ~(e.oid \in Active(q) /\ q.store[e.oid] \in visible)
  BY <1>1, <1>2 DEF Operation
<1>4. e.oid \in Active(q)
  BY <1>3 DEF SoundBroker, TellsActive
<1>5. View(q)[e.oid] = q.store[e.oid] /\ q.store[e.oid] # NoInstance
  BY <1>1, <1>4 DEF View, Active, Stored
<1>6. QED
  BY <1>3, <1>4, <1>5
=============================================================================
