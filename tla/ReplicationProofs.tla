------------------------- MODULE ReplicationProofs --------------------------
(***************************************************************************)
(* A replication agent, for every set of objects and contents, every       *)
(* journal, and pulls of any length: what the consumer's cursor covers     *)
(* and what a pull that succeeds delivers.  A pull is a loop; what holds   *)
(* after each of its turns is proved by induction over the journal, from   *)
(* the least turn after which it would not hold.                           *)
(***************************************************************************)
EXTENDS Replication, BrokerStateProofs

-----------------------------------------------------------------------------
(* The loop of a pull.                                                      *)

SoundRun == [broker: {b \in Broker : SoundBroker(b)}, failed: BOOLEAN]

\* What a turn of the loop makes of the run so far.
Turn(r, k, entries) ==
    IF publisher.journal[k] \in entries THEN ApplyNext(r, publisher.journal[k]) ELSE r

\* What the entries of a sound publisher carry (broker.rs:192).
LEMMA PublisherEntry ==
    ASSUME SoundBroker(publisher), NEW k \in DOMAIN publisher.journal
    PROVE  LET e == publisher.journal[k]
           IN  /\ e \in Entry /\ e.oid \in Oid
               /\ e.operation = "PutObject" => publisher.store[e.oid] \in Instance
<1> DEFINE e == publisher.journal[k]
<1>1. publisher \in Broker /\ e \in Entry /\ e.oid \in Oid
  BY EntryFields DEF SoundBroker
<1>2. e.operation = "PutObject" => e.oid \in Stored(publisher)
  BY <1>1 DEF SoundBroker, Journalled, PutIn
<1>3. QED
  BY <1>1, <1>2 DEF Stored, Broker

\* A turn keeps the consumer's broker sound (replication.rs:90-97).
LEMMA TurnSound ==
    ASSUME SoundBroker(publisher), NEW r \in SoundRun,
           NEW k \in DOMAIN publisher.journal, NEW entries
    PROVE  Turn(r, k, entries) \in SoundRun
<1> DEFINE e == publisher.journal[k]
           c == ApplyEntry(r.broker, e, publisher.store[e.oid])
<1>1. /\ SoundBroker(r.broker) /\ r.broker \in Broker /\ r.failed \in BOOLEAN
      /\ r = [broker |-> r.broker, failed |-> r.failed]
  BY DEF SoundRun
<1>2. SoundBroker(c) /\ c \in Broker
  BY <1>1, PublisherEntry, ApplyFields
<1> HIDE DEF c
<1>3. [r EXCEPT !.broker = c] \in SoundRun /\ [r EXCEPT !.failed = TRUE] \in SoundRun
  BY <1>1, <1>2 DEF SoundRun
<1>4. QED
  BY <1>3 DEF Turn, ApplyNext, c

\* The loop of a pull is what its turns make it (replication.rs:90-97).
LEMMA PullTurns ==
    ASSUME SoundBroker(publisher), NEW b, SoundBroker(b), NEW entries
    PROVE  /\ Len(publisher.journal) \in Nat
           /\ DOMAIN publisher.journal = 1..Len(publisher.journal)
           /\ Turns(b, entries) \in [0..Len(publisher.journal) -> SoundRun]
           /\ Turns(b, entries)[0] = [broker |-> b, failed |-> FALSE]
           /\ \A k \in 1..Len(publisher.journal) :
                 Turns(b, entries)[k] = Turn(Turns(b, entries)[k - 1], k, entries)
<1> DEFINE N == Len(publisher.journal)
           a == [broker |-> b, failed |-> FALSE]
           F == [k \in 1..N |-> [r \in SoundRun |-> Turn(r, k, entries)]]
<1>1. N \in Nat /\ DOMAIN publisher.journal = 1..N /\ b \in Broker
  BY DEF SoundBroker, Broker
<1>2. a \in SoundRun
  BY <1>1 DEF SoundRun
<1>3. F \in [1..N -> [SoundRun -> SoundRun]]
  BY <1>1, TurnSound
<1>4. PICK r \in [0..N -> SoundRun] : r[0] = a /\ \A k \in 1..N : r[k] = F[k][r[k - 1]]
  <2>1. ASSUME NEW M \in Nat, NEW x \in SoundRun, NEW G \in [1..M -> [SoundRun -> SoundRun]]
        PROVE  \E r \in [0..M -> SoundRun] : r[0] = x /\ \A k \in 1..M : r[k] = G[k][r[k - 1]]
    BY LoopExists
  <2> HIDE DEF N, a, F
  <2>2. QED
    BY <1>1, <1>2, <1>3, <2>1
<1>5. \A k \in 1..N : r[k] = Turn(r[k - 1], k, entries)
  <2>1. \A k \in 1..N : r[k - 1] \in SoundRun
    BY <1>1, <1>4
  <2>2. QED
    BY <1>4, <2>1
<1> DEFINE Loop(t) == t = [k \in 0..N |->
               IF k = 0 THEN a
               ELSE IF publisher.journal[k] \in entries
                    THEN ApplyNext(t[k - 1], publisher.journal[k])
                    ELSE t[k - 1]]
<1>6. Loop(r)
  BY <1>1, <1>4, <1>5 DEF Turn
<1>7. Loop(Turns(b, entries))
  BY <1>6 DEF Turns
<1>8. /\ Turns(b, entries)[0] = a
      /\ \A k \in 1..N : Turns(b, entries)[k] = Turn(Turns(b, entries)[k - 1], k, entries)
  <2>1. ASSUME NEW t, Loop(t)
        PROVE  t[0] = a /\ \A k \in 1..N : t[k] = Turn(t[k - 1], k, entries)
    <3>1. t[0] = a
      BY <1>1, <2>1
    <3>2. ASSUME NEW k \in 1..N PROVE t[k] = Turn(t[k - 1], k, entries)
      <4>1. k \in 0..N /\ k # 0
        BY <1>1
      <4> HIDE DEF N, a
      <4>2. t[k] = IF publisher.journal[k] \in entries
                   THEN ApplyNext(t[k - 1], publisher.journal[k])
                   ELSE t[k - 1]
        BY <2>1, <4>1
      <4>3. QED
        BY <4>2 DEF Turn
    <3>3. QED
      BY <3>1, <3>2
  <2> HIDE DEF Loop
  <2>2. QED
    BY <1>7, <2>1
<1>9. \A k \in 0..N : Turns(b, entries)[k] = r[k]
  <2> DEFINE t == Turns(b, entries)
             S == {k \in 0..N : t[k] = r[k]}
  <2> HIDE DEF t
  <2>1. t[0] = a /\ \A k \in 1..N : t[k] = Turn(t[k - 1], k, entries)
    BY <1>8 DEF t
  <2>2. 0 \in S /\ \A k \in 1..N : k - 1 \in S => k \in S
    BY <1>1, <1>4, <1>5, <2>1
  <2>3. 0..N \subseteq S
    <3> HIDE DEF S, N
    <3>1. QED
      BY <1>1, <2>2, UpTo
  <2>4. QED
    BY <2>3 DEF t
<1>10. Turns(b, entries) = r
  BY <1>4, <1>7, <1>9
<1>11. QED
  BY <1>1, <1>4, <1>8, <1>10

-----------------------------------------------------------------------------
(* What a turn of the loop keeps.                                           *)

\* Nothing is read at b under a publisher's object that the publisher never put.
OfPublisher(b) == \A o \in PublisherOid \ Stored(publisher) : View(b)[o] = NoInstance

\* A consumer without clients of its own journals no more than it has applied.
Replica(b) ==
    /\ Follows(b, publisher, Subscribed)
    /\ OfPublisher(b)
    /\ ~setup.local => Len(b.journal) <= b.applied_sequence

\* The response of a pull from `since'.
Answers(entries, since) ==
    \/ setup.agent = "raw" /\ entries = SyncSince(publisher, since)
    \/ setup.agent = "secured" /\ entries = SyncSinceAs(since)

\* A run after the first k entries: whatever lies between its cursor and k was
\* withheld, unless the pull has failed.
GoodRun(r, since, k) ==
    /\ Replica(r.broker)
    /\ since <= r.broker.applied_sequence
    /\ ~r.failed =>
          \A j \in DOMAIN publisher.journal :
              r.broker.applied_sequence < j /\ j <= k /\ IsLast(publisher, j) =>
                  View(publisher)[publisher.journal[j].oid] \notin Subscribed \cup {NoInstance}

\* What the response leaves out the subscriber could not read
\* (broker.rs:163, secured.rs:206-239).
LEMMA LeftOutUnseen ==
    ASSUME SoundBroker(publisher), NEW since, NEW entries, Answers(entries, since),
           NEW k \in DOMAIN publisher.journal, IsLast(publisher, k),
           publisher.journal[k].sequence > since, publisher.journal[k] \notin entries
    PROVE  View(publisher)[publisher.journal[k].oid] \notin Subscribed \cup {NoInstance}
<1>1. publisher.journal[k] \in SyncSince(publisher, since)
  BY DEF SyncSince
<1>2. /\ setup.agent = "secured" /\ Subscribed = Readable
      /\ entries = {e \in SyncSince(publisher, since) :
                       \/ e.operation = "DeleteObject"
                       \/ e.oid \in Active(publisher) /\ publisher.store[e.oid] \in Readable}
  BY <1>1 DEF Answers, SyncSinceAs, Subscribed
<1>3. QED
  BY <1>2, WithheldUnseen

\* An entry names an object the publisher has put (broker.rs:192, 289).
LEMMA EntryStored ==
    ASSUME NEW q, SoundBroker(q), NEW k \in DOMAIN q.journal
    PROVE  q.journal[k].oid \in Stored(q)
<1>1. /\ q.journal[k].oid \in Oid /\ q.journal[k].operation \in Operation
      /\ DOMAIN q.journal = 1..Len(q.journal) /\ Len(q.journal) \in Nat
  BY EntryFields DEF SoundBroker, Broker
<1>2. CASE q.journal[k].operation = "PutObject"
  BY <1>1, <1>2 DEF SoundBroker, Journalled, PutIn
<1>3. CASE q.journal[k].operation = "DeleteObject"
  <2>1. PICK m \in 1..(k - 1) : /\ q.journal[m].oid = q.journal[k].oid
                                /\ q.journal[m].operation = "PutObject"
    BY <1>3 DEF SoundBroker, DeletesFollow
  <2>2. m \in DOMAIN q.journal
    BY <1>1, <2>1
  <2>3. QED
    BY <1>1, <2>1, <2>2 DEF SoundBroker, Journalled, PutIn
<1>4. QED
  BY <1>1, <1>2, <1>3 DEF Operation

\* A turn applies its entry to a replica, skips what was applied, or stops
\* (replication.rs:90-97, broker.rs:76-141).
LEMMA TurnGood ==
    ASSUME SoundBroker(publisher), Len(publisher.journal) <= MaxSequence,
           NEW since \in Nat, NEW entries, Answers(entries, since),
           NEW r \in SoundRun, NEW k \in DOMAIN publisher.journal,
           GoodRun(r, since, k - 1)
    PROVE  GoodRun(Turn(r, k, entries), since, k)
<1> DEFINE e == publisher.journal[k]
           s == r.broker
           c == ApplyEntry(s, e, publisher.store[e.oid])
<1>1. /\ SoundBroker(s) /\ s \in Broker /\ r.failed \in BOOLEAN
      /\ s.applied_sequence \in Nat /\ Len(s.journal) \in Nat
      /\ publisher \in Broker /\ Len(publisher.journal) \in Nat
      /\ DOMAIN publisher.journal = 1..Len(publisher.journal) /\ k \in Nat
      /\ e.sequence = k
  BY PositionIsNumber, BrokerAssumption DEF SoundRun, SoundBroker, Broker, Sequence
<1>2. Replica(s) /\ since <= s.applied_sequence
  BY DEF GoodRun
<1>3. CASE Turn(r, k, entries) = r /\ (r.failed \/ s.applied_sequence >= k)
  <2>1. ~r.failed => \A j \in DOMAIN publisher.journal :
                        s.applied_sequence < j /\ j <= k => j <= k - 1
    BY <1>1, <1>3
  <2>2. QED
    BY <1>2, <1>3, <2>1 DEF GoodRun
<1>4. CASE Turn(r, k, entries) = [r EXCEPT !.failed = TRUE]
  <2>1. [r EXCEPT !.failed = TRUE].broker = s /\ [r EXCEPT !.failed = TRUE].failed = TRUE
    BY DEF SoundRun
  <2>2. QED
    BY <1>2, <1>4, <2>1 DEF GoodRun
<1>5. CASE e \notin entries
  <2>1. Turn(r, k, entries) = r
    BY <1>5 DEF Turn
  <2>2. ASSUME ~r.failed, NEW j \in DOMAIN publisher.journal, s.applied_sequence < j, j <= k,
               IsLast(publisher, j)
        PROVE  View(publisher)[publisher.journal[j].oid] \notin Subscribed \cup {NoInstance}
    <3>1. CASE j = k
      BY <1>1, <1>2, <1>5, <2>2, <3>1, LeftOutUnseen
    <3>2. CASE j <= k - 1
      BY <2>2, <3>2 DEF GoodRun
    <3>3. QED
      BY <1>1, <2>2, <3>1, <3>2
  <2>3. QED
    BY <1>2, <2>1, <2>2 DEF GoodRun
<1>6. CASE /\ ~r.failed /\ s.applied_sequence < k
           /\ Turn(r, k, entries) = [r EXCEPT !.broker = c]
  <2>1. /\ e \in Entry /\ e.oid \in Oid
        /\ e.operation = "PutObject" => publisher.store[e.oid] \in Instance
    BY PublisherEntry
  <2>2. \A j \in DOMAIN publisher.journal :
            s.applied_sequence < j /\ j < k /\ IsLast(publisher, j) =>
                View(publisher)[publisher.journal[j].oid] \notin Subscribed \cup {NoInstance}
    BY <1>1, <1>6 DEF GoodRun
  <2>3. /\ c \in Broker /\ c.applied_sequence = k /\ Len(c.journal) <= Len(s.journal) + 1
        /\ Follows(c, publisher, Subscribed)
    <3>1. Follows(s, publisher, Subscribed)
      BY <1>2 DEF Replica
    <3> HIDE DEF s
    <3>2. QED
      BY <1>1, <1>6, <2>2, <3>1, ApplyFollows
  <2>4. \A x \in Oid : x # e.oid => View(c)[x] = View(s)[x]
    BY <1>1, <2>1, ApplyFields
  <2> HIDE DEF c
  <2>5. OfPublisher(c)
    <3>1. e.oid \in Stored(publisher)
      BY EntryStored
    <3>2. \A o \in PublisherOid \ Stored(publisher) : o \in Oid /\ o # e.oid
      BY <3>1, ReplicationAssumption
    <3>3. QED
      BY <1>2, <2>4, <3>2 DEF OfPublisher, Replica
  <2>6. ~setup.local => Len(c.journal) <= c.applied_sequence
    <3>1. Len(c.journal) \in Nat
      BY <2>3 DEF Broker
    <3>2. QED
      BY <1>1, <1>2, <1>6, <2>3, <3>1 DEF Replica
  <2>7. Replica(c)
    BY <2>3, <2>5, <2>6 DEF Replica
  <2>8. [r EXCEPT !.broker = c].broker = c
    BY DEF SoundRun
  <2>9. since <= c.applied_sequence
    BY <1>1, <1>2, <1>6, <2>3
  <2>10. \A j \in DOMAIN publisher.journal : ~(c.applied_sequence < j /\ j <= k)
    BY <1>1, <2>3
  <2>11. QED
    BY <1>6, <2>7, <2>8, <2>9, <2>10 DEF GoodRun
<1>7. \/ e \notin entries
      \/ Turn(r, k, entries) = r /\ (r.failed \/ s.applied_sequence >= k)
      \/ Turn(r, k, entries) = [r EXCEPT !.failed = TRUE]
      \/ /\ ~r.failed /\ ~(s.applied_sequence >= k)
         /\ Turn(r, k, entries) = [r EXCEPT !.broker = c]
  <2> HIDE DEF c
  <2>1. QED
    BY <1>1 DEF Turn, ApplyNext, c
<1>8. (~(s.applied_sequence >= k)) => s.applied_sequence < k
  BY <1>1
<1>9. QED
  BY <1>3, <1>4, <1>5, <1>6, <1>7, <1>8

\* So does the whole loop, from wherever the caller asked to read
\* (replication.rs:82-104).
LEMMA PullGood ==
    ASSUME SoundBroker(publisher), Len(publisher.journal) <= MaxSequence,
           NEW b, SoundBroker(b), Replica(b),
           NEW since \in Nat, since <= b.applied_sequence,
           NEW entries, Answers(entries, since)
    PROVE  GoodRun(ApplySyncResponse(b, entries), since, Len(publisher.journal))
<1> DEFINE N == Len(publisher.journal)
           S == {k \in 0..N : GoodRun(Turns(b, entries)[k], since, k)}
<1>1. /\ N \in Nat /\ DOMAIN publisher.journal = 1..N
      /\ Turns(b, entries) \in [0..N -> SoundRun]
      /\ Turns(b, entries)[0] = [broker |-> b, failed |-> FALSE]
      /\ \A k \in 1..N : Turns(b, entries)[k] = Turn(Turns(b, entries)[k - 1], k, entries)
  BY PullTurns
<1>2. 0 \in S
  <2>1. b.applied_sequence \in Nat
    BY BrokerAssumption DEF SoundBroker, Broker, Sequence
  <2>2. GoodRun([broker |-> b, failed |-> FALSE], since, 0)
    BY <1>1, <2>1 DEF GoodRun
  <2>3. QED
    BY <1>1, <2>2
<1>3. ASSUME NEW k \in 1..N, k - 1 \in S PROVE k \in S
  <2>1. Turns(b, entries)[k - 1] \in SoundRun /\ GoodRun(Turns(b, entries)[k - 1], since, k - 1)
    BY <1>1, <1>3
  <2>2. k \in DOMAIN publisher.journal
    BY <1>1
  <2>3. GoodRun(Turn(Turns(b, entries)[k - 1], k, entries), since, k)
    BY <2>1, <2>2, TurnGood
  <2>4. QED
    BY <1>1, <2>3
<1> HIDE DEF S
<1>4. 0..N \subseteq S
  <2> HIDE DEF N
  <2>1. QED
    BY <1>1, <1>2, <1>3, UpTo
<1>5. N \in S
  BY <1>1, <1>4
<1>6. QED
  BY <1>5 DEF S, ApplySyncResponse

-----------------------------------------------------------------------------
(* The inductive invariant.  The three brokers are sound whatever the      *)
(* deployment.  A consumer that has clients of its own and is restarted    *)
(* takes its own journal for a cursor (the snapshot's default), so what    *)
(* the cursor covers is claimed of every other deployment.                 *)

Coherent == ~(setup.local /\ setup.restarts)

Sound ==
    /\ TypeOK
    /\ SoundBroker(publisher) /\ SoundBroker(consumer) /\ SoundBroker(snapshot)
    /\ Len(publisher.journal) <= writes
    /\ \A k \in DOMAIN publisher.journal : publisher.journal[k].oid \in PublisherOid

IInv ==
    /\ Sound
    /\ Coherent => /\ Replica(consumer)
                   /\ setup.restarts => Replica(snapshot)
                   /\ PullConverges

\* The numbers of a state the invariant allows.
LEMMA SoundFacts ==
    ASSUME Sound
    PROVE  /\ publisher \in Broker /\ consumer \in Broker /\ snapshot \in Broker
           /\ consumer.applied_sequence \in Nat /\ snapshot.applied_sequence \in Nat
           /\ Len(publisher.journal) \in Nat /\ Len(publisher.journal) <= MaxSequence
           /\ writes \in 0..MaxWrites /\ MaxWrites \in Nat /\ setup \in Setup
<1>1. /\ publisher \in Broker /\ consumer \in Broker /\ snapshot \in Broker
      /\ writes \in 0..MaxWrites /\ MaxWrites \in Nat /\ setup \in Setup
      /\ Len(publisher.journal) <= writes
  BY ReplicationAssumption DEF Sound, TypeOK
<1>2. /\ consumer.applied_sequence \in Nat /\ snapshot.applied_sequence \in Nat
      /\ Len(publisher.journal) \in Nat
  BY <1>1, BrokerAssumption DEF Broker, Sequence
<1>3. Len(publisher.journal) <= MaxSequence
  BY <1>1, <1>2, UnsaturatedAssumption, BrokerAssumption
<1>4. QED
  BY <1>1, <1>2, <1>3

\* An object that was put has a last entry (broker.rs:305).
LEMMA LastEntry ==
    ASSUME NEW q, SoundBroker(q), NEW o \in Stored(q)
    PROVE  \E k \in DOMAIN q.journal : q.journal[k].oid = o /\ IsLast(q, k)
<1> DEFINE N == Len(q.journal)
           S == {n \in 0..N : \A k \in DOMAIN q.journal : q.journal[k].oid = o => k <= N - n}
<1>1. SUFFICES ASSUME \A k \in DOMAIN q.journal : q.journal[k].oid = o => ~IsLast(q, k)
               PROVE  FALSE
  OBVIOUS
<1>2. N \in Nat /\ DOMAIN q.journal = 1..N
  BY DEF SoundBroker, Broker
<1>3. 0 \in S
  BY <1>2
<1>4. ASSUME NEW n \in 1..N, n - 1 \in S PROVE n \in S
  <2>1. \A k \in DOMAIN q.journal : q.journal[k].oid = o => k <= N - (n - 1)
    BY <1>4
  <2>2. ASSUME NEW k \in DOMAIN q.journal, q.journal[k].oid = o PROVE k <= N - n
    <3>1. PICK m \in DOMAIN q.journal : m > k /\ q.journal[m].oid = o
      BY <1>1, <2>2 DEF IsLast
    <3>2. m <= N - (n - 1)
      BY <2>1, <3>1
    <3>3. QED
      BY <1>2, <3>1, <3>2
  <2>3. QED
    BY <1>2, <2>2
<1> HIDE DEF S
<1>5. 0..N \subseteq S
  <2> HIDE DEF N
  <2>1. QED
    BY <1>2, <1>3, <1>4, UpTo
<1>6. \A k \in DOMAIN q.journal : q.journal[k].oid # o
  <2>1. N \in S
    BY <1>2, <1>5
  <2>2. QED
    BY <1>2, <2>1 DEF S
<1>7. PICK k \in DOMAIN q.journal : q.journal[k].oid = o
  BY DEF SoundBroker, Journalled, PutIn
<1>8. QED
  BY <1>6, <1>7

\* A run that ends without a failure has left nothing out that the subscriber
\* could read (replication.rs:82-104).
LEMMA GoodRunConverges ==
    ASSUME SoundBroker(publisher), NEW r \in SoundRun, NEW since,
           GoodRun(r, since, Len(publisher.journal)), ~r.failed, NEW o \in PublisherOid,
           View(publisher)[o] \in Subscribed \cup {NoInstance}
    PROVE  View(r.broker)[o] = View(publisher)[o]
<1>1. o \in Oid /\ publisher \in Broker
  BY ReplicationAssumption DEF SoundBroker
<1>2. CASE o \notin Stored(publisher)
  <2>1. View(publisher)[o] = NoInstance
    BY <1>1, <1>2 DEF View, Stored
  <2>2. View(r.broker)[o] = NoInstance
    BY <1>2 DEF GoodRun, Replica, OfPublisher
  <2>3. QED
    BY <2>1, <2>2
<1>3. CASE o \in Stored(publisher)
  <2>1. PICK k \in DOMAIN publisher.journal :
            publisher.journal[k].oid = o /\ IsLast(publisher, k)
    BY <1>3, LastEntry
  <2>2. /\ k \in Nat /\ k <= Len(publisher.journal) /\ r.broker.applied_sequence \in Nat
    BY <1>1, BrokerAssumption DEF Broker, SoundRun, Sequence
  <2>3. k <= r.broker.applied_sequence
    BY <2>1, <2>2 DEF GoodRun
  <2>4. QED
    BY <2>1, <2>3 DEF GoodRun, Replica, Follows, CoversTo
<1>4. QED
  BY <1>2, <1>3

\* A publisher that has moved on is followed as before (broker.rs:192, 289).
LEMMA ReplicaOn ==
    ASSUME Sound, SoundBroker(publisher'), Announces(publisher, publisher'), UNCHANGED setup,
           Stored(publisher) \subseteq Stored(publisher'),
           NEW b \in Broker, Replica(b)
    PROVE  /\ Follows(b, publisher', Subscribed)
           /\ \A o \in PublisherOid \ Stored(publisher') : View(b)[o] = NoInstance
           /\ ~setup.local => Len(b.journal) <= b.applied_sequence
<1>1. publisher \in Broker /\ publisher' \in Broker
  BY DEF Sound, SoundBroker
<1>2. QED
  BY <1>1, FollowsOn DEF Replica, OfPublisher

\* The writes of the publisher's clients (broker.rs:192, 289).
LEMMA PublisherStep ==
    ASSUME IInv, UNCHANGED <<setup, consumer, snapshot>>, Write, NEW o \in PublisherOid,
           NEW c, SoundBroker(c), publisher' = c, Announces(publisher, c),
           Len(c.journal) <= Len(publisher.journal) + 1,
           Stored(publisher) \subseteq Stored(c),
           \A k \in DOMAIN c.journal :
               k \in DOMAIN publisher.journal \/ c.journal[k].oid = o
    PROVE  IInv'
<1>0. Sound /\ c \in Broker /\ Len(c.journal) \in Nat
  BY DEF IInv, SoundBroker, Broker
<1>1. /\ writes' = writes + 1 /\ writes' \in 0..MaxWrites /\ lastPull' = "none"
  BY <1>0, SoundFacts DEF Write
<1>2. \A k \in DOMAIN c.journal : c.journal[k].oid \in PublisherOid
  BY <1>0 DEF Announces, Sound
<1>3. Len(c.journal) <= writes'
  BY <1>0, <1>1, SoundFacts DEF Sound
<1>4. Sound'
  BY <1>0, <1>1, <1>2, <1>3 DEF Sound, TypeOK
<1>5. ASSUME NEW b \in Broker, Replica(b)
      PROVE  /\ Follows(b, publisher', Subscribed)
             /\ \A x \in PublisherOid \ Stored(publisher') : View(b)[x] = NoInstance
             /\ ~setup.local => Len(b.journal) <= b.applied_sequence
  BY <1>0, <1>5, ReplicaOn
<1>6. Coherent' => /\ Replica(consumer)' /\ PullConverges'
                   /\ setup'.restarts => Replica(snapshot)'
  <2> SUFFICES ASSUME Coherent
               PROVE  /\ Replica(consumer)' /\ PullConverges'
                      /\ setup.restarts => Replica(snapshot)'
    BY DEF Coherent
  <2>1. Replica(consumer) /\ (setup.restarts => Replica(snapshot))
    BY DEF IInv
  <2>2. Subscribed' = Subscribed
    BY DEF Subscribed
  <2>3. Replica(consumer)' /\ (setup.restarts => Replica(snapshot)')
    BY <1>0, <1>5, <2>1, <2>2, SoundFacts DEF Replica, OfPublisher
  <2>4. PullConverges'
    BY <1>1 DEF PullConverges
  <2>5. QED
    BY <2>3, <2>4
<1>7. QED
  BY <1>4, <1>6 DEF IInv

\* The publisher's clients (broker.rs:192, 289).
LEMMA PublisherWrites ==
    ASSUME IInv, UNCHANGED setup, NEW o \in PublisherOid
    PROVE  /\ \A i \in ValidInstance : PublisherPut(o, i) => IInv'
           /\ PublisherDelete(o) => IInv'
<1>0. SoundBroker(publisher) /\ publisher \in Broker /\ o \in Oid
  BY ReplicationAssumption DEF IInv, Sound, SoundBroker
<1>1. ASSUME NEW i \in ValidInstance, PublisherPut(o, i) PROVE IInv'
  <2>1. i \in Instance /\ i # NoInstance
    BY BrokerAssumption
  <2>2. ASSUME NEW c, c = PutObject(publisher, o, i)
        PROVE  /\ c \in Broker /\ SoundBroker(c) /\ Announces(publisher, c)
               /\ Len(c.journal) <= Len(publisher.journal) + 1
               /\ c.store = [publisher.store EXCEPT ![o] = i]
               /\ c.journal = Append(publisher.journal, NewEntry(publisher, "PutObject", o))
    BY <1>0, <2>1, <2>2, PutSound, PutFields, ClientAnnounces
  <2>3. PICK c : c = PutObject(publisher, o, i)
    OBVIOUS
  <2>4. Stored(publisher) \subseteq Stored(c)
    BY <1>0, <2>1, <2>2, <2>3 DEF Stored, Broker
  <2>5. \A k \in DOMAIN c.journal : k \in DOMAIN publisher.journal \/ c.journal[k].oid = o
    BY <1>0, <2>2, <2>3 DEF Broker, NewEntry
  <2>6. publisher' = c /\ Write /\ UNCHANGED <<consumer, snapshot>>
    BY <1>1, <2>3 DEF PublisherPut
  <2>7. QED
    BY <2>2, <2>3, <2>4, <2>5, <2>6, PublisherStep
<1>2. ASSUME PublisherDelete(o) PROVE IInv'
  <2>1. o \in Stored(publisher)
    BY <1>2 DEF PublisherDelete
  <2>2. ASSUME NEW c, c = DeleteObject(publisher, o)
        PROVE  /\ c \in Broker /\ SoundBroker(c) /\ Announces(publisher, c)
               /\ Len(c.journal) <= Len(publisher.journal) + 1
               /\ c.store = publisher.store
               /\ c.journal = Append(publisher.journal, NewEntry(publisher, "DeleteObject", o))
    BY <1>0, <2>1, <2>2, DeleteSound, DeleteFields, ClientAnnounces
  <2>3. PICK c : c = DeleteObject(publisher, o)
    OBVIOUS
  <2>4. Stored(publisher) \subseteq Stored(c)
    BY <2>2, <2>3 DEF Stored
  <2>5. \A k \in DOMAIN c.journal : k \in DOMAIN publisher.journal \/ c.journal[k].oid = o
    BY <1>0, <2>2, <2>3 DEF Broker, NewEntry
  <2>6. publisher' = c /\ Write /\ UNCHANGED <<consumer, snapshot>>
    BY <1>2, <2>3 DEF PublisherDelete
  <2>7. QED
    BY <2>2, <2>3, <2>4, <2>5, <2>6, PublisherStep
<1>3. QED
  BY <1>1, <1>2

\* The consumer's own clients write objects the publisher never names
\* (broker.rs:192).
LEMMA ConsumerWrites ==
    ASSUME IInv, UNCHANGED setup, NEW o \in ConsumerOid, NEW i \in Accepted, ConsumerPut(o, i)
    PROVE  IInv'
<1>0. /\ Sound /\ SoundBroker(consumer) /\ consumer \in Broker /\ o \in Oid /\ i \in Instance
      /\ o \notin PublisherOid
  BY ReplicationAssumption DEF IInv, Sound, SoundBroker
<1>1. /\ writes' = writes + 1 /\ writes' \in 0..MaxWrites /\ lastPull' = "none"
      /\ setup.local /\ UNCHANGED <<publisher, snapshot>>
      /\ consumer' = PutObject(consumer, o, i)
  BY <1>0, SoundFacts DEF ConsumerPut, Write
<1>2. ASSUME NEW c, c = PutObject(consumer, o, i)
      PROVE  /\ c \in Broker /\ SoundBroker(c) /\ c.applied_sequence = consumer.applied_sequence
             /\ \A x \in Oid : x # o => View(c)[x] = View(consumer)[x]
  <2>1. /\ c \in Broker /\ c.applied_sequence = consumer.applied_sequence
        /\ c.store = [consumer.store EXCEPT ![o] = i] /\ c.inactive = consumer.inactive \ {o}
    BY <1>0, <1>2, PutFields
  <2>2. SoundBroker(c)
    BY <1>0, <1>2, PutSound
  <2>3. \A x \in Oid : x # o => View(c)[x] = View(consumer)[x]
    BY <1>0, <2>1 DEF View, Broker
  <2>4. QED
    BY <2>1, <2>2, <2>3
<1>3. PICK c : c = PutObject(consumer, o, i)
  OBVIOUS
<1>4. consumer' = c /\ c \in Broker /\ SoundBroker(c)
  BY <1>1, <1>2, <1>3
<1>5. Sound'
  <2>1. Len(publisher.journal) <= writes'
    BY <1>0, <1>1, SoundFacts DEF Sound
  <2>2. QED
    BY <1>0, <1>1, <1>4, <2>1 DEF Sound, TypeOK
<1>6. Coherent' => /\ Replica(consumer)' /\ PullConverges'
                   /\ setup'.restarts => Replica(snapshot)'
  <2> SUFFICES ASSUME Coherent
               PROVE  /\ Replica(consumer)' /\ PullConverges' /\ ~setup.restarts
    BY DEF Coherent
  <2>1. Replica(consumer) /\ ~setup.restarts
    BY <1>1 DEF IInv, Coherent
  <2>2. Subscribed' = Subscribed
    BY DEF Subscribed
  <2>3. \A x \in PublisherOid : View(c)[x] = View(consumer)[x]
    BY <1>0, <1>2, <1>3, ReplicationAssumption
  <2>4. Follows(c, publisher, Subscribed)
    BY <1>0, <1>2, <1>3, <2>1, <2>3 DEF Replica, Follows, CoversTo, Sound
  <2>5. Replica(consumer)'
    BY <1>1, <1>4, <2>1, <2>2, <2>3, <2>4 DEF Replica, OfPublisher
  <2>6. PullConverges'
    BY <1>1 DEF PullConverges
  <2>7. QED
    BY <2>1, <2>5, <2>6
<1>7. QED
  BY <1>5, <1>6 DEF IInv

\* The pulls (replication.rs:21-49, 82-104).
LEMMA Pulls ==
    ASSUME IInv, UNCHANGED setup, NEW since \in {0, consumer.applied_sequence},
           NEW entries, Answers(entries, since), PullEntries(entries)
    PROVE  IInv'
<1> DEFINE run == ApplySyncResponse(consumer, entries)
<1>0. /\ Sound /\ SoundBroker(publisher) /\ SoundBroker(consumer)
      /\ since \in Nat /\ since <= consumer.applied_sequence
  BY SoundFacts DEF IInv, Sound
<1>1. /\ consumer' = run.broker /\ lastPull' = IF run.failed THEN "failed" ELSE "ok"
      /\ UNCHANGED <<publisher, snapshot, writes>>
  BY DEF PullEntries
<1>2. run \in SoundRun
  <2>1. /\ Turns(consumer, entries) \in [0..Len(publisher.journal) -> SoundRun]
        /\ Len(publisher.journal) \in Nat
    BY <1>0, PullTurns
  <2>2. QED
    BY <2>1 DEF ApplySyncResponse
<1>3. run.broker \in Broker /\ SoundBroker(run.broker) /\ run.failed \in BOOLEAN
  BY <1>2 DEF SoundRun
<1>4. Sound'
  BY <1>0, <1>1, <1>3 DEF Sound, TypeOK
<1>5. Coherent' => /\ Replica(consumer)' /\ PullConverges'
                   /\ setup'.restarts => Replica(snapshot)'
  <2> SUFFICES ASSUME Coherent
               PROVE  /\ Replica(consumer)' /\ PullConverges'
                      /\ setup.restarts => Replica(snapshot)'
    BY DEF Coherent
  <2>1. Replica(consumer) /\ (setup.restarts => Replica(snapshot))
    BY DEF IInv
  <2>2. GoodRun(run, since, Len(publisher.journal))
    BY <1>0, <2>1, SoundFacts, PullGood
  <2> HIDE DEF run
  <2>3. Subscribed' = Subscribed
    BY DEF Subscribed
  <2>4. Replica(run.broker)
    BY <2>2 DEF GoodRun
  <2>5. Replica(consumer)' /\ (setup.restarts => Replica(snapshot)')
    BY <1>1, <2>1, <2>3, <2>4 DEF Replica, OfPublisher
  <2>6. ASSUME lastPull' = "ok", NEW o \in PublisherOid,
               View(publisher)[o] \in Subscribed \cup {NoInstance}
        PROVE  View(run.broker)[o] = View(publisher)[o]
    <3>1. ~run.failed
      BY <1>1, <2>6
    <3>2. QED
      BY <1>0, <1>2, <2>2, <2>6, <3>1, GoodRunConverges
  <2>7. PullConverges'
    BY <1>1, <2>3, <2>6 DEF PullConverges
  <2>8. QED
    BY <2>5, <2>7
<1>6. QED
  BY <1>4, <1>5 DEF IInv

\* Saving the consumer, and starting it again from an older snapshot
\* (persistence.rs:55-75).
LEMMA Restarts ==
    ASSUME IInv, UNCHANGED setup, Save \/ Restart
    PROVE  IInv'
<1>0. Sound /\ UNCHANGED <<publisher, writes>> /\ setup.restarts /\ lastPull' = "none"
  BY DEF IInv, Save, Restart
<1>1. Subscribed' = Subscribed /\ PullConverges'
  BY <1>0 DEF Subscribed, PullConverges
<1>2. CASE Save
  <2>1. Sound'
    BY <1>0, <1>2 DEF Save, Sound, TypeOK
  <2>2. Coherent' => Replica(consumer)' /\ Replica(snapshot)'
    BY <1>0, <1>1, <1>2 DEF Save, IInv, Coherent, Replica, OfPublisher
  <2>3. QED
    BY <1>1, <2>1, <2>2 DEF IInv
<1>3. CASE Restart
  <2> DEFINE s == IF snapshot.applied_sequence = 0
                  THEN snapshot.sequence ELSE snapshot.applied_sequence
  <2>1. snapshot \in Broker /\ SoundBroker(snapshot) /\ s \in Sequence
    BY <1>0 DEF Sound, SoundBroker, Broker
  <2>2. ASSUME NEW c, c = [snapshot EXCEPT !.applied_sequence = s]
        PROVE  /\ c \in Broker /\ SoundBroker(c) /\ c.applied_sequence = s
               /\ c.journal = snapshot.journal /\ View(c) = View(snapshot)
    <3>1. /\ c \in Broker /\ c.applied_sequence = s /\ c.journal = snapshot.journal
          /\ c.store = snapshot.store /\ c.inactive = snapshot.inactive
      BY <2>1, <2>2, CursorFields
    <3>2. SoundBroker(c)
      BY <2>1, <2>2, CursorSound
    <3>3. QED
      BY <3>1, <3>2 DEF View
  <2>3. PICK c : c = [snapshot EXCEPT !.applied_sequence = s]
    OBVIOUS
  <2>4. consumer' = c /\ UNCHANGED <<publisher, snapshot, writes>>
    BY <1>3, <2>3 DEF Restart, Reload
  <2>5. Sound'
    BY <1>0, <2>2, <2>3, <2>4 DEF Sound, TypeOK
  <2>6. ASSUME Coherent PROVE Replica(consumer)' /\ Replica(snapshot)'
    <3>1. Replica(snapshot) /\ ~setup.local
      BY <1>0, <2>6 DEF IInv, Coherent
    <3>2. s = snapshot.applied_sequence
      <4>1. CASE snapshot.applied_sequence = 0
        <5>1. Len(snapshot.journal) = 0
          BY <2>1, <3>1, <4>1 DEF Replica, Broker
        <5>2. snapshot.sequence = 0
          BY <2>1, <5>1, BrokerAssumption, PositionIsNumber
        <5>3. QED
          BY <4>1, <5>2
      <4>2. QED
        BY <4>1
    <3> HIDE DEF s
    <3>3. Replica(c)
      BY <2>2, <2>3, <3>1, <3>2 DEF Replica, Follows, CoversTo, OfPublisher
    <3>4. QED
      BY <1>0, <1>1, <2>4, <3>1, <3>3 DEF Replica, OfPublisher
  <2>7. QED
    BY <1>1, <2>5, <2>6 DEF IInv, Coherent
<1>4. QED
  BY <1>2, <1>3

\* The agent starts with new brokers and an empty snapshot (broker.rs:27).
LEMMA InitSound == Init => IInv
<1> SUFFICES ASSUME Init PROVE IInv
  OBVIOUS
<1>1. /\ publisher = NewBroker /\ consumer = NewBroker /\ snapshot = NewBroker
      /\ setup \in Setups /\ writes = 0 /\ lastPull = "none"
  BY DEF Init
<1>2. /\ NewBroker.journal = << >> /\ NewBroker.applied_sequence = 0
      /\ NewBroker \in Broker /\ SoundBroker(NewBroker)
      /\ \A o \in Oid : View(NewBroker)[o] = NoInstance
  BY NewBrokerSound DEF NewBroker, SoundBroker, View
<1>3. Sound
  <2>1. 0 \in 0..MaxWrites
    BY ReplicationAssumption
  <2>2. Len(NewBroker.journal) = 0 /\ DOMAIN NewBroker.journal = {}
    BY <1>2
  <2>3. QED
    BY <1>1, <1>2, <2>1, <2>2 DEF Sound, TypeOK
<1>4. ASSUME NEW b, b = NewBroker PROVE Replica(b)
  <2>1. Follows(b, publisher, Subscribed)
    BY <1>1, <1>2, <1>4 DEF Follows, CoversTo
  <2>2. OfPublisher(b)
    BY <1>2, <1>4, ReplicationAssumption DEF OfPublisher
  <2>3. QED
    BY <1>2, <1>4, <2>1, <2>2 DEF Replica
<1>5. PullConverges
  BY <1>1 DEF PullConverges
<1>6. QED
  BY <1>1, <1>3, <1>4, <1>5 DEF IInv

-----------------------------------------------------------------------------
(* The theorems.                                                            *)

\* The inductive invariant holds of every behaviour of the agent and its brokers
\* (replication.rs:21-104, persistence.rs:55-75).
THEOREM AlwaysSound == Spec => []IInv
<1>1. IInv /\ [Next]_vars => IInv'
  <2> SUFFICES ASSUME IInv, [Next]_vars PROVE IInv'
    OBVIOUS
  <2>1. CASE UNCHANGED vars
    BY <2>1 DEF vars, IInv, Sound, TypeOK, Coherent, Replica, OfPublisher, Subscribed,
                PullConverges
  <2>2. CASE Next
    <3>1. UNCHANGED setup /\ Step
      BY <2>2 DEF Next
    <3>2. ASSUME NEW since \in {0, consumer.applied_sequence},
                 PullAndApply(since) \/ PullAndApplySecured(since)
          PROVE  IInv'
      <4>1. CASE PullAndApply(since)
        BY <3>1, <4>1, Pulls DEF PullAndApply, Answers
      <4>2. CASE PullAndApplySecured(since)
        BY <3>1, <4>2, Pulls DEF PullAndApplySecured, Answers
      <4>3. QED
        BY <3>2, <4>1, <4>2
    <3>3. QED
      BY <3>1, <3>2, PublisherWrites, ConsumerWrites, Restarts DEF Step
  <2>3. QED
    BY <2>1, <2>2
<1>2. QED
  BY InitSound, <1>1, PTL DEF Spec

\* The brokers and the agent's bookkeeping stay well typed (replication.rs:8-14).
THEOREM TypeCorrect == Spec => []TypeOK
<1>1. IInv => TypeOK
  BY DEF IInv, Sound
<1>2. QED
  BY <1>1, AlwaysSound, PTL

\* The cursor covers what it claims, through failed pulls, re-reads from 0 and
\* restarts from an old snapshot, in every deployment but one where a consumer with
\* clients of its own is restarted (replication.rs:91, persistence.rs:65).
THEOREM CursorsCover == Spec => [](Coherent => CursorCovers)
<1>1. IInv => (Coherent => CursorCovers)
  BY DEF IInv, Replica, Follows, CoversTo, CursorCovers
<1>2. QED
  BY <1>1, AlwaysSound, PTL

\* In the same deployments a pull that reports success leaves nothing behind that
\* the subscriber may read, nor anything that was deleted (replication.rs:82-104).
THEOREM PullsConverge == Spec => [](Coherent => PullConverges)
<1>1. IInv => (Coherent => PullConverges)
  BY DEF IInv
<1>2. QED
  BY <1>1, AlwaysSound, PTL
=============================================================================
