-------------------------- MODULE FederationProofs --------------------------
(***************************************************************************)
(* Federated nodes, for any number of them, any number of handlers at a    *)
(* time and any clients: types, what a replica may hold, and the cursor.   *)
(* Every broker, and every clone a handler works on, is sound in the sense *)
(* of BrokerStateProofs.  The second half is about deployments with one    *)
(* handler at a time: what their cursors cover and what their brokers keep.*)
(***************************************************************************)
EXTENDS Federation, BrokerStateProofs

Allowed(n) == Readable[n] \cup deployment.authored[n] \cup {NoInstance}

\* A broker of node n, or a clone of it.
NodeBroker(n, b) ==
    /\ SoundBroker(b)
    /\ \A o \in Oid : b.store[o] \in Allowed(n)

\* What a handler of node n holds; only a consumer has one that is not idle.
HandlerSound(n, p) ==
    /\ p \in PullState
    /\ NodeBroker(n, p.staging)
    /\ p.at # "idle" => Publisher[n] # NoNode

\* A number that the publisher of n has reached, unless it pulls itself.
Published(n, s) ==
    Publisher[n] # NoNode =>
        (Publisher[Publisher[n]] = NoNode => s <= broker[Publisher[n]].sequence)

HandlerBehind(n, p) ==
    /\ Published(n, p.staging.applied_sequence)
    /\ \A e \in p.entries : Published(n, e.sequence)

\* A consumer counts nothing its publisher has not journalled, nor is about to.
Behind(n) ==
    /\ Published(n, broker[n].applied_sequence)
    /\ \A h \in Pull : HandlerBehind(n, pull[n][h])

IInv ==
    /\ TypeOK
    /\ \A n \in Node : NodeBroker(n, broker[n])
    /\ \A n \in Node, h \in Pull : HandlerSound(n, pull[n][h])
    /\ \A n \in Node : Behind(n)

-----------------------------------------------------------------------------
(* Values.                                                                  *)

\* A number in a journal is no larger than the counter, and the counter never
\* goes back when an entry is recorded (broker.rs:305).
LEMMA CounterBounds ==
    ASSUME NEW b, SoundBroker(b)
    PROVE  /\ b.sequence \in Nat /\ b.applied_sequence \in Nat
           /\ b.sequence <= NextSequence(b.sequence)
           /\ \A k \in DOMAIN b.journal : b.journal[k].sequence <= b.sequence
<1>1. b \in Broker /\ Numbered(b)
  BY DEF SoundBroker
<1>2. /\ b.sequence \in Nat /\ b.applied_sequence \in Nat /\ b.sequence <= MaxSequence
      /\ Len(b.journal) \in Nat /\ DOMAIN b.journal = 1..Len(b.journal)
  BY <1>1, BrokerAssumption DEF Broker, Sequence
<1>3. b.sequence <= NextSequence(b.sequence)
  BY <1>2, BrokerAssumption DEF NextSequence
<1>4. ASSUME NEW k \in DOMAIN b.journal PROVE b.journal[k].sequence <= b.sequence
  BY <1>1, <1>2, BrokerAssumption DEF Numbered
<1>5. QED
  BY <1>2, <1>3, <1>4

\* A client's put and delete keep a node's broker, and its counter moves on
\* (broker.rs:192, 289).
LEMMA ClientKeeps ==
    ASSUME TypeOK, NEW n \in Node, NEW b, NodeBroker(n, b), NEW o \in Oid
    PROVE  /\ \A i \in Instance : i \in Allowed(n) =>
                /\ NodeBroker(n, PutObject(b, o, i))
                /\ PutObject(b, o, i).sequence >= b.sequence
                /\ PutObject(b, o, i).applied_sequence = b.applied_sequence
           /\ /\ o \in Stored(b) => NodeBroker(n, DeleteObject(b, o))
              /\ DeleteObject(b, o).sequence >= b.sequence
              /\ DeleteObject(b, o).applied_sequence = b.applied_sequence
<1>1. b \in Broker /\ SoundBroker(b) /\ \A q \in Oid : b.store[q] \in Allowed(n)
  BY DEF NodeBroker, SoundBroker
<1>2. b.sequence <= NextSequence(b.sequence)
  BY <1>1, CounterBounds
<1>3. ASSUME NEW i \in Instance, i \in Allowed(n)
      PROVE  /\ NodeBroker(n, PutObject(b, o, i))
             /\ PutObject(b, o, i).sequence = NextSequence(b.sequence)
             /\ PutObject(b, o, i).applied_sequence = b.applied_sequence
  <2>1. /\ SoundBroker(PutObject(b, o, i))
        /\ PutObject(b, o, i).store = [b.store EXCEPT ![o] = i]
        /\ PutObject(b, o, i).sequence = NextSequence(b.sequence)
        /\ PutObject(b, o, i).applied_sequence = b.applied_sequence
    BY <1>1, PutSound, PutFields
  <2>2. \A q \in Oid : PutObject(b, o, i).store[q] \in Allowed(n)
    BY <1>1, <1>3, <2>1 DEF Broker
  <2>3. QED
    BY <2>1, <2>2 DEF NodeBroker
<1>4. /\ DeleteObject(b, o).store = b.store
      /\ DeleteObject(b, o).sequence = NextSequence(b.sequence)
      /\ DeleteObject(b, o).applied_sequence = b.applied_sequence
  BY <1>1, DeleteFields
<1>5. o \in Stored(b) => SoundBroker(DeleteObject(b, o))
  BY <1>1, DeleteSound
<1>6. QED
  BY <1>1, <1>2, <1>3, <1>4, <1>5 DEF NodeBroker

\* A handler that applies an entry keeps its clone what a broker of its node may
\* be, and its cursor is the entry's number (broker.rs:99).
LEMMA ApplyKeeps ==
    ASSUME NEW n \in Node, NEW b, NodeBroker(n, b), NEW e \in Entry, NEW i,
           e.operation = "PutObject" => i \in Instance /\ i \in Readable[n]
    PROVE  /\ NodeBroker(n, ApplyEntry(b, e, i))
           /\ ApplyEntry(b, e, i).applied_sequence = e.sequence
<1>1. /\ b \in Broker /\ SoundBroker(b) /\ \A q \in Oid : b.store[q] \in Allowed(n)
      /\ e.oid \in Oid /\ e.sequence \in Sequence
  BY DEF NodeBroker, SoundBroker, Entry
<1>2. CASE e.operation = "PutObject"
  <2> DEFINE c == PutObject(b, e.oid, i)
  <2>1. c \in Broker /\ SoundBroker(c) /\ c.store = [b.store EXCEPT ![e.oid] = i]
    BY <1>1, <1>2, PutSound, PutFields
  <2>2. \A q \in Oid : c.store[q] \in Allowed(n)
    BY <1>1, <1>2, <2>1 DEF Broker, Allowed
  <2> HIDE DEF c
  <2>3. /\ SoundBroker([c EXCEPT !.applied_sequence = e.sequence])
        /\ [c EXCEPT !.applied_sequence = e.sequence].store = c.store
        /\ [c EXCEPT !.applied_sequence = e.sequence].applied_sequence = e.sequence
    BY <1>1, <2>1, CursorSound, CursorFields
  <2>4. ApplyEntry(b, e, i) = [c EXCEPT !.applied_sequence = e.sequence]
    BY <1>2 DEF ApplyEntry, ApplyPutEntry, c
  <2>5. QED
    BY <2>2, <2>3, <2>4 DEF NodeBroker
<1>3. CASE e.operation # "PutObject"
  <2> DEFINE c == IF e.oid \in Stored(b) THEN DeleteObject(b, e.oid) ELSE b
  <2>1. c \in Broker /\ SoundBroker(c) /\ c.store = b.store
    BY <1>1, DeleteSound, DeleteFields
  <2> HIDE DEF c
  <2>2. /\ SoundBroker([c EXCEPT !.applied_sequence = e.sequence])
        /\ [c EXCEPT !.applied_sequence = e.sequence].store = c.store
        /\ [c EXCEPT !.applied_sequence = e.sequence].applied_sequence = e.sequence
    BY <1>1, <2>1, CursorSound, CursorFields
  <2>3. ApplyEntry(b, e, i) = [c EXCEPT !.applied_sequence = e.sequence]
    BY <1>3 DEF ApplyEntry, ApplyDeleteEntry, c
  <2>4. QED
    BY <1>1, <2>1, <2>2, <2>3 DEF NodeBroker
<1>4. QED
  BY <1>2, <1>3

\* What a publisher answers is of its journal, and names nothing beyond its
\* counter (broker.rs:163, secured.rs:206).
LEMMA SyncAnswers ==
    ASSUME NEW n \in Node, NEW p \in Node, SoundBroker(broker[p]), NEW since
    PROVE  /\ SyncSinceAs(p, n, since) \subseteq Entry
           /\ \A e \in SyncSinceAs(p, n, since) : e.sequence <= broker[p].sequence
<1>1. \A e \in SyncSinceAs(p, n, since) :
          \E k \in DOMAIN broker[p].journal : e = broker[p].journal[k]
  BY DEF SyncSinceAs, SyncSince
<1>2. broker[p] \in Broker
  BY DEF SoundBroker
<1>3. QED
  BY <1>1, <1>2, EntryFields, CounterBounds

-----------------------------------------------------------------------------
(* Steps.                                                                   *)

\* What was published stays so while a node that does not pull only moves on.
LEMMA PublishedKept ==
    ASSUME IInv, NEW n \in Node, NEW s \in Nat, Published(n, s),
           \A m \in Node : broker'[m].sequence \in Nat,
           \A m \in Node : Publisher[m] = NoNode => broker'[m].sequence >= broker[m].sequence
    PROVE  Published(n, s)'
<1> SUFFICES ASSUME Publisher[n] # NoNode, Publisher[Publisher[n]] = NoNode
             PROVE  s <= broker'[Publisher[n]].sequence
  BY DEF Published
<1>1. Publisher[n] \in Node
  BY FederationAssumption
<1>2. broker[Publisher[n]].sequence \in Nat
  BY <1>1, CounterBounds DEF IInv, NodeBroker
<1>3. s <= broker[Publisher[n]].sequence
  BY DEF Published
<1>4. QED
  BY <1>1, <1>2, <1>3

\* What a step has to show of the brokers and handlers it makes, as seen from the
\* state it leaves.
LEMMA StepKeeps ==
    ASSUME IInv, UNCHANGED deployment,
           notices' \in [Node -> Nat], writes' \in 0..deployment.writes,
           broker' \in [Node -> Broker], pull' \in [Node -> [Pull -> PullState]],
           \A m \in Node : /\ NodeBroker(m, broker'[m])
                           /\ Published(m, broker'[m].applied_sequence)
                           /\ Publisher[m] = NoNode => broker'[m].sequence >= broker[m].sequence,
           \A m \in Node, h \in Pull : /\ HandlerSound(m, pull'[m][h])
                                      /\ HandlerBehind(m, pull'[m][h])
    PROVE  IInv'
<1>1. TypeOK'
  BY DEF IInv, TypeOK
<1>2. \A m \in Node : Allowed(m)' = Allowed(m)
  BY DEF Allowed
<1>3. \A m \in Node : NodeBroker(m, broker[m])'
  BY <1>2 DEF NodeBroker
<1>4. \A m \in Node, h \in Pull : HandlerSound(m, pull[m][h])'
  BY <1>2 DEF HandlerSound, NodeBroker
<1>5. \A m \in Node : broker'[m].sequence \in Nat /\ broker'[m].applied_sequence \in Nat
  BY CounterBounds DEF NodeBroker
<1>6. \A m \in Node : Published(m, broker[m].applied_sequence)'
  <2> SUFFICES ASSUME NEW m \in Node, NEW s, s = broker'[m].applied_sequence
               PROVE  Published(m, s)'
    BY DEF Published
  <2>1. QED
    BY <1>5, PublishedKept
<1>7. \A m \in Node, h \in Pull : HandlerBehind(m, pull[m][h])'
  <2> SUFFICES ASSUME NEW m \in Node, NEW h \in Pull,
                      NEW q, q = pull'[m][h]
               PROVE  HandlerBehind(m, q)'
    BY DEF HandlerBehind, Published
  <2>1. /\ q.staging.applied_sequence \in Nat /\ q.entries \subseteq Entry
        /\ HandlerBehind(m, q)
    BY CounterBounds DEF HandlerSound, NodeBroker, PullState
  <2>2. \A e \in q.entries : e.sequence \in Nat
    BY <2>1, BrokerAssumption DEF Entry, Sequence
  <2>3. QED
    BY <1>5, <2>1, <2>2, PublishedKept DEF HandlerBehind
<1>8. QED
  BY <1>1, <1>3, <1>4, <1>6, <1>7 DEF IInv, Behind

\* A step of one handler leaves the brokers and the others alone.
LEMMA HandlerStep ==
    ASSUME IInv, UNCHANGED <<deployment, broker, writes>>, notices' \in [Node -> Nat],
           NEW n \in Node, NEW h \in Pull, NEW q,
           pull' = [pull EXCEPT ![n][h] = q],
           HandlerSound(n, q), HandlerBehind(n, q)
    PROVE  IInv'
<1>1. /\ pull \in [Node -> [Pull -> PullState]] /\ broker \in [Node -> Broker]
      /\ writes \in 0..deployment.writes
  BY DEF IInv, TypeOK
<1>2. q \in PullState
  BY DEF HandlerSound
<1>3. pull' \in [Node -> [Pull -> PullState]]
  BY <1>1, <1>2
<1>4. \A m \in Node, g \in Pull : pull'[m][g] = IF m = n /\ g = h THEN q ELSE pull[m][g]
  BY <1>1
<1>5. \A m \in Node, g \in Pull : HandlerSound(m, pull'[m][g]) /\ HandlerBehind(m, pull'[m][g])
  BY <1>4 DEF IInv, Behind
<1>6. \A m \in Node : /\ NodeBroker(m, broker'[m])
                      /\ Published(m, broker'[m].applied_sequence)
                      /\ broker'[m].sequence >= broker[m].sequence
  BY CounterBounds DEF IInv, Behind, NodeBroker
<1>7. QED
  BY <1>1, <1>3, <1>5, <1>6, StepKeeps

\* A step of one client leaves the other brokers and all handlers alone.
LEMMA ClientStep ==
    ASSUME IInv, UNCHANGED <<deployment, pull>>, notices' \in [Node -> Nat],
           writes' \in 0..deployment.writes,
           NEW n \in Node, NEW c, NodeBroker(n, c),
           broker' = [broker EXCEPT ![n] = c],
           c.sequence >= broker[n].sequence,
           c.applied_sequence = broker[n].applied_sequence
    PROVE  IInv'
<1>1. pull \in [Node -> [Pull -> PullState]] /\ broker \in [Node -> Broker]
  BY DEF IInv, TypeOK
<1>2. c \in Broker
  BY DEF NodeBroker, SoundBroker
<1>3. broker' \in [Node -> Broker] /\ \A m \in Node : broker'[m] = IF m = n THEN c ELSE broker[m]
  BY <1>1, <1>2
<1>4. \A m \in Node : /\ NodeBroker(m, broker'[m])
                      /\ Published(m, broker'[m].applied_sequence)
                      /\ broker'[m].sequence >= broker[m].sequence
  BY <1>3, CounterBounds DEF IInv, Behind, NodeBroker
<1>5. \A m \in Node, g \in Pull : HandlerSound(m, pull'[m][g]) /\ HandlerBehind(m, pull'[m][g])
  BY DEF IInv, Behind
<1>6. QED
  BY <1>1, <1>3, <1>4, <1>5, StepKeeps

\* A new broker is one any node may have.
LEMMA NewNodeBroker ==
    ASSUME NEW n \in Node
    PROVE  NodeBroker(n, NewBroker) /\ NewBroker.applied_sequence = 0
<1>1. NewBroker.applied_sequence = 0 /\ \A o \in Oid : NewBroker.store[o] = NoInstance
  BY DEF NewBroker
<1>2. QED
  BY <1>1, NewBrokerSound DEF NodeBroker, Allowed

\* A handler that is idle claims nothing (routes.rs:243).
LEMMA IdleSound ==
    ASSUME NEW n \in Node, \A m \in Node : broker[m].sequence \in Nat
    PROVE  HandlerSound(n, Idle) /\ HandlerBehind(n, Idle)
<1>1. NodeBroker(n, NewBroker) /\ NewBroker.applied_sequence = 0 /\ NewBroker \in Broker
  BY NewNodeBroker DEF NodeBroker, SoundBroker
<1>2. Idle \in PullState
  BY <1>1, BrokerAssumption DEF Idle, PullState, Sequence
<1>3. Publisher[n] \in Node \cup {NoNode}
  BY FederationAssumption
<1>4. QED
  BY <1>1, <1>2, <1>3 DEF Idle, HandlerSound, HandlerBehind, Published

\* Nodes start with new brokers and idle handlers.
LEMMA InitSound == Init => IInv
<1> SUFFICES ASSUME Init PROVE IInv
  OBVIOUS
<1>0. NewBroker \in Broker /\ NewBroker.sequence \in Nat /\ NewBroker.applied_sequence = 0
  BY NewBrokerSound, CounterBounds DEF SoundBroker, NewBroker
<1>1. /\ \A n \in Node : broker[n] = NewBroker /\ NodeBroker(n, broker[n])
      /\ NewBroker \in Broker /\ NewBroker.sequence \in Nat /\ NewBroker.applied_sequence = 0
  BY <1>0, NewNodeBroker DEF Init
<1>2. \A n \in Node, h \in Pull :
          /\ pull[n][h] = Idle /\ Idle \in PullState
          /\ HandlerSound(n, pull[n][h]) /\ HandlerBehind(n, pull[n][h])
  BY <1>1, IdleSound DEF Init, HandlerSound
<1>3. deployment \in Deployments /\ writes \in 0..deployment.writes
  BY FederationAssumption DEF Init
<1>4. broker \in [Node -> Broker] /\ notices \in [Node -> Nat]
      /\ pull \in [Node -> [Pull -> PullState]]
  BY <1>1, <1>2 DEF Init
<1>5. \A n \in Node : Published(n, broker[n].applied_sequence)
  <2>1. \A n \in Node : Publisher[n] \in Node \cup {NoNode}
    BY FederationAssumption
  <2>2. QED
    BY <1>1, <2>1 DEF Published
<1>6. QED
  BY <1>1, <1>2, <1>3, <1>4, <1>5 DEF IInv, TypeOK, Behind

\* What the invariant says of one node and of one of its handlers.
LEMMA NodeFacts ==
    ASSUME IInv, NEW n \in Node
    PROVE  /\ broker[n] \in Broker /\ SoundBroker(broker[n]) /\ NodeBroker(n, broker[n])
           /\ broker[n].sequence \in Nat /\ broker[n].applied_sequence \in Sequence
           /\ Published(n, broker[n].applied_sequence)
           /\ notices[n] \in Nat /\ notices \in [Node -> Nat]
           /\ writes \in 0..deployment.writes /\ deployment \in Deployments
           /\ \A h \in Pull : /\ HandlerSound(n, pull[n][h]) /\ HandlerBehind(n, pull[n][h])
                             /\ pull[n][h] \in PullState
                             /\ pull[n][h].at # "idle" => Publisher[n] \in Node \ {NoNode}
<1>1. broker[n] \in Broker /\ SoundBroker(broker[n]) /\ NodeBroker(n, broker[n])
  BY DEF IInv, NodeBroker, SoundBroker
<1>2. broker[n].sequence \in Nat /\ broker[n].applied_sequence \in Sequence
  BY <1>1, CounterBounds DEF Broker
<1>3. QED
  BY <1>1, <1>2, FederationAssumption DEF IInv, TypeOK, Behind, HandlerSound

\* The steps of clients, and the loss of a webhook (routes.rs:120-227).
LEMMA ClientActions ==
    ASSUME IInv, NEW n \in Node
    PROVE  /\ \A o \in Oid : \A i \in deployment.authored[n] : ClientPut(n, o, i) => IInv'
           /\ \A o \in Oid : ClientDelete(n, o) => IInv'
           /\ LoseNotice(n) => IInv'
<1> USE NodeFacts
<1>0. /\ deployment.authored[n] \subseteq ValidInstance /\ deployment.writes \in Nat
  BY FederationAssumption
<1>1. ASSUME NEW o \in Oid, NEW i \in deployment.authored[n], ClientPut(n, o, i) PROVE IInv'
  <2> DEFINE c == PutObject(broker[n], o, i)
  <2>1. i \in Instance /\ i \in Allowed(n)
    BY <1>0, BrokerAssumption DEF Allowed
  <2>2. NodeBroker(n, c) /\ c.sequence >= broker[n].sequence
        /\ c.applied_sequence = broker[n].applied_sequence
    BY <2>1, ClientKeeps DEF IInv
  <2>3. writes' \in 0..deployment.writes
    BY <1>0, <1>1 DEF ClientPut
  <2>4. notices' \in [Node -> Nat]
    BY <1>1 DEF ClientPut
  <2>5. broker' = [broker EXCEPT ![n] = c] /\ UNCHANGED <<deployment, pull>>
    BY <1>1 DEF ClientPut
  <2> HIDE DEF c
  <2>6. QED
    BY <2>2, <2>3, <2>4, <2>5, ClientStep
<1>2. ASSUME NEW o \in Oid, ClientDelete(n, o) PROVE IInv'
  <2> DEFINE c == DeleteObject(broker[n], o)
  <2>1. o \in Stored(broker[n])
    BY <1>2 DEF ClientDelete, Active
  <2>2. NodeBroker(n, c) /\ c.sequence >= broker[n].sequence
        /\ c.applied_sequence = broker[n].applied_sequence
    BY <2>1, ClientKeeps DEF IInv
  <2>3. writes' \in 0..deployment.writes /\ notices' \in [Node -> Nat]
    BY <1>0, <1>2 DEF ClientDelete
  <2>4. broker' = [broker EXCEPT ![n] = c] /\ UNCHANGED <<deployment, pull>>
    BY <1>2 DEF ClientDelete
  <2> HIDE DEF c
  <2>5. QED
    BY <2>2, <2>3, <2>4, ClientStep
<1>3. ASSUME LoseNotice(n) PROVE IInv'
  <2>1. notices' \in [Node -> Nat]
    BY <1>3 DEF LoseNotice
  <2>2. /\ TypeOK' /\ UNCHANGED <<deployment, broker, pull>>
    BY <1>3, <2>1 DEF LoseNotice, IInv, TypeOK
  <2>3. QED
    BY <2>2 DEF IInv, NodeBroker, Allowed, HandlerSound, Behind, Published, HandlerBehind
<1>4. QED
  BY <1>1, <1>2, <1>3

\* The steps of a notify handler (routes.rs:243-282, federation_client.rs:90-125).
LEMMA HandlerActions ==
    ASSUME IInv, NEW n \in Node, NEW h \in Pull
    PROVE  PullStep(n, h) \/ FailPull(n, h) => IInv'
<1> DEFINE p == pull[n][h]
<1>0. /\ NodeBroker(n, p.staging) /\ p \in PullState /\ HandlerBehind(n, p)
      /\ p.at # "idle" => Publisher[n] \in Node \ {NoNode}
      /\ notices \in [Node -> Nat] /\ pull \in [Node -> [Pull -> PullState]]
  <2>1. HandlerSound(n, p) /\ HandlerBehind(n, p)
    BY DEF IInv, Behind
  <2>2. notices \in [Node -> Nat] /\ pull \in [Node -> [Pull -> PullState]]
    BY DEF IInv, TypeOK
  <2>3. QED
    BY <2>1, <2>2, FederationAssumption DEF HandlerSound
<1>i. HandlerSound(n, Idle) /\ HandlerBehind(n, Idle)
  BY NodeFacts, IdleSound
<1>1. ASSUME StartPull(n, h) PROVE IInv'
  <2> DEFINE q == [Idle EXCEPT !.at = "clone", !.since = broker[n].applied_sequence]
  <2>1. /\ q.at = "clone" /\ q.staging = Idle.staging /\ q.entries = Idle.entries
        /\ q \in PullState
    BY <1>i, NodeFacts DEF HandlerSound, PullState
  <2>2. HandlerSound(n, q) /\ HandlerBehind(n, q)
    BY <1>i, <1>1, <2>1, FederationAssumption DEF HandlerSound, HandlerBehind, StartPull
  <2>3. /\ pull' = [pull EXCEPT ![n][h] = q] /\ notices' \in [Node -> Nat]
        /\ UNCHANGED <<deployment, broker, writes>>
    BY <1>0, <1>1 DEF StartPull
  <2> HIDE DEF q
  <2>4. QED
    BY <2>2, <2>3, HandlerStep
<1>2. ASSUME CloneBroker(n, h) PROVE IInv'
  <2> DEFINE q == [p EXCEPT !.at = "sync", !.staging = broker[n]]
  <2>1. /\ q.at = "sync" /\ q.staging = broker[n] /\ q.entries = p.entries /\ q \in PullState
    BY <1>0, NodeFacts DEF PullState
  <2>2. HandlerSound(n, q) /\ HandlerBehind(n, q)
    BY <1>0, <1>2, <2>1, NodeFacts DEF HandlerSound, HandlerBehind, CloneBroker
  <2>3. /\ pull' = [pull EXCEPT ![n][h] = q] /\ notices' \in [Node -> Nat]
        /\ UNCHANGED <<deployment, broker, writes>>
    BY <1>0, <1>2 DEF CloneBroker
  <2> HIDE DEF q
  <2>4. QED
    BY <2>2, <2>3, HandlerStep
<1>3. ASSUME FetchSync(n, h) PROVE IInv'
  <2> DEFINE answer == SyncSinceAs(Publisher[n], n, p.since)
             q == [p EXCEPT !.at = "fetch", !.entries = answer]
  <2>1. /\ Publisher[n] \in Node \ {NoNode} /\ answer \subseteq Entry
        /\ \A e \in answer : e.sequence <= broker[Publisher[n]].sequence
    BY <1>0, <1>3, SyncAnswers, NodeFacts DEF FetchSync
  <2>2. /\ q.at = "fetch" /\ q.staging = p.staging /\ q.entries = answer /\ q \in PullState
    BY <1>0, <2>1 DEF PullState
  <2>3. HandlerSound(n, q) /\ HandlerBehind(n, q)
    BY <1>0, <1>3, <2>1, <2>2 DEF HandlerSound, HandlerBehind, FetchSync, Published
  <2>4. /\ pull' = [pull EXCEPT ![n][h] = q] /\ notices' \in [Node -> Nat]
        /\ UNCHANGED <<deployment, broker, writes>>
    BY <1>0, <1>3 DEF FetchSync
  <2> HIDE DEF q
  <2>5. QED
    BY <2>3, <2>4, HandlerStep
<1>4. ASSUME NEW e \in p.entries, ReplicateEntry(n, h, e) PROVE IInv'
  <2> DEFINE src  == Publisher[n]
             done == [p EXCEPT !.entries = p.entries \ {e}]
             i    == broker[src].store[e.oid]
             q    == [done EXCEPT !.staging = ApplyEntry(p.staging, e, i)]
  <2>1. /\ src \in Node \ {NoNode} /\ e \in Entry /\ p.at = "fetch" /\ p.entries \subseteq Entry
        /\ Published(n, e.sequence) /\ notices' \in [Node -> Nat]
        /\ UNCHANGED <<deployment, broker, writes>>
    BY <1>0, <1>4 DEF ReplicateEntry, PullState, HandlerBehind
  <2>2. /\ done.at = "fetch" /\ done.staging = p.staging /\ done.entries \subseteq p.entries
        /\ done \in PullState
    BY <1>0, <2>1 DEF PullState
  <2>3. HandlerSound(n, done) /\ HandlerBehind(n, done)
    BY <1>0, <2>1, <2>2 DEF HandlerSound, HandlerBehind
  <2>4. ASSUME e.operation = "PutObject" => Served(src, n, e.oid)
        PROVE  HandlerSound(n, q) /\ HandlerBehind(n, q)
    <3>1. e.operation = "PutObject" => i \in Instance /\ i \in Readable[n]
      BY <2>1, <2>4, NodeFacts DEF Served, Active, Stored, Broker, Entry
    <3>2. /\ NodeBroker(n, ApplyEntry(p.staging, e, i))
          /\ ApplyEntry(p.staging, e, i) \in Broker
          /\ ApplyEntry(p.staging, e, i).applied_sequence = e.sequence
      BY <1>0, <2>1, <3>1, ApplyKeeps DEF NodeBroker, SoundBroker
    <3>3. /\ q.at = "fetch" /\ q.staging = ApplyEntry(p.staging, e, i)
          /\ q.entries = done.entries /\ q \in PullState
      BY <2>2, <3>2 DEF PullState
    <3>4. QED
      BY <2>1, <2>3, <3>2, <3>3 DEF HandlerSound, HandlerBehind
  <2>5. \/ pull' = [pull EXCEPT ![n][h] = done]
        \/ pull' = [pull EXCEPT ![n][h] = Idle]
        \/ /\ e.operation = "PutObject" => Served(src, n, e.oid)
           /\ pull' = [pull EXCEPT ![n][h] = q]
    BY <1>4 DEF ReplicateEntry
  <2> HIDE DEF q, done
  <2>6. QED
    BY <1>i, <2>1, <2>3, <2>4, <2>5, HandlerStep
<1>5. ASSUME FailPull(n, h) PROVE IInv'
  BY <1>0, <1>i, <1>5, HandlerStep DEF FailPull
<1>6. ASSUME CommitPull(n, h) PROVE IInv'
  <2>1. /\ Publisher[n] \in Node /\ Publisher[n] # NoNode
        /\ p.staging \in Broker /\ Published(n, p.staging.applied_sequence)
        /\ broker' = [broker EXCEPT ![n] = p.staging]
        /\ pull' = [pull EXCEPT ![n][h] = Idle] /\ UNCHANGED <<deployment, notices, writes>>
    BY <1>0, <1>6, FederationAssumption DEF CommitPull, NodeBroker, SoundBroker, HandlerBehind
  <2>2. /\ broker' \in [Node -> Broker] /\ notices' \in [Node -> Nat]
        /\ writes' \in 0..deployment.writes
        /\ \A m \in Node : broker'[m] = IF m = n THEN p.staging ELSE broker[m]
    BY <2>1 DEF IInv, TypeOK
  <2>3. /\ pull' \in [Node -> [Pull -> PullState]]
        /\ \A m \in Node, g \in Pull : pull'[m][g] = IF m = n /\ g = h THEN Idle ELSE pull[m][g]
    BY <1>0, <1>i, <2>1 DEF HandlerSound
  <2>4. \A m \in Node : /\ NodeBroker(m, broker'[m])
                        /\ Published(m, broker'[m].applied_sequence)
                        /\ Publisher[m] = NoNode => broker'[m].sequence >= broker[m].sequence
    BY <1>0, <2>1, <2>2, NodeFacts DEF IInv
  <2>5. \A m \in Node, g \in Pull : HandlerSound(m, pull'[m][g]) /\ HandlerBehind(m, pull'[m][g])
    BY <1>i, <2>3 DEF IInv, Behind
  <2>6. QED
    BY <2>1, <2>2, <2>3, <2>4, <2>5, StepKeeps
<1>7. QED
  BY <1>1, <1>2, <1>3, <1>4, <1>5, <1>6 DEF PullStep

\* Whatever the step, the invariant holds after it (routes.rs:120-282).
LEMMA NextSound == IInv /\ [Next]_vars => IInv'
<1> SUFFICES ASSUME IInv, [Next]_vars PROVE IInv'
  OBVIOUS
<1>1. CASE UNCHANGED vars
  BY <1>1 DEF vars, IInv, TypeOK, NodeBroker, Allowed, HandlerSound, Behind, Published,
              HandlerBehind
<1>2. CASE Next
  <2>1. deployment.deleters \subseteq Node
    BY FederationAssumption DEF IInv, TypeOK
  <2>2. QED
    BY <1>2, <2>1, ClientActions, HandlerActions DEF Next
<1>3. QED
  BY <1>1, <1>2

-----------------------------------------------------------------------------
(* The theorems.                                                            *)

\* The inductive invariant holds of every behaviour of the federation
\* (routes.rs:120-282).
THEOREM AlwaysSound == Spec => []IInv
BY InitSound, NextSound, PTL DEF Spec

\* Nodes, notices and handlers stay well typed (routes.rs:38, 262-282).
THEOREM TypeCorrect == Spec => []TypeOK
<1>1. IInv => TypeOK
  BY DEF IInv
<1>2. QED
  BY <1>1, AlwaysSound, PTL

\* Whatever overlaps, fails or is relabelled, a node holds nothing but what its own
\* clients wrote and what its publisher's PEP lets it read (routes.rs:227,
\* federation_client.rs:107, secured.rs:206).
THEOREM ReplicasReadable == Spec => []ReplicasAreReadable
<1>1. IInv => ReplicasAreReadable
  BY DEF IInv, NodeBroker, Allowed, ReplicasAreReadable
<1>2. QED
  BY <1>1, AlwaysSound, PTL

\* With any number of handlers at a time a consumer's cursor stays within the
\* journal of a publisher that does not pull (federation_client.rs:103, routes.rs:273).
THEOREM CursorsStayBehind == Spec => []CursorNeverAhead
<1>1. IInv => CursorNeverAhead
  BY DEF IInv, Behind, Published, CursorNeverAhead
<1>2. QED
  BY <1>1, AlwaysSound, PTL
-----------------------------------------------------------------------------
(* The order in which a serial deployment applies the journal.  Behind     *)
(* bounds the cursor; what the cursor covers depends on what a handler has *)
(* still to apply, and on its clone being a later state of its own broker. *)

\* What a handler has fetched and not applied, at publisher q: entries of its
\* journal, and, between the clone's cursor and any of them, nothing left out
\* that n could read now.
Fetched(n, p, q) ==
    /\ \A e \in p.entries :
          e.sequence \in DOMAIN q.journal /\ e = q.journal[e.sequence]
    /\ \A e \in p.entries, k \in DOMAIN q.journal :
          /\ p.staging.applied_sequence < k /\ k < e.sequence
          /\ IsLast(q, k) /\ q.journal[k] \notin p.entries
          => View(q)[q.journal[k].oid] \notin Readable[n] \cup {NoInstance}

\* A replica b of publisher q journals no more than it has applied.
Replica(n, b, q) ==
    /\ Len(b.journal) <= b.applied_sequence
    /\ Follows(b, q, Readable[n])

\* A handler p of a consumer whose broker is b: the only one, its cursor read
\* from b, its clone b or a later state of it.
PullInOrder(n, h, p, b, q) ==
    p.at # "idle" =>
        /\ h \in deployment.handlers
        /\ p.since = b.applied_sequence
        /\ p.at = "sync" => p.staging = b
        /\ p.at = "fetch" =>
              /\ Announces(b, p.staging)
              /\ b.applied_sequence <= p.staging.applied_sequence
              /\ Replica(n, p.staging, q)
              /\ Fetched(n, p, q)

SerialInv ==
    Serial =>
        /\ \A n \in Node : Len(broker[n].journal) <= writes
        /\ \A n \in Node : Publisher[n] # NoNode =>
              /\ Replica(n, broker[n], broker[Publisher[n]])
              /\ \A h \in Pull :
                    PullInOrder(n, h, pull[n][h], broker[n], broker[Publisher[n]])

\* What a step of a serial deployment does to the brokers.
Advance ==
    \A n \in Node : /\ Announces(broker[n], broker'[n])
                    /\ broker[n].applied_sequence <= broker'[n].applied_sequence

\* What was fetched stays as it was while the publisher moves on
\* (federation_client.rs:96-107).
LEMMA FetchedOn ==
    ASSUME NEW n \in Node, NEW p \in PullState, NEW q \in Broker, NEW r \in Broker,
           Fetched(n, p, q), Announces(q, r)
    PROVE  Fetched(n, p, r)
<1>1. /\ Len(q.journal) \in Nat /\ DOMAIN q.journal = 1..Len(q.journal)
      /\ Len(r.journal) \in Nat /\ DOMAIN r.journal = 1..Len(r.journal)
      /\ Len(q.journal) <= Len(r.journal)
      /\ \A k \in DOMAIN q.journal : r.journal[k] = q.journal[k]
  BY DEF Broker, Announces
<1>2. \A e \in p.entries : e.sequence \in DOMAIN q.journal /\ e = q.journal[e.sequence]
  BY DEF Fetched
<1>3. ASSUME NEW e \in p.entries, NEW k \in DOMAIN r.journal,
             p.staging.applied_sequence < k, k < e.sequence,
             IsLast(r, k), r.journal[k] \notin p.entries
      PROVE  View(r)[r.journal[k].oid] \notin Readable[n] \cup {NoInstance}
  <2>1. k \in DOMAIN q.journal
    BY <1>1, <1>2, <1>3
  <2>2. /\ IsLast(q, k) /\ r.journal[k] = q.journal[k]
        /\ View(r)[q.journal[k].oid] = View(q)[q.journal[k].oid]
    BY <1>3, <2>1, StillLast
  <2>3. View(q)[q.journal[k].oid] \notin Readable[n] \cup {NoInstance}
    BY <1>3, <2>1, <2>2 DEF Fetched
  <2>4. QED
    BY <2>2, <2>3
<1>4. \A e \in p.entries : e.sequence \in DOMAIN r.journal /\ e = r.journal[e.sequence]
  BY <1>1, <1>2
<1>5. QED
  BY <1>3, <1>4 DEF Fetched

\* The brokers of a state the invariant allows, and how long a journal may be in
\* a serial deployment.
LEMMA SerialFacts ==
    ASSUME IInv, Serial, SerialInv, NEW n \in Node
    PROVE  /\ broker[n] \in Broker /\ SoundBroker(broker[n])
           /\ Len(broker[n].journal) \in Nat /\ broker[n].applied_sequence \in Nat
           /\ Len(broker[n].journal) <= writes /\ writes \in Nat
           /\ Len(broker[n].journal) <= MaxSequence
           /\ broker[n].sequence = Len(broker[n].journal)
           /\ writes <= deployment.writes
           /\ Publisher[n] # NoNode =>
                 /\ Publisher[n] \in Node
                 /\ Replica(n, broker[n], broker[Publisher[n]])
                 /\ \A h \in Pull :
                      PullInOrder(n, h, pull[n][h], broker[n], broker[Publisher[n]])
<1>1. /\ broker[n] \in Broker /\ SoundBroker(broker[n]) /\ writes \in 0..deployment.writes
      /\ deployment \in Deployments
  BY NodeFacts
<1>2. Len(broker[n].journal) \in Nat /\ broker[n].applied_sequence \in Nat
  BY <1>1, BrokerAssumption DEF Broker, Sequence
<1>3. deployment.writes \in Nat /\ deployment.writes <= MaxSequence
  BY <1>1, FederationAssumption, UnsaturatedAssumption
<1>4. Len(broker[n].journal) <= writes
  BY DEF SerialInv
<1>5. Len(broker[n].journal) <= MaxSequence
  BY <1>1, <1>2, <1>3, <1>4, BrokerAssumption
<1>6. QED
  BY <1>1, <1>2, <1>3, <1>4, <1>5, PositionIsNumber, FederationAssumption DEF SerialInv

\* It is enough to look at the brokers and handlers a step makes against the
\* publishers as they were before it.
LEMMA SerialStep ==
    ASSUME IInv, IInv', Serial, SerialInv, UNCHANGED deployment, Advance,
           \A m \in Node : Len(broker'[m].journal) <= writes',
           \A m \in Node : Publisher[m] # NoNode =>
              /\ Replica(m, broker'[m], broker[Publisher[m]])
              /\ \A h \in Pull :
                    PullInOrder(m, h, pull'[m][h], broker'[m], broker[Publisher[m]])
    PROVE  SerialInv'
<1>1. \A m \in Node : broker[m] \in Broker /\ broker'[m] \in Broker
  BY DEF IInv, TypeOK
<1>2. \A m \in Node, h \in Pull : pull'[m][h] \in PullState
  BY DEF IInv, TypeOK
<1>3. ASSUME NEW m \in Node, Publisher[m] # NoNode
      PROVE  /\ Replica(m, broker'[m], broker'[Publisher[m]])
             /\ \A h \in Pull :
                   PullInOrder(m, h, pull'[m][h], broker'[m], broker'[Publisher[m]])
  <2> DEFINE q == broker[Publisher[m]]
             r == broker'[Publisher[m]]
  <2>1. q \in Broker /\ r \in Broker /\ Announces(q, r)
    BY <1>1, <1>3, FederationAssumption DEF Advance
  <2>2. Replica(m, broker'[m], r)
    BY <1>1, <1>3, <2>1, FollowsOn DEF Replica
  <2>3. ASSUME NEW h \in Pull, NEW p, p = pull'[m][h]
        PROVE  PullInOrder(m, h, p, broker'[m], r)
    <3>1. p \in PullState /\ p.staging \in Broker /\ PullInOrder(m, h, p, broker'[m], q)
      BY <1>2, <1>3, <2>3 DEF PullState
    <3>2. p.at = "fetch" => Replica(m, p.staging, r) /\ Fetched(m, p, r)
      BY <2>1, <3>1, FollowsOn, FetchedOn DEF PullInOrder, Replica
    <3>3. QED
      BY <3>1, <3>2 DEF PullInOrder
  <2>4. QED
    BY <2>2, <2>3
<1>4. \A m \in Node, h \in Pull :
         PullInOrder(m, h, pull[m][h], broker[m], broker[Publisher[m]])' <=>
            PullInOrder(m, h, pull'[m][h], broker'[m], broker'[Publisher[m]])
  BY DEF PullInOrder
<1>5. QED
  BY <1>3, <1>4 DEF SerialInv

\* A step of one handler that leaves the brokers alone.
LEMMA SerialHandlerStep ==
    ASSUME IInv, IInv', Serial, SerialInv, UNCHANGED <<deployment, broker, writes>>,
           NEW n \in Node, NEW h \in Pull, NEW q,
           pull' = [pull EXCEPT ![n][h] = q],
           Publisher[n] # NoNode => PullInOrder(n, h, q, broker[n], broker[Publisher[n]])
    PROVE  SerialInv' /\ Advance
<1>1. pull \in [Node -> [Pull -> PullState]]
  BY DEF IInv, TypeOK
<1>2. \A m \in Node, g \in Pull : pull'[m][g] = IF m = n /\ g = h THEN q ELSE pull[m][g]
  BY <1>1
<1>3. Advance
  BY SerialFacts, NothingAnnounces DEF Advance
<1>4. \A m \in Node : Len(broker'[m].journal) <= writes'
  BY SerialFacts
<1>5. \A m \in Node : Publisher[m] # NoNode =>
         /\ Replica(m, broker'[m], broker[Publisher[m]])
         /\ \A g \in Pull :
               PullInOrder(m, g, pull'[m][g], broker'[m], broker[Publisher[m]])
  BY <1>2, SerialFacts
<1>6. QED
  BY <1>3, <1>4, <1>5, SerialStep

\* A step of a client, which in a serial deployment is one of a node that does
\* not pull (routes.rs:120-227).
LEMMA SerialClientStep ==
    ASSUME IInv, IInv', Serial, SerialInv, UNCHANGED <<deployment, pull>>,
           NEW n \in Node, Publisher[n] = NoNode, NEW c \in Broker,
           broker' = [broker EXCEPT ![n] = c], writes' = writes + 1,
           Announces(broker[n], c), Len(c.journal) <= Len(broker[n].journal) + 1,
           c.applied_sequence = broker[n].applied_sequence
    PROVE  SerialInv' /\ Advance
<1>1. \A m \in Node : broker'[m] = IF m = n THEN c ELSE broker[m]
  BY DEF IInv, TypeOK
<1>2. Advance
  BY <1>1, SerialFacts, NothingAnnounces DEF Advance
<1>3. \A m \in Node : Len(broker'[m].journal) <= writes'
  <2>1. Len(c.journal) \in Nat
    BY DEF Broker
  <2>2. QED
    BY <1>1, <2>1, SerialFacts
<1>4. \A m \in Node : Publisher[m] # NoNode =>
         /\ Replica(m, broker'[m], broker[Publisher[m]])
         /\ \A g \in Pull :
               PullInOrder(m, g, pull'[m][g], broker'[m], broker[Publisher[m]])
  BY <1>1, SerialFacts
<1>5. QED
  BY <1>2, <1>3, <1>4, SerialStep

\* The steps of clients, and the loss of a webhook (routes.rs:120-227).
LEMMA SerialClients ==
    ASSUME IInv, IInv', Serial, SerialInv, NEW n \in Node
    PROVE  /\ \A o \in Oid : \A i \in deployment.authored[n] :
                 ClientPut(n, o, i) => SerialInv' /\ Advance
           /\ \A o \in Oid : n \in deployment.deleters /\ ClientDelete(n, o) =>
                 SerialInv' /\ Advance
           /\ LoseNotice(n) => SerialInv' /\ Advance
<1>0. /\ broker[n] \in Broker /\ Len(broker[n].journal) \in Nat
      /\ deployment.authored[n] \subseteq Instance
  BY SerialFacts, NodeFacts, FederationAssumption, BrokerAssumption
<1>1. ASSUME NEW o \in Oid, NEW i \in deployment.authored[n], ClientPut(n, o, i)
      PROVE  SerialInv' /\ Advance
  <2> DEFINE c == PutObject(broker[n], o, i)
  <2>1. Publisher[n] = NoNode
    BY <1>1 DEF Serial
  <2>2. /\ c \in Broker /\ Announces(broker[n], c)
        /\ c.applied_sequence = broker[n].applied_sequence
        /\ Len(c.journal) <= Len(broker[n].journal) + 1
    BY <1>0, ClientAnnounces
  <2>3. /\ broker' = [broker EXCEPT ![n] = c] /\ writes' = writes + 1
        /\ UNCHANGED <<deployment, pull>>
    BY <1>1 DEF ClientPut
  <2> HIDE DEF c
  <2>4. QED
    BY <2>1, <2>2, <2>3, SerialClientStep
<1>2. ASSUME NEW o \in Oid, n \in deployment.deleters, ClientDelete(n, o)
      PROVE  SerialInv' /\ Advance
  <2> DEFINE c == DeleteObject(broker[n], o)
  <2>1. Publisher[n] = NoNode
    BY <1>2 DEF Serial
  <2>2. /\ c \in Broker /\ Announces(broker[n], c)
        /\ c.applied_sequence = broker[n].applied_sequence
        /\ Len(c.journal) <= Len(broker[n].journal) + 1
    BY <1>0, ClientAnnounces
  <2>3. /\ broker' = [broker EXCEPT ![n] = c] /\ writes' = writes + 1
        /\ UNCHANGED <<deployment, pull>>
    BY <1>2 DEF ClientDelete
  <2> HIDE DEF c
  <2>4. QED
    BY <2>1, <2>2, <2>3, SerialClientStep
<1>3. ASSUME LoseNotice(n) PROVE SerialInv' /\ Advance
  <2>1. UNCHANGED <<deployment, broker, pull, writes>>
    BY <1>3 DEF LoseNotice
  <2>2. Advance
    BY <2>1, SerialFacts, NothingAnnounces DEF Advance
  <2>3. \A m \in Node : Len(broker'[m].journal) <= writes'
    BY <2>1, SerialFacts
  <2>4. QED
    BY <2>1, <2>2, <2>3, SerialFacts, SerialStep
<1>4. QED
  BY <1>1, <1>2, <1>3

\* The steps of a notify handler that leave its node's broker alone
\* (routes.rs:243-270, federation_client.rs:90-125).
LEMMA SerialPull ==
    ASSUME IInv, IInv', Serial, SerialInv, NEW n \in Node, NEW h \in Pull
    PROVE  /\ StartPull(n, h) => SerialInv' /\ Advance
           /\ CloneBroker(n, h) => SerialInv' /\ Advance
           /\ FetchSync(n, h) => SerialInv' /\ Advance
           /\ FailPull(n, h) => SerialInv' /\ Advance
<1> DEFINE p == pull[n][h]
           b == broker[n]
           src == Publisher[n]
           q == broker[src]
<1>0. /\ p \in PullState /\ b \in Broker
      /\ p.at # "idle" => /\ src \in Node \ {NoNode}
                          /\ q \in Broker /\ SoundBroker(q) /\ Replica(n, b, q)
                          /\ PullInOrder(n, h, p, b, q)
  <2>1. /\ p \in PullState /\ b \in Broker
        /\ p.at # "idle" => src \in Node \ {NoNode}
    <3>1. HandlerSound(n, p)
      BY DEF IInv
    <3>2. QED
      BY <3>1, SerialFacts, FederationAssumption DEF HandlerSound
  <2>2. src \in Node \ {NoNode} => Replica(n, b, q) /\ PullInOrder(n, h, p, b, q)
    BY SerialFacts
  <2>3. src \in Node => q \in Broker /\ SoundBroker(q)
    BY NodeFacts
  <2>4. QED
    BY <2>1, <2>2, <2>3
<1>i. PullInOrder(n, h, Idle, b, q)
  BY DEF PullInOrder, Idle
<1>1. ASSUME StartPull(n, h) PROVE SerialInv' /\ Advance
  <2> DEFINE r == [Idle EXCEPT !.at = "clone", !.since = b.applied_sequence]
  <2>1. r.at = "clone" /\ r.since = b.applied_sequence
    BY DEF Idle
  <2>2. PullInOrder(n, h, r, b, q)
    BY <1>1, <2>1 DEF PullInOrder, StartPull
  <2>3. pull' = [pull EXCEPT ![n][h] = r] /\ UNCHANGED <<deployment, broker, writes>>
    BY <1>1 DEF StartPull
  <2> HIDE DEF r
  <2>4. QED
    BY <2>2, <2>3, SerialHandlerStep
<1>2. ASSUME CloneBroker(n, h) PROVE SerialInv' /\ Advance
  <2> DEFINE r == [p EXCEPT !.at = "sync", !.staging = b]
  <2>1. r.at = "sync" /\ r.staging = b /\ r.since = p.since
    BY <1>0 DEF PullState
  <2>2. PullInOrder(n, h, r, b, q)
    BY <1>0, <1>2, <2>1 DEF PullInOrder, CloneBroker
  <2>3. pull' = [pull EXCEPT ![n][h] = r] /\ UNCHANGED <<deployment, broker, writes>>
    BY <1>2 DEF CloneBroker
  <2> HIDE DEF r
  <2>4. QED
    BY <2>2, <2>3, SerialHandlerStep
<1>3. ASSUME FetchSync(n, h) PROVE SerialInv' /\ Advance
  <2> DEFINE answer == SyncSinceAs(src, n, p.since)
             r == [p EXCEPT !.at = "fetch", !.entries = answer]
  <2>1. /\ r.at = "fetch" /\ r.staging = p.staging /\ r.since = p.since /\ r.entries = answer
    BY <1>0 DEF PullState
  <2>2. /\ p.staging = b /\ p.since = b.applied_sequence /\ h \in deployment.handlers
        /\ Replica(n, b, q) /\ SoundBroker(q) /\ src \in Node
    BY <1>0, <1>3 DEF PullInOrder, FetchSync
  <2>3. /\ DOMAIN q.journal = 1..Len(q.journal)
        /\ \A k \in DOMAIN q.journal : q.journal[k].sequence = k
    BY <2>2, SerialFacts, PositionIsNumber
  <2>4. answer = {e \in SyncSince(q, p.since) :
                     \/ e.operation = "DeleteObject"
                     \/ e.oid \in Active(q) /\ q.store[e.oid] \in Readable[n]}
    BY DEF SyncSinceAs, Served
  <2>5. \A e \in answer : e.sequence \in DOMAIN q.journal /\ e = q.journal[e.sequence]
    BY <2>3, <2>4 DEF SyncSince
  <2>6. ASSUME NEW k \in DOMAIN q.journal, b.applied_sequence < k, IsLast(q, k),
               q.journal[k] \notin answer
        PROVE  View(q)[q.journal[k].oid] \notin Readable[n] \cup {NoInstance}
    <3>1. b.applied_sequence \in Nat /\ k \in Nat /\ q.journal[k].sequence > p.since
      BY <2>2, <2>3, <2>6, SerialFacts
    <3>2. QED
      BY <2>2, <2>4, <2>6, <3>1, WithheldUnseen
  <2>7. Fetched(n, r, q)
    BY <2>1, <2>2, <2>5, <2>6 DEF Fetched
  <2>8. PullInOrder(n, h, r, b, q)
    <3>1. Announces(b, b) /\ b.applied_sequence <= b.applied_sequence
      BY <1>0, NothingAnnounces, SerialFacts
    <3> HIDE DEF r
    <3>2. QED
      BY <2>1, <2>2, <2>7, <3>1 DEF PullInOrder
  <2>9. pull' = [pull EXCEPT ![n][h] = r] /\ UNCHANGED <<deployment, broker, writes>>
    BY <1>3 DEF FetchSync
  <2> HIDE DEF r
  <2>10. QED
    BY <2>8, <2>9, SerialHandlerStep
<1>4. ASSUME FailPull(n, h) PROVE SerialInv' /\ Advance
  <2>1. pull' = [pull EXCEPT ![n][h] = Idle] /\ UNCHANGED <<deployment, broker, writes>>
    BY <1>4 DEF FailPull
  <2>2. QED
    BY <1>i, <2>1, SerialHandlerStep
<1>5. QED
  BY <1>1, <1>2, <1>3, <1>4

\* One turn of the handler's loop: entries are applied in their order, and an
\* entry that is dropped is one the clone has counted (federation_client.rs:98-125).
LEMMA SerialReplicate ==
    ASSUME IInv, IInv', Serial, SerialInv, NEW n \in Node, NEW h \in Pull,
           NEW e \in pull[n][h].entries, ReplicateEntry(n, h, e)
    PROVE  SerialInv' /\ Advance
<1> DEFINE p == pull[n][h]
           s == p.staging
           b == broker[n]
           src == Publisher[n]
           q == broker[src]
           done == [p EXCEPT !.entries = p.entries \ {e}]
           c == ApplyEntry(s, e, q.store[e.oid])
           r == [done EXCEPT !.staging = c]
<1>0. /\ p \in PullState /\ s \in Broker /\ SoundBroker(s) /\ b \in Broker
      /\ p.at = "fetch" /\ src \in Node /\ src # NoNode
  <2>1. HandlerSound(n, p)
    BY DEF IInv
  <2>2. QED
    BY <2>1, SerialFacts, FederationAssumption DEF HandlerSound, ReplicateEntry, NodeBroker,
                                                  SoundBroker
<1>1. /\ q \in Broker /\ SoundBroker(q) /\ Len(q.journal) <= MaxSequence
      /\ PullInOrder(n, h, p, b, q)
  BY <1>0, SerialFacts
<1>2. /\ h \in deployment.handlers /\ p.since = b.applied_sequence /\ Announces(b, s)
      /\ b.applied_sequence <= s.applied_sequence
      /\ Replica(n, s, q) /\ Fetched(n, p, q)
  BY <1>0, <1>1 DEF PullInOrder
<1>3. /\ b.applied_sequence \in Nat /\ s.applied_sequence \in Nat
      /\ Len(s.journal) \in Nat
      /\ DOMAIN q.journal = 1..Len(q.journal) /\ Len(q.journal) \in Nat
      /\ \A k \in DOMAIN q.journal : q.journal[k].sequence = k
      /\ e.sequence \in DOMAIN q.journal /\ e = q.journal[e.sequence]
  <2>1. e.sequence \in DOMAIN q.journal /\ e = q.journal[e.sequence]
    BY <1>2 DEF Fetched
  <2> HIDE DEF p, s, b, q
  <2>2. /\ b.applied_sequence \in Nat /\ s.applied_sequence \in Nat
        /\ Len(s.journal) \in Nat
    BY <1>0, BrokerAssumption DEF Broker, Sequence
  <2>3. /\ DOMAIN q.journal = 1..Len(q.journal) /\ Len(q.journal) \in Nat
        /\ \A k \in DOMAIN q.journal : q.journal[k].sequence = k
    BY <1>1, PositionIsNumber
  <2>4. QED
    BY <2>1, <2>2, <2>3
<1>4. UNCHANGED <<deployment, broker, writes>>
  BY DEF ReplicateEntry
<1>5. ASSUME s.applied_sequence >= e.sequence, pull' = [pull EXCEPT ![n][h] = done]
      PROVE  SerialInv' /\ Advance
  <2>1. /\ done.at = "fetch" /\ done.staging = s /\ done.since = p.since
        /\ done.entries = p.entries \ {e}
    BY <1>0 DEF PullState
  <2> HIDE DEF done
  <2>2. Fetched(n, done, q)
    <3>1. ASSUME NEW f \in done.entries, NEW k \in DOMAIN q.journal,
                 s.applied_sequence < k, k < f.sequence, IsLast(q, k),
                 q.journal[k] \notin done.entries
          PROVE  View(q)[q.journal[k].oid] \notin Readable[n] \cup {NoInstance}
      <4>1. q.journal[k] # e
        BY <1>3, <1>5, <3>1
      <4>2. QED
        BY <1>2, <2>1, <3>1, <4>1 DEF Fetched
    <3>2. \A f \in done.entries : f.sequence \in DOMAIN q.journal /\ f = q.journal[f.sequence]
      BY <1>2, <2>1 DEF Fetched
    <3>3. QED
      BY <2>1, <3>1, <3>2 DEF Fetched
  <2>3. PullInOrder(n, h, done, b, q)
    BY <1>2, <2>1, <2>2 DEF PullInOrder
  <2>4. QED
    BY <1>4, <1>5, <2>3, SerialHandlerStep
<1>6. ASSUME s.applied_sequence < e.sequence, pull' = [pull EXCEPT ![n][h] = r]
      PROVE  SerialInv' /\ Advance
  <2>1. ASSUME NEW j \in DOMAIN q.journal, s.applied_sequence < j, j < e.sequence, IsLast(q, j)
        PROVE  View(q)[q.journal[j].oid] \notin Readable[n] \cup {NoInstance}
    <3>1. q.journal[j] \notin p.entries
      <4>1. \A f \in p.entries : e.sequence <= f.sequence
        BY DEF ReplicateEntry, IsNext
      <4>2. QED
        BY <1>3, <2>1, <4>1
    <3>2. QED
      BY <1>2, <2>1, <3>1 DEF Fetched
  <2>2. /\ c \in Broker /\ c.applied_sequence = e.sequence
        /\ Announces(s, c) /\ Len(c.journal) <= Len(s.journal) + 1
        /\ Follows(c, q, Readable[n])
    <3>1. Follows(s, q, Readable[n])
      BY <1>2 DEF Replica
    <3>2. ASSUME NEW k, k = e.sequence
          PROVE  LET d == ApplyEntry(s, q.journal[k], q.store[q.journal[k].oid])
                 IN  /\ d \in Broker /\ d.applied_sequence = k
                     /\ Announces(s, d) /\ Len(d.journal) <= Len(s.journal) + 1
                     /\ Follows(d, q, Readable[n])
      <4>1. k \in DOMAIN q.journal /\ s.applied_sequence < k
        BY <1>3, <1>6, <3>2
      <4>2. \A j \in DOMAIN q.journal : s.applied_sequence < j /\ j < k /\ IsLast(q, j) =>
                View(q)[q.journal[j].oid] \notin Readable[n] \cup {NoInstance}
        BY <2>1, <3>2
      <4> HIDE DEF s, q
      <4>3. QED
        BY <1>0, <1>1, <3>1, <4>1, <4>2, ApplyFollows
    <3>3. QED
      BY <1>3, <3>2
  <2> HIDE DEF c
  <2>3. Announces(b, c)
    BY <1>0, <1>2, <2>2, AnnouncesChain
  <2>4. Replica(n, c, q)
    <3>1. Len(c.journal) \in Nat
      BY <2>2 DEF Broker
    <3>2. QED
      BY <1>2, <1>3, <1>6, <2>2, <3>1, SMTT(30) DEF Replica
  <2>5. /\ r.at = "fetch" /\ r.staging = c /\ r.since = p.since
        /\ r.entries = p.entries \ {e}
    BY <1>0 DEF PullState
  <2> HIDE DEF r, done
  <2>6. Fetched(n, r, q)
    <3>1. ASSUME NEW f \in r.entries, NEW k \in DOMAIN q.journal,
                 e.sequence < k, k < f.sequence, IsLast(q, k), q.journal[k] \notin r.entries
          PROVE  View(q)[q.journal[k].oid] \notin Readable[n] \cup {NoInstance}
      <4>1. q.journal[k] # e /\ s.applied_sequence < k
        BY <1>3, <1>6, <3>1
      <4>2. QED
        BY <1>2, <2>5, <3>1, <4>1 DEF Fetched
    <3>2. \A f \in r.entries : f.sequence \in DOMAIN q.journal /\ f = q.journal[f.sequence]
      BY <1>2, <2>5 DEF Fetched
    <3>3. QED
      BY <2>2, <2>5, <3>1, <3>2 DEF Fetched
  <2>7. b.applied_sequence <= c.applied_sequence
    BY <1>2, <1>3, <1>6, <2>2
  <2>8. PullInOrder(n, h, r, b, q)
    BY <1>2, <2>3, <2>4, <2>5, <2>6, <2>7 DEF PullInOrder
  <2>9. QED
    BY <1>4, <1>6, <2>8, SerialHandlerStep
<1>7. ASSUME pull' = [pull EXCEPT ![n][h] = Idle]
      PROVE  SerialInv' /\ Advance
  <2>1. PullInOrder(n, h, Idle, b, q)
    BY DEF PullInOrder, Idle
  <2>2. QED
    BY <1>4, <1>7, <2>1, SerialHandlerStep
<1>8. \/ s.applied_sequence >= e.sequence /\ pull' = [pull EXCEPT ![n][h] = done]
      \/ pull' = [pull EXCEPT ![n][h] = Idle]
      \/ s.applied_sequence < e.sequence /\ pull' = [pull EXCEPT ![n][h] = r]
  <2>1. (~(s.applied_sequence < e.sequence)) => s.applied_sequence >= e.sequence
    BY <1>3
  <2> HIDE DEF r, done
  <2>2. QED
    BY <2>1 DEF ReplicateEntry, r, done
<1>9. QED
  BY <1>5, <1>6, <1>7, <1>8

\* The clone that is written back is a later state of the broker it replaces
\* (routes.rs:273).
LEMMA SerialCommit ==
    ASSUME IInv, IInv', Serial, SerialInv, NEW n \in Node, NEW h \in Pull, CommitPull(n, h)
    PROVE  SerialInv' /\ Advance
<1> DEFINE p == pull[n][h]
           s == p.staging
           b == broker[n]
           src == Publisher[n]
           q == broker[src]
<1>1. /\ p.at = "fetch" /\ broker' = [broker EXCEPT ![n] = s]
      /\ pull' = [pull EXCEPT ![n][h] = Idle] /\ UNCHANGED <<deployment, writes>>
  BY DEF CommitPull
<1>2. s \in Broker /\ src \in Node /\ src # NoNode
  <2>1. HandlerSound(n, p)
    BY DEF IInv
  <2>2. QED
    BY <1>1, <2>1, FederationAssumption DEF HandlerSound, NodeBroker, SoundBroker
<1>3. /\ h \in deployment.handlers /\ Announces(b, s)
      /\ b.applied_sequence <= s.applied_sequence /\ Replica(n, s, q)
  BY <1>1, <1>2, SerialFacts DEF PullInOrder
<1>4. /\ \A m \in Node : broker'[m] = IF m = n THEN s ELSE broker[m]
      /\ \A m \in Node, g \in Pull : pull'[m][g] = IF m = n /\ g = h THEN Idle ELSE pull[m][g]
  BY <1>1 DEF IInv, TypeOK
<1>5. Advance
  BY <1>3, <1>4, SerialFacts, NothingAnnounces DEF Advance
<1>6. \A m \in Node : Len(broker'[m].journal) <= writes'
  <2>1. Len(s.journal) \in Nat /\ s.applied_sequence \in Nat
    BY <1>2, BrokerAssumption DEF Broker, Sequence
  <2>2. Len(q.journal) \in Nat /\ writes \in Nat /\ Len(q.journal) <= writes
    BY <1>2, SerialFacts
  <2>3. Len(s.journal) <= writes
    BY <1>3, <2>1, <2>2 DEF Replica, Follows
  <2>4. QED
    BY <1>1, <1>4, <2>3, SerialFacts
<1>7. ASSUME NEW g \in Pull, NEW c PROVE PullInOrder(n, g, pull'[n][g], c, q)
  <2>1. pull'[n][g].at = "idle"
    <3>1. CASE g = h
      BY <1>4, <3>1 DEF Idle
    <3>2. CASE g # h
      <4>1. g \notin deployment.handlers
        BY <1>3, <3>2 DEF Serial
      <4>2. QED
        BY <1>2, <1>4, <3>2, <4>1, SerialFacts DEF PullInOrder
    <3>3. QED
      BY <3>1, <3>2
  <2>2. QED
    BY <2>1 DEF PullInOrder
<1>8. \A m \in Node : Publisher[m] # NoNode =>
         /\ Replica(m, broker'[m], broker[Publisher[m]])
         /\ \A g \in Pull :
               PullInOrder(m, g, pull'[m][g], broker'[m], broker[Publisher[m]])
  BY <1>3, <1>4, <1>7, SerialFacts, ZenonT(30)
<1>9. QED
  BY <1>1, <1>5, <1>6, <1>8, SerialStep

\* The deployment holds throughout.
LEMMA DeploymentKept == [Next]_vars => deployment' = deployment
<1> SUFFICES ASSUME Next PROVE deployment' = deployment
  BY DEF vars
<1>1. ASSUME NEW n \in Node, NEW h \in Pull, PullStep(n, h) \/ FailPull(n, h)
      PROVE  deployment' = deployment
  BY <1>1 DEF PullStep, StartPull, CloneBroker, FetchSync, ReplicateEntry, CommitPull, FailPull
<1>2. ASSUME NEW n, NEW o, NEW i, ClientPut(n, o, i) \/ ClientDelete(n, o) \/ LoseNotice(n)
      PROVE  deployment' = deployment
  BY <1>2 DEF ClientPut, ClientDelete, LoseNotice
<1>3. QED
  BY <1>1, <1>2 DEF Next

\* Whatever the step, a serial deployment stays in order, and its brokers advance.
LEMMA SerialNext ==
    ASSUME IInv, IInv', Serial, SerialInv, [Next]_vars
    PROVE  SerialInv' /\ Advance
<1>1. CASE UNCHANGED vars
  <2>1. Advance
    BY <1>1, SerialFacts, NothingAnnounces DEF Advance, vars
  <2>2. \A m \in Node : Len(broker'[m].journal) <= writes'
    BY <1>1, SerialFacts DEF vars
  <2>3. QED
    BY <1>1, <2>1, <2>2, SerialFacts, SerialStep DEF vars
<1>2. CASE Next
  <2>1. deployment.deleters \subseteq Node
    BY FederationAssumption DEF IInv, TypeOK
  <2>2. QED
    BY <1>2, <2>1, SerialClients, SerialPull, SerialReplicate, SerialCommit DEF Next, PullStep
<1>3. QED
  BY <1>1, <1>2

\* A serial deployment starts in order.
LEMMA SerialInit == Init => SerialInv
<1> SUFFICES ASSUME Init, Serial PROVE SerialInv
  BY DEF SerialInv
<1>1. \A n \in Node : broker[n] = NewBroker /\ \A h \in Pull : pull[n][h] = Idle
  BY DEF Init
<1>2. writes = 0 /\ Len(NewBroker.journal) = 0 /\ NewBroker.applied_sequence = 0
      /\ NewBroker.journal = << >>
  BY DEF Init, NewBroker
<1>3. \A n \in Node : Publisher[n] # NoNode => broker[Publisher[n]] = NewBroker
  BY <1>1, FederationAssumption
<1>4. \A n \in Node : Replica(n, NewBroker, NewBroker)
  BY <1>2 DEF Replica, Follows, CoversTo
<1>5. \A n \in Node, h \in Pull : PullInOrder(n, h, Idle, NewBroker, NewBroker)
  BY DEF PullInOrder, Idle
<1>6. QED
  BY <1>1, <1>2, <1>3, <1>4, <1>5 DEF SerialInv

\* In a serial deployment what a handler has applied and has still to apply is
\* always the publisher's journal in its order (routes.rs:243-282).
THEOREM SerialStaysInOrder == Spec => []SerialInv
<1>1. IInv /\ IInv' /\ SerialInv /\ [Next]_vars => SerialInv'
  <2> SUFFICES ASSUME IInv, IInv', SerialInv, [Next]_vars, Serial' PROVE SerialInv'
    BY DEF SerialInv
  <2>1. Serial
    BY DeploymentKept DEF Serial
  <2>2. QED
    BY <2>1, SerialNext
<1>2. QED
  BY SerialInit, <1>1, AlwaysSound, PTL DEF Spec

\* Under a serial consumer the cursor covers what it claims, whatever is
\* relabelled, deleted, lost or failed meanwhile: no entry that a cursor skips is
\* one its node could still read (federation_client.rs:103, routes.rs:262-273).
THEOREM CursorsCover == Spec => []CursorCovers
<1>1. SerialInv => CursorCovers
  BY DEF SerialInv, CursorCovers, Replica, Follows, CoversTo
<1>2. QED
  BY <1>1, SerialStaysInOrder, PTL

\* Under a serial consumer nothing a node's readers could see goes away but by a
\* delete its journal records, and no cursor moves back (routes.rs:262-273).
THEOREM ReplicasAreKept == Spec => ReplicaIsKept
<1> DEFINE Kept == Serial =>
               /\ OnlyDeletesRemove
               /\ \A n \in Node : broker[n].applied_sequence <= broker'[n].applied_sequence
<1>1. IInv /\ IInv' /\ SerialInv /\ [Next]_vars => [Kept]_vars
  <2> SUFFICES ASSUME IInv, IInv', SerialInv, [Next]_vars, Serial
               PROVE  /\ OnlyDeletesRemove
                      /\ \A n \in Node :
                            broker[n].applied_sequence <= broker'[n].applied_sequence
    OBVIOUS
  <2>1. Advance
    BY SerialNext
  <2>2. OnlyDeletesRemove
    <3> SUFFICES ASSUME NEW n \in Node, NEW o \in Oid,
                        View(broker[n])[o] # NoInstance, View(broker'[n])[o] = NoInstance
                 PROVE  \E k \in DOMAIN broker'[n].journal :
                            /\ k > broker[n].sequence
                            /\ broker'[n].journal[k].oid = o
                            /\ broker'[n].journal[k].operation = "DeleteObject"
      BY DEF OnlyDeletesRemove
    <3>1. Announces(broker[n], broker'[n]) /\ broker[n].sequence = Len(broker[n].journal)
      BY <2>1, SerialFacts DEF Advance
    <3>2. QED
      BY <3>1 DEF Announces
  <2>3. QED
    BY <2>1, <2>2 DEF Advance
<1>2. QED
  BY <1>1, AlwaysSound, SerialStaysInOrder, PTL DEF Spec, ReplicaIsKept
=============================================================================
