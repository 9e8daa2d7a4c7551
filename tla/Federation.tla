----------------------------- MODULE Federation -----------------------------
(***************************************************************************)
(* Federated exchange nodes: clients PUT and DELETE over REST, a PUT posts *)
(* a webhook to the peers, and a notified node pulls the publisher's       *)
(* PEP-filtered journal                                                    *)
(* (crates/mim-transport-http/src/routes.rs and federation_client.rs).     *)
(*                                                                         *)
(* The broker of a node sits behind an async mutex.  A client request is   *)
(* one critical section.  A pull is many: it reads the cursor, clones the  *)
(* broker, talks to the publisher with no lock held, and finally writes    *)
(* the clone back over whatever the broker has become.                     *)
(***************************************************************************)
EXTENDS BrokerState, FiniteSets

CONSTANTS
    Node,
    Pull,      \* notify handlers of a node
    NoNode,
    Publisher, \* Publisher[n]: the node whose sync URL n pulls, or NoNode
    Webhooks,  \* Webhooks[n]: the nodes n posts a notify to
    Readable,  \* Readable[n]: contents whose label a publisher's PEP lets n read
    Deployments \* the settings considered, one of which holds throughout

ASSUME FederationAssumption ==
    /\ NoNode \notin Node
    /\ Publisher \in [Node -> Node \cup {NoNode}]
    /\ Webhooks \in [Node -> SUBSET Node]
    /\ Readable \in [Node -> SUBSET Instance]
    /\ \A d \in Deployments :
          /\ d.handlers \subseteq Pull     \* handlers that may run at a time
          /\ d.authored \in [Node -> SUBSET ValidInstance] \* what clients of n submit
          /\ d.deleters \subseteq Node     \* nodes whose clients delete objects
          /\ d.faults \subseteq {"lost_notify", "http_error"}
          /\ d.writes \in Nat    \* client requests, in all: the model's bound

\* No journal outgrows its counter (2^64 - 1 entries).  One that did would give
\* several entries the same number, and the set SyncSinceAs would no longer be
\* the response with its order.
ASSUME UnsaturatedAssumption == \A d \in Deployments : d.writes <= MaxSequence

VARIABLES
    deployment,
    broker,  \* broker[n]
    notices, \* notices[n]: webhook POSTs on their way to n
    pull,    \* pull[n][h]: the notify handlers of n
    writes   \* client requests so far

vars == <<deployment, broker, notices, pull, writes>>

Idle == [at |-> "idle", since |-> 0, staging |-> NewBroker, entries |-> {}]

PullState == [at: {"idle", "clone", "sync", "fetch"}, since: Sequence,
              staging: Broker, entries: SUBSET Entry]

Init ==
    /\ deployment \in Deployments
    /\ broker = [n \in Node |-> NewBroker]
    /\ notices = [n \in Node |-> 0]
    /\ pull = [n \in Node |-> [h \in Pull |-> Idle]]
    /\ writes = 0

-----------------------------------------------------------------------------
\* A PUT, once its envelope is verified and the PEP has let it through: the
\* broker changes under the lock, and one webhook per peer is spawned after the
\* lock is released.  A notice carries nothing the consumer reads, so the delay
\* between the two is part of the notice's own.
ClientPut(n, o, i) ==
    /\ writes < deployment.writes
    /\ broker' = [broker EXCEPT ![n] = PutObject(broker[n], o, i)]
    /\ notices' = [m \in Node |-> IF m \in Webhooks[n] THEN notices[m] + 1 ELSE notices[m]]
    /\ writes' = writes + 1
    /\ UNCHANGED <<deployment, pull>>

\* A DELETE needs an active object, and posts no webhook.
ClientDelete(n, o) ==
    /\ writes < deployment.writes
    /\ o \in Active(broker[n])
    /\ broker' = [broker EXCEPT ![n] = DeleteObject(broker[n], o)]
    /\ writes' = writes + 1
    /\ UNCHANGED <<deployment, notices, pull>>

\* Slip: a lost POST is counted whether or not one was under way.
LoseAnyNotice(n) ==
    /\ "lost_notify" \in deployment.faults
    /\ notices' = [notices EXCEPT ![n] = notices[n] - 1]
    /\ UNCHANGED <<deployment, broker, pull, writes>>

\* The POST is made once, by a detached thread that ignores the outcome.
LoseNotice(n) ==
    /\ "lost_notify" \in deployment.faults
    /\ notices[n] > 0
    /\ notices' = [notices EXCEPT ![n] = notices[n] - 1]
    /\ UNCHANGED <<deployment, broker, pull, writes>>

-----------------------------------------------------------------------------
\* The first critical section of replication_notify: read the cursor.
StartPull(n, h) ==
    /\ Publisher[n] # NoNode
    /\ notices[n] > 0
    /\ h \in deployment.handlers /\ pull[n][h].at = "idle"
    /\ notices' = [notices EXCEPT ![n] = notices[n] - 1]
    /\ pull' = [pull EXCEPT ![n][h] =
                    [Idle EXCEPT !.at = "clone", !.since = broker[n].applied_sequence]]
    /\ UNCHANGED <<deployment, broker, writes>>

\* Slip: the handler works on a new broker.
CloneFresh(n, h) ==
    /\ pull[n][h].at = "clone"
    /\ pull' = [pull EXCEPT ![n][h].at = "sync", ![n][h].staging = NewBroker]
    /\ UNCHANGED <<deployment, broker, notices, writes>>

\* The second one: clone the broker.
CloneBroker(n, h) ==
    /\ pull[n][h].at = "clone"
    /\ pull' = [pull EXCEPT ![n][h].at = "sync", ![n][h].staging = broker[n]]
    /\ UNCHANGED <<deployment, broker, notices, writes>>

\* Slip: no PEP behind GET .../objects/{oid}.
ServedToAll(p, n, o) == o \in Active(broker[p])

\* What the publisher p serves node n for GET .../objects/{oid}: active, and
\* allowed by the PEP.
Served(p, n, o) == o \in Active(broker[p]) /\ broker[p].store[o] \in Readable[n]

\* Slip: deletes are filtered by the label of what they delete.
SyncReadableOnly(p, n, since) ==
    {e \in SyncSince(broker[p], since) : broker[p].store[e.oid] \in Readable[n]}

\* sync_since_as: every delete, and the puts of objects n may read now.
SyncSinceAs(p, n, since) ==
    {e \in SyncSince(broker[p], since) :
        e.operation = "DeleteObject" \/ Served(p, n, e.oid)}

FetchSync(n, h) ==
    /\ pull[n][h].at = "sync"
    /\ pull' = [pull EXCEPT ![n][h].at = "fetch",
                    ![n][h].entries = SyncSinceAs(Publisher[n], n, pull[n][h].since)]
    /\ UNCHANGED <<deployment, broker, notices, writes>>

\* Slip: the newest entry first.
IsNewest(e, entries) == e \in entries /\ \A f \in entries : f.sequence <= e.sequence

\* The entry the handler's loop has come to.
IsNext(e, entries) == e \in entries /\ \A f \in entries : e.sequence <= f.sequence

\* One turn of the loop of replicate_into.  A put is completed with the
\* content the publisher serves by now; if it serves none any more (404, 410,
\* 403) the pull fails as a whole and the clone is dropped.
ReplicateEntry(n, h, e) ==
    LET p      == pull[n][h]
        done   == [p EXCEPT !.entries = p.entries \ {e}]
        src    == Publisher[n]
        isNew  == p.staging.applied_sequence < e.sequence
        served == e.operation = "PutObject" => Served(src, n, e.oid)
        To(q)  == pull' = [pull EXCEPT ![n][h] = q]
    IN  /\ p.at = "fetch"
        /\ IsNext(e, p.entries)
        /\ \/ ~isNew /\ To(done)
           \/ isNew /\ ~served /\ To(Idle)
           \/ isNew /\ served
                /\ To([done EXCEPT !.staging =
                            ApplyEntry(p.staging, e, broker[src].store[e.oid])])
        /\ UNCHANGED <<deployment, broker, notices, writes>>

\* The third critical section: the clone becomes the broker.
CommitPull(n, h) ==
    /\ pull[n][h].at = "fetch"
    /\ pull[n][h].entries = {}
    /\ broker' = [broker EXCEPT ![n] = pull[n][h].staging]
    /\ pull' = [pull EXCEPT ![n][h] = Idle]
    /\ UNCHANGED <<deployment, notices, writes>>

\* A request of the pull fails: the handler answers with the error.
FailPull(n, h) ==
    /\ "http_error" \in deployment.faults
    /\ pull[n][h].at \in {"sync", "fetch"}
    /\ pull' = [pull EXCEPT ![n][h] = Idle]
    /\ UNCHANGED <<deployment, broker, notices, writes>>

PullStep(n, h) ==
    \/ StartPull(n, h)
    \/ CloneBroker(n, h)
    \/ FetchSync(n, h)
    \/ \E e \in pull[n][h].entries : ReplicateEntry(n, h, e)
    \/ CommitPull(n, h)

Next ==
    \/ \E n \in Node, o \in Oid : \E i \in deployment.authored[n] : ClientPut(n, o, i)
    \/ \E n \in deployment.deleters, o \in Oid : ClientDelete(n, o)
    \/ \E n \in Node : LoseNotice(n)
    \/ \E n \in Node, h \in Pull : PullStep(n, h) \/ FailPull(n, h)

Spec == Init /\ [][Next]_vars

\* The runtime keeps polling a handler it has started and delivers a POST that
\* was not lost; clients owe nothing.
FairSpec == Spec /\ \A n \in Node, h \in Pull : WF_vars(PullStep(n, h))

-----------------------------------------------------------------------------
\* Types of the nodes, the notices and the handlers (routes.rs:38, 262-282).
TypeOK ==
    /\ deployment \in Deployments
    /\ broker \in [Node -> Broker]
    /\ notices \in [Node -> Nat]
    /\ pull \in [Node -> [Pull -> PullState]]
    /\ writes \in 0..deployment.writes

\* A node holds nothing the publisher's PEP would not let it read, apart from
\* what its own clients wrote: the content is fetched after the journal was
\* filtered, and may have been relabelled in between (routes.rs:227,
\* federation_client.rs:107, secured.rs:206).
ReplicasAreReadable ==
    \A n \in Node, o \in Oid :
        broker[n].store[o] \in Readable[n] \cup deployment.authored[n] \cup {NoInstance}

\* A consumer's cursor never runs ahead of the journal it indexes, where the
\* publisher is not a consumer too: one whose own pull writes a clone back loses
\* entries that others have already counted (federation_client.rs:103,
\* routes.rs:273, broker.rs:129).
CursorNeverAhead ==
    \A n \in Node : Publisher[n] # NoNode =>
        (Publisher[Publisher[n]] = NoNode =>
            broker[n].applied_sequence <= broker[Publisher[n]].sequence)

\* A consumer that runs one handler at a time and has no clients of its own that
\* write.
Serial ==
    /\ \A g, h \in deployment.handlers : g = h
    /\ \A n \in Node :
          Publisher[n] # NoNode => deployment.authored[n] = {} /\ n \notin deployment.deleters

\* In a serial deployment the cursor covers what it claims: an object whose last
\* entry lies at or before a consumer's cursor is, unless its present content is
\* withheld from the consumer, read there as it is read at the publisher.  An
\* entry the cursor skips is never asked for again (federation_client.rs:103,
\* routes.rs:262-273).
CursorCovers ==
    \A n \in Node : Publisher[n] # NoNode /\ Serial =>
        LET p == Publisher[n]
        IN  \A k \in DOMAIN broker[p].journal :
                LET o == broker[p].journal[k].oid
                IN  /\ IsLast(broker[p], k)
                    /\ k <= broker[n].applied_sequence
                    /\ View(broker[p])[o] \in Readable[n] \cup {NoInstance}
                    => View(broker[n])[o] = View(broker[p])[o]

\* An object a node's readers could see goes away only by a delete that node's
\* journal records (routes.rs:273, broker.rs:289).
OnlyDeletesRemove ==
    \A n \in Node, o \in Oid :
        View(broker[n])[o] # NoInstance /\ View(broker'[n])[o] = NoInstance =>
            \E k \in DOMAIN broker'[n].journal :
                /\ k > broker[n].sequence
                /\ broker'[n].journal[k].oid = o
                /\ broker'[n].journal[k].operation = "DeleteObject"

\* The same where clients write to a consumer too, which the overlap of a PUT
\* and a pull refutes (routes.rs:273).
DisappearsOnlyByDelete == [][OnlyDeletesRemove]_vars

\* In a serial deployment nothing disappears but by a journalled delete, and the
\* cursor of a consumer never moves back (routes.rs:262-273).
ReplicaIsKept ==
    [][Serial => /\ OnlyDeletesRemove
                 /\ \A n \in Node : broker[n].applied_sequence <= broker'[n].applied_sequence]_vars

\* Notify and pull suffice for publication in a serial deployment where no POST
\* is lost and no request fails: once clients fall silent, every object a
\* consumer may read is read there as it is at the publisher.  With a second
\* handler an older clone written back takes away what the first had pulled, and
\* no notice is left to pull it again (routes.rs:84-117, 243, 262-273).
Converges ==
    \A n \in Node :
        <>[](Publisher[n] # NoNode /\ Serial /\ deployment.faults = {} =>
                \A o \in Oid : LET published == View(broker[Publisher[n]])[o]
                               IN  published \in Readable[n] => View(broker[n])[o] = published)
=============================================================================
