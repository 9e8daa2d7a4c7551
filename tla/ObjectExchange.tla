--------------------------- MODULE ObjectExchange ---------------------------
(***************************************************************************)
(* What a MIP4-IES exchange promises the systems around it, without the    *)
(* store, the inactive set, sequence numbers or cursors: clients see one   *)
(* content, or none, per object, and every change is announced by exactly  *)
(* one record of a change feed, in the order in which it was made.         *)
(***************************************************************************)
EXTENDS Sequences

CONSTANTS Oid, Instance, ValidInstance, NoInstance

VARIABLES
    visible, \* what a client reads under each OID
    feed     \* the changes announced so far

exchangeVars == <<visible, feed>>

Announced(o) == \E k \in DOMAIN feed : feed[k] = <<"PutObject", o>>

ExchangeInit ==
    /\ visible = [o \in Oid |-> NoInstance]
    /\ feed = <<>>

Publish(o, i) ==
    /\ visible' = [visible EXCEPT ![o] = i]
    /\ feed' = Append(feed, <<"PutObject", o>>)

\* Only an object that was published can be retired; retiring it again changes
\* nothing a client sees and is announced again.
Retire(o) ==
    /\ Announced(o)
    /\ visible' = [visible EXCEPT ![o] = NoInstance]
    /\ feed' = Append(feed, <<"DeleteObject", o>>)

\* A bulk load of two objects is one step for every observer.
PublishBoth(o1, i1, o2, i2) ==
    /\ visible' = [[visible EXCEPT ![o1] = i1] EXCEPT ![o2] = i2]
    /\ feed' = Append(Append(feed, <<"PutObject", o1>>), <<"PutObject", o2>>)

ExchangeNext ==
    \/ \E o \in Oid, i \in ValidInstance : Publish(o, i)
    \/ \E o \in Oid : Retire(o)
    \/ \E o1, o2 \in Oid, i1, i2 \in ValidInstance : PublishBoth(o1, i1, o2, i2)

ExchangeSpec == ExchangeInit /\ [][ExchangeNext]_exchangeVars
=============================================================================
