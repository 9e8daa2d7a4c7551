---------------------------- MODULE MCReplication ---------------------------
(* Two objects of the publisher and one of the consumer.  Contents: two     *)
(* releasable revisions, a national-only one, and one that the publisher's  *)
(* registry validates and the consumer's does not.                          *)
EXTENDS Replication

CONSTANTS a, b, c, rel1, rel2, nat, alien

MCOid          == {a, b, c}
MCPublisherOid == {a, b}
MCConsumerOid  == {c}
MCInstance     == {rel1, rel2, nat, alien}
MCReadable     == {rel1, rel2, alien}
MCAccepted     == {rel1, rel2, nat}

\* A deployment is named by its agent, local clients and restarts.
Deployed(agent, local, restarts) ==
    [agent |-> agent, local |-> local, restarts |-> restarts]

Sound    == {Deployed("secured", FALSE, TRUE), Deployed("raw", TRUE, FALSE)}
Reloaded == {Deployed("raw", TRUE, TRUE)}
=============================================================================
