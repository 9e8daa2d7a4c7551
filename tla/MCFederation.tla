---------------------------- MODULE MCFederation ----------------------------
(* A national node usa that publishes and an allied node gbr that pulls     *)
(* from it, as in config/fmn-federation.toml.  Contents: two releasable     *)
(* revisions and one national-only; gbr authors a releasable one of its own *)
(* where it is written to as well.                                          *)
EXTENDS Federation

CONSTANTS usa, gbr, o1, o2, rel1, rel2, nat, own

MCNode      == {usa, gbr}
MCOid       == {o1, o2}
MCInstance  == {rel1, rel2, nat, own}
MCPull      == 1..2
MCPublisher == [n \in MCNode |-> IF n = gbr THEN usa ELSE NoNode]
MCWebhooks  == [n \in MCNode |-> IF n = usa THEN {gbr} ELSE {}]
MCReadable  == [n \in MCNode |-> IF n = gbr THEN {rel1, rel2} ELSE MCInstance]

Deployment(handlers, allied, deleters, faults, writes_) ==
    [handlers |-> handlers, deleters |-> deleters, faults |-> faults, writes |-> writes_,
     authored |-> [n \in MCNode |-> IF n = usa THEN {rel1, rel2, nat} ELSE allied]]

AllFaults == {"lost_notify", "http_error"}

\* One handler over a faulty network; the same over a sound one; two handlers at
\* a time over a sound network; two at a consumer that has clients of its own.
MCDeployments ==
    {Deployment({1}, {}, {usa}, AllFaults, 5), Deployment({1}, {}, {usa}, {}, 4),
     Deployment({1, 2}, {}, {usa}, {}, 3), Deployment({1, 2}, {own}, {usa}, AllFaults, 3)}

\* One handler and one client of the consumer, nothing that fails.
OverlapDeployments == {Deployment({1}, {own}, {}, {}, 2)}
=============================================================================
