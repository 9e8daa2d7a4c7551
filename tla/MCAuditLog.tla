----------------------------- MODULE MCAuditLog -----------------------------
(* Two callers share the log.  A deployment is named by sink, startup and   *)
(* faults.                                                                  *)
EXTENDS AuditLog

CONSTANTS c1, c2

MCCaller == {c1, c2}

Deployed(sink, startup, faults) == [sink |-> sink, startup |-> startup, faults |-> faults]

Sound  == {Deployed("memory", "open", {"crash"}),
           Deployed("memory", "open", {"sign_error"}),
           Deployed("file", "reload", {"crash"}),
           Deployed("file", "open", {"write_error"}),
           Deployed("worm", "open", {"crash", "write_error", "sign_error"})}
=============================================================================
