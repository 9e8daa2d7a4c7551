------------------------ MODULE CrossDomainTransfer -------------------------
(***************************************************************************)
(* A transfer through the cross-domain guard and its receipt on the target *)
(* side: the guard checks the binding, records, decides, packages and      *)
(* records again; readers on the target open the package, are recorded,    *)
(* pass the policy enforcement point, have the key unwrapped, and are      *)
(* recorded again (crates/mim-dcs/src/transfer.rs, guard.rs and            *)
(* crates/mim-ztdf/src/package.rs).                                        *)
(*                                                                         *)
(* Any record may fail to reach the log and any cryptographic or packaging *)
(* call may fail; what happens then depends on whether the guard is        *)
(* accredited.  The log is the sequence of the records it took (AuditLog   *)
(* says what that is worth).  The guard's domains are the transfer's, as   *)
(* every caller sets them, and the label asked for is the one bound, which *)
(* execute does not check and every caller sees to.                        *)
(***************************************************************************)
EXTENDS PolicyDecision, Sequences

CONSTANTS
    Setups,     \* the deployments considered
    Reader,     \* subject ids of those who open the package on the target side
    Attributes, \* Attributes[r]: what the directory says of r
    Guard, Pep, \* the names under which the guard and its PEP make records
    NoReader,   \* no receipt has been begun
    Faults,     \* which of {"audit", "call"} occur: failing records, failing calls
    MaxReceipts \* openings of the package: the model's bound

\* allowed: whether the policy store has a rule for the pair.
Setup == [accredited: BOOLEAN, allowed: BOOLEAN, source: Domain, target: Domain]

ASSUME TransferAssumption ==
    /\ Setups \subseteq Setup
    /\ Attributes \in [Reader -> Subject]
    /\ Reader \cap {Guard, Pep, NoReader} = {} /\ Guard # Pep
    /\ Faults \subseteq {"audit", "call"}
    /\ MaxReceipts \in Nat

VARIABLES
    setup,    \* the deployment, which never changes
    transfer, \* the call of execute: where it is, its request, the decision
    audit,    \* the records taken
    receipt,  \* the call of receive_ztdf_on_target under way
    received, \* the subjects who were given the plaintext
    receipts  \* calls so far

vars == <<setup, transfer, audit, receipt, received, receipts>>

Binding == {"assertion", "embedded"}
Stage   == {"idle", "submitted", "evaluating", "denying", "packaging", "recording",
            "delivering", "released", "denied", "failed"}

\* What a record says, of whom: the guard, or a subject on the target side.
By     == {Guard, Pep} \cup Reader
Record == [kind: {"reject", "evaluate", "transfer"}, by: By,
           decision: Effect \cup {"evaluate"}, label: Label, effective: Label]

Entry(kind, by, decision, l, effective) ==
    [kind |-> kind, by |-> by, decision |-> decision, label |-> l, effective |-> effective]

Init ==
    /\ setup \in Setups
    /\ transfer = [at |-> "idle", label |-> NoLabel, binding |-> "assertion",
                   verified |-> FALSE, decision |-> Deny]
    /\ audit = <<>>
    /\ receipt = [at |-> "idle", reader |-> NoReader]
    /\ received = {}
    /\ receipts = 0

-----------------------------------------------------------------------------
\* Slip: a record that is lost is lost, accredited or not.
RecordOpen(entry, next) ==
    \/ audit' = Append(audit, entry) /\ next = "ok"
    \/ "audit" \in Faults /\ UNCHANGED audit /\ next = "ok"

\* record_audit: an accredited guard fails with the log, any other goes on.
RecordAudit(entry, next) ==
    \/ audit' = Append(audit, entry) /\ next = "ok"
    \/ /\ "audit" \in Faults
       /\ UNCHANGED audit
       /\ next = IF setup.accredited THEN "failed" ELSE "ok"

\* The PEP's own record, made if it has a log and if the log takes it.
RecordByPep(entry) == audit' \in {audit, Append(audit, entry)}

Transferring(from) ==
    /\ transfer.at = from
    /\ UNCHANGED <<setup, receipt, received, receipts>>

Submit(l, binding, verified) ==
    /\ Transferring("idle")
    /\ transfer' = [at |-> "submitted", label |-> l, binding |-> binding,
                    verified |-> verified, decision |-> Deny]
    /\ UNCHANGED audit

\* Anything but an assertion binding is recorded and refused; whether the record
\* is taken changes the error only.
RejectBinding ==
    /\ Transferring("submitted")
    /\ transfer.binding # "assertion"
    /\ \E next \in {"ok", "failed"} :
          RecordAudit(Entry("reject", Guard, "deny", transfer.label, NoLabel), next)
    /\ transfer' = [transfer EXCEPT !.at = "failed"]

\* A binding that does not verify is an error, and not recorded.
VerifyFails ==
    /\ Transferring("submitted")
    /\ transfer.binding = "assertion" /\ ~transfer.verified
    /\ transfer' = [transfer EXCEPT !.at = "failed"]
    /\ UNCHANGED audit

RecordEvaluate ==
    /\ Transferring("submitted")
    /\ transfer.binding = "assertion" /\ transfer.verified
    /\ \E next \in {"ok", "failed"} :
          /\ RecordAudit(Entry("evaluate", Guard, "evaluate", transfer.label, NoLabel), next)
          /\ transfer' = [transfer EXCEPT !.at = IF next = "ok" THEN "evaluating" ELSE "failed"]

\* The guard asks for itself: cleared for the label, without caveats, nationality
\* or mission.
GuardSubject(l) == [clearance |-> l.classification, nationality |-> None,
                    mission |-> None, caveats |-> {}]

GuardDecision(l) ==
    EvaluateCrossDomain(GuardSubject(l), l, setup.source, setup.target, setup.allowed)

AfterDecision(d) ==
    CASE d.effect = "error" -> "failed"
      [] d.effect = "deny"  -> "denying"
      [] OTHER              -> "packaging"

\* guard.evaluate, with the record its PEP may make; there is none for an error.
Evaluate ==
    LET d == GuardDecision(transfer.label)
    IN  /\ Transferring("evaluating")
        /\ transfer' = [transfer EXCEPT !.at = AfterDecision(d), !.decision = d]
        /\ IF d.effect = "error"
           THEN UNCHANGED audit
           ELSE RecordByPep(Entry("evaluate", Pep, d.effect, transfer.label, d.label))

RecordDenial ==
    /\ Transferring("denying")
    /\ \E next \in {"ok", "failed"} :
          /\ RecordAudit(Entry("transfer", Guard, "deny", transfer.label, NoLabel), next)
          /\ transfer' = [transfer EXCEPT !.at = IF next = "ok" THEN "denied" ELSE "failed"]

CallFails == IF "call" \in Faults THEN {"failed"} ELSE {}

\* The outbound binding and the package are made and verified, or the call fails.
Package ==
    /\ Transferring("packaging")
    /\ \E next \in {"recording"} \cup CallFails : transfer' = [transfer EXCEPT !.at = next]
    /\ UNCHANGED audit

RecordRelease ==
    /\ Transferring("recording")
    /\ \E next \in {"ok", "failed"} :
          /\ RecordAudit(Entry("transfer", Guard, transfer.decision.effect,
                               transfer.label, transfer.decision.label), next)
          /\ transfer' = [transfer EXCEPT !.at = IF next = "ok" THEN "delivering" ELSE "failed"]

\* Released, with the package as a ZIP; writing that may still fail, with the
\* release already on record.
Deliver ==
    /\ Transferring("delivering")
    /\ \E next \in {"released"} \cup CallFails : transfer' = [transfer EXCEPT !.at = next]
    /\ UNCHANGED audit

-----------------------------------------------------------------------------
Receiving(from) ==
    /\ receipt.at = from
    /\ UNCHANGED <<setup, transfer>>

\* The label in the manifest of the package.
Sealed == transfer.decision.label

\* from_zip_sealed: nothing is decrypted yet.
OpenPackage(r) ==
    /\ Receiving("idle")
    /\ transfer.at = "released"
    /\ receipts < MaxReceipts
    /\ receipts' = receipts + 1
    /\ receipt' = [at |-> "opened", reader |-> r]
    /\ UNCHANGED <<audit, received>>

\* Slip: a receipt that was not recorded stays where it failed.
RecordOpeningOrFail ==
    /\ Receiving("opened")
    /\ \E next \in {"enforcing", "failed"} :
          /\ RecordAudit(Entry("evaluate", receipt.reader, "evaluate", Sealed, NoLabel),
                         IF next = "failed" THEN "failed" ELSE "ok")
          /\ receipt' = [receipt EXCEPT !.at = next]
    /\ UNCHANGED <<received, receipts>>

RecordOpening ==
    /\ Receiving("opened")
    /\ \E next \in {"ok", "failed"} :
          /\ RecordAudit(Entry("evaluate", receipt.reader, "evaluate", Sealed, NoLabel), next)
          /\ receipt' = [receipt EXCEPT !.at = IF next = "ok" THEN "enforcing" ELSE "idle"]
    /\ UNCHANGED <<received, receipts>>

\* enforce_access on the target domain; an invalid label is an error without a
\* record.
EnforceAccess ==
    LET permitted == MayAccess(Attributes[receipt.reader], Sealed, setup.target)
        effect    == IF permitted THEN "permit" ELSE "deny"
    IN  /\ Receiving("enforcing")
        /\ receipt' = [receipt EXCEPT !.at = IF permitted THEN "unwrapping" ELSE "idle"]
        /\ IF ValidLabel(Sealed)
           THEN RecordByPep(Entry("evaluate", Pep, effect, Sealed,
                                  IF permitted THEN Sealed ELSE NoLabel))
           ELSE UNCHANGED audit
        /\ UNCHANGED <<received, receipts>>

\* The key service unwraps the key, the payload is decrypted and its binding
\* verified, or one of these fails.
Unwrap ==
    /\ Receiving("unwrapping")
    /\ \E next \in {"opening"} \cup (IF CallFails = {} THEN {} ELSE {"idle"}) :
          receipt' = [receipt EXCEPT !.at = next]
    /\ UNCHANGED <<audit, received, receipts>>

RecordReceipt ==
    /\ Receiving("opening")
    /\ \E next \in {"ok", "failed"} :
          /\ RecordAudit(Entry("transfer", receipt.reader, "permit", Sealed, NoLabel), next)
          /\ received' = IF next = "ok" THEN received \cup {receipt.reader} ELSE received
    /\ receipt' = [receipt EXCEPT !.at = "idle"]
    /\ UNCHANGED receipts

Next ==
    \/ \E l \in Label, binding \in Binding, verified \in BOOLEAN : Submit(l, binding, verified)
    \/ RejectBinding
    \/ VerifyFails
    \/ RecordEvaluate
    \/ Evaluate
    \/ RecordDenial
    \/ Package
    \/ RecordRelease
    \/ Deliver
    \/ \E r \in Reader : OpenPackage(r)
    \/ RecordOpening
    \/ EnforceAccess
    \/ Unwrap
    \/ RecordReceipt

Spec == Init /\ [][Next]_vars

-----------------------------------------------------------------------------
\* Types of the two calls and the log (transfer.rs:31, 183).
TypeOK ==
    /\ setup \in Setups
    /\ transfer \in [at: Stage, label: Label, binding: Binding, verified: BOOLEAN,
                     decision: Decision]
    /\ audit \in Seq(Record)
    /\ receipt \in [at: {"idle", "opened", "enforcing", "unwrapping", "opening"},
                    reader: Reader \cup {NoReader}]
    /\ received \subseteq Reader
    /\ receipts \in 0..MaxReceipts

\* The log holds a record of the deed, and before it one of the evaluation.
Recorded(by, l, decision, effective) ==
    \E k \in DOMAIN audit :
        /\ audit[k] = Entry("transfer", by, decision, l, effective)
        /\ \E j \in 1..(k - 1) : audit[j] = Entry("evaluate", by, "evaluate", l, NoLabel)

\* An accredited guard hands out nothing that is not on record: neither the
\* package nor, on the target side, the plaintext, whichever records and calls
\* fail on the way (transfer.rs:75, 125, 200, 219, 324).
AccreditedIsRecorded ==
    setup.accredited =>
        /\ transfer.at = "released" =>
              Recorded(Guard, transfer.label, transfer.decision.effect, Sealed)
        /\ \A r \in received : Recorded(r, Sealed, "permit", NoLabel)

\* What is released is not dead on arrival: every subject cleared for the sealed
\* label, and of a nationality it is released to, passes the target's
\* enforcement point, which decides by other rules (pdp.rs:80, 151).
ReleaseIsReadable ==
    transfer.at = "released" =>
        \A s \in Subject :
            /\ Sealed.classification <= s.clearance
            /\ s.nationality \in {None} \cup Sealed.releasable
            => MayAccess(s, Sealed, setup.target)

\* Whoever is given the plaintext satisfies the label the payload came with,
\* as to caveats, releasability and, up to what the target may hold,
\* clearance, however it was downgraded (downgrade.rs:29, pdp.rs:178).
ReceiptRespectsOrigin ==
    \A r \in received :
        LET s == Attributes[r]
        IN  /\ HoldsCaveats(s, transfer.label)
            /\ \/ s.nationality = None \/ transfer.label.releasable = {}
               \/ s.nationality \in transfer.label.releasable
            /\ \/ transfer.label.classification <= s.clearance
               \/ setup.target.max_classification <= s.clearance
=============================================================================
