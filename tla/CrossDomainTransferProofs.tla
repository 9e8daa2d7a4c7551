--------------------- MODULE CrossDomainTransferProofs ----------------------
(***************************************************************************)
(* The cross-domain guard for every lattice of levels, every set of        *)
(* countries, caveats, missions and deployments, and any number of         *)
(* readers and failures: types, what a decision to release promises, and   *)
(* that an accredited guard hands out nothing that is not on record.       *)
(***************************************************************************)
EXTENDS CrossDomainTransfer, TLAPS

-----------------------------------------------------------------------------
(* Decisions.                                                               *)

\* What is downgraded is a label of the target's maximum level and of the
\* countries kept, or the downgrade is an error (downgrade.rs:29).
LEMMA DowngradedLabelType ==
    ASSUME NEW l \in Label, NEW d \in Domain
    PROVE  DowngradedLabel(l, d) \in Decision
<1>1. KeptCountries(l, d) \in SUBSET Country
  BY DEF KeptCountries, Label
<1>2. [l EXCEPT !.classification = d.max_classification,
                !.releasable = KeptCountries(l, d)] \in Label
  BY <1>1 DEF Label, Domain
<1>3. NoLabel \in Label
  BY PolicyAssumption DEF NoLabel, Label, Level
<1>4. QED
  BY <1>2, <1>3 DEF DowngradedLabel, Downgrade, Failure, Decision, Effect

\* Every evaluation is a decision (pdp.rs:151).
LEMMA EvaluateType ==
    ASSUME NEW s \in Subject, NEW l \in Label, NEW source \in Domain, NEW target \in Domain,
           NEW allowed \in BOOLEAN
    PROVE  EvaluateCrossDomain(s, l, source, target, allowed) \in Decision
<1>1. NoLabel \in Label
  BY PolicyAssumption DEF NoLabel, Label, Level
<1>2. Failure \in Decision /\ Deny \in Decision /\ Permit(l) \in Decision
  BY <1>1 DEF Failure, Deny, Permit, Decision, Effect
<1>3. DowngradedLabel(l, target) \in Decision
  BY DowngradedLabelType
<1>4. QED
  BY <1>2, <1>3 DEF EvaluateCrossDomain

Release == {"permit", "downgrade"}

\* A decision to release is taken on a label that is not refused; the label it
\* gives is the one asked for, or one of the target's maximum level with the
\* countries kept (pdp.rs:151, downgrade.rs:29).
LEMMA ReleaseDecision ==
    ASSUME NEW s, NEW l \in Label, NEW source \in Domain, NEW target \in Domain,
           NEW allowed \in BOOLEAN,
           EvaluateCrossDomain(s, l, source, target, allowed).effect \in Release
    PROVE  LET given == EvaluateCrossDomain(s, l, source, target, allowed).label
           IN  /\ ~Refused(s, l, source, target)
               /\ ValidLabel(given)
               /\ given.caveats = l.caveats
               /\ \/ given = l /\ l.classification <= target.max_classification
                  \/ /\ given.classification = target.max_classification
                     /\ given.releasable = KeptCountries(l, target)
<1> DEFINE e == EvaluateCrossDomain(s, l, source, target, allowed)
<1>1. Failure.effect \notin Release /\ Deny.effect \notin Release
  BY DEF Failure, Deny, Release
<1>2. ValidLabel(l) /\ allowed /\ ~Refused(s, l, source, target)
  BY <1>1 DEF EvaluateCrossDomain
<1>3. CASE l.classification <= target.max_classification
  <2>1. e = Permit(l)
    BY <1>2, <1>3 DEF EvaluateCrossDomain
  <2>2. e.label = l
    BY <2>1 DEF Permit
  <2>3. QED
    BY <1>2, <1>3, <2>2
<1>4. CASE ~(l.classification <= target.max_classification)
  <2> DEFINE down == [l EXCEPT !.classification = target.max_classification,
                               !.releasable = KeptCountries(l, target)]
  <2>1. e = DowngradedLabel(l, target)
    BY <1>1, <1>2, <1>4 DEF EvaluateCrossDomain
  <2>2. ValidLabel(down) /\ e = Downgrade(down)
    BY <1>1, <2>1 DEF DowngradedLabel
  <2>3. /\ down.classification = target.max_classification
        /\ down.releasable = KeptCountries(l, target)
        /\ down.caveats = l.caveats
    BY DEF Label
  <2>4. e.label = down
    BY <2>2 DEF Downgrade
  <2> HIDE DEF down
  <2>5. QED
    BY <1>2, <2>2, <2>3, <2>4
<1>5. QED
  BY <1>3, <1>4

\* The guard asks in the name of a subject without caveats, nationality or
\* mission (guard.rs:90): what it releases has no caveats, goes between domains
\* without compartments, to countries the target accepts, all of them.
LEMMA GuardRelease ==
    ASSUME NEW l \in Label, setup \in Setup, GuardDecision(l).effect \in Release
    PROVE  LET given == GuardDecision(l).label
           IN  /\ ValidLabel(given)
               /\ given.caveats = {} /\ l.caveats = {}
               /\ setup.target.mission_compartments = {}
               /\ given.releasable = l.releasable /\ ReleasableIn(l, setup.target)
               /\ given.classification <= setup.target.max_classification
               /\ \/ given.classification = l.classification
                  \/ given.classification = setup.target.max_classification
<1> DEFINE s == GuardSubject(l)
           given == GuardDecision(l).label
<1>1. /\ setup.source \in Domain /\ setup.target \in Domain /\ setup.allowed \in BOOLEAN
  BY DEF Setup
<1>2. /\ ~Refused(s, l, setup.source, setup.target)
      /\ ValidLabel(given) /\ given.caveats = l.caveats
      /\ \/ given = l /\ l.classification <= setup.target.max_classification
         \/ /\ given.classification = setup.target.max_classification
            /\ given.releasable = KeptCountries(l, setup.target)
  BY <1>1, ReleaseDecision DEF GuardDecision
<1>3. l.caveats = {}
  BY <1>2 DEF Refused, HoldsCaveats, GuardSubject
<1>4. setup.target.mission_compartments = {}
  BY <1>2 DEF Refused, MissionAllows, GuardSubject
<1>5. ReleasableIn(l, setup.target)
  BY <1>2 DEF Refused
<1>6. KeptCountries(l, setup.target) = l.releasable
  BY <1>5 DEF KeptCountries, ReleasableIn
<1>7. setup.target.max_classification \in Int
  BY <1>1, PolicyAssumption DEF Domain, Level
<1>8. QED
  BY <1>2, <1>3, <1>4, <1>5, <1>6, <1>7

-----------------------------------------------------------------------------
(* The log.                                                                 *)

Evaluated(log, by, l) ==
    \E j \in DOMAIN log : log[j] = Entry("evaluate", by, "evaluate", l, NoLabel)

Deed(log, by, l, decision, effective) ==
    \E k \in DOMAIN log :
        /\ log[k] = Entry("transfer", by, decision, l, effective)
        /\ \E j \in 1..(k - 1) : log[j] = Entry("evaluate", by, "evaluate", l, NoLabel)

\* A log is left alone or takes one record.
Grows(log, next) == next = log \/ \E e \in Record : next = Append(log, e)

\* What is on record stays on record.
LEMMA GrowingLogKeeps ==
    ASSUME NEW log \in Seq(Record), NEW next, Grows(log, next),
           NEW by, NEW l, NEW decision, NEW effective
    PROVE  /\ next \in Seq(Record)
           /\ Evaluated(log, by, l) => Evaluated(next, by, l)
           /\ Deed(log, by, l, decision, effective) => Deed(next, by, l, decision, effective)
<1>1. CASE next = log
  BY <1>1
<1>2. ASSUME NEW e \in Record, next = Append(log, e) PROVE
          /\ next \in Seq(Record) /\ DOMAIN log \subseteq DOMAIN next
          /\ DOMAIN log = 1..Len(log)
          /\ \A k \in DOMAIN log : next[k] = log[k]
  BY <1>2
<1>3. ASSUME NEW e \in Record, next = Append(log, e),
             Deed(log, by, l, decision, effective)
      PROVE  Deed(next, by, l, decision, effective)
  <2>1. PICK k \in DOMAIN log :
            /\ log[k] = Entry("transfer", by, decision, l, effective)
            /\ \E j \in 1..(k - 1) : log[j] = Entry("evaluate", by, "evaluate", l, NoLabel)
    BY <1>3 DEF Deed
  <2>2. PICK j \in 1..(k - 1) : log[j] = Entry("evaluate", by, "evaluate", l, NoLabel)
    BY <2>1
  <2>3. k \in DOMAIN next /\ next[k] = log[k]
    BY <1>2, <1>3
  <2>4. j \in DOMAIN log
    BY <1>2, <1>3
  <2>5. next[j] = log[j]
    BY <1>2, <1>3, <2>4
  <2>6. QED
    BY <2>1, <2>2, <2>3, <2>5 DEF Deed
<1>4. ASSUME NEW e \in Record, next = Append(log, e), Evaluated(log, by, l)
      PROVE  Evaluated(next, by, l)
  BY <1>2, <1>4 DEF Evaluated
<1>5. QED
  BY <1>1, <1>2, <1>3, <1>4 DEF Grows

\* A record appended after the evaluation makes the deed.
LEMMA AppendedDeed ==
    ASSUME NEW log \in Seq(Record), NEW by, NEW l, NEW decision, NEW effective,
           Evaluated(log, by, l)
    PROVE  Deed(Append(log, Entry("transfer", by, decision, l, effective)),
                by, l, decision, effective)
<1> DEFINE e    == Entry("transfer", by, decision, l, effective)
           next == Append(log, e)
<1>1. PICK j \in DOMAIN log : log[j] = Entry("evaluate", by, "evaluate", l, NoLabel)
  BY DEF Evaluated
<1>2. j \in 1..Len(log) /\ Len(log) \in Nat
  OBVIOUS
<1> HIDE DEF e
<1>3. /\ Len(log) + 1 \in DOMAIN next /\ next[Len(log) + 1] = e
      /\ next[j] = log[j]
  BY <1>2
<1>4. j \in 1..((Len(log) + 1) - 1)
  BY <1>2
<1>5. QED
  BY <1>1, <1>3, <1>4 DEF Deed, e

\* An evaluation just recorded is on record.
LEMMA AppendedEvaluation ==
    ASSUME NEW log \in Seq(Record), NEW by, NEW l
    PROVE  Evaluated(Append(log, Entry("evaluate", by, "evaluate", l, NoLabel)), by, l)
<1> DEFINE e    == Entry("evaluate", by, "evaluate", l, NoLabel)
           next == Append(log, e)
<1> HIDE DEF e
<1>1. Len(log) + 1 \in DOMAIN next /\ next[Len(log) + 1] = e
  OBVIOUS
<1>2. QED
  BY <1>1 DEF Evaluated, e

-----------------------------------------------------------------------------
(* Types.                                                                   *)

\* The records made are records.
LEMMA EntryType ==
    ASSUME NEW kind \in {"reject", "evaluate", "transfer"}, NEW by \in By,
           NEW decision \in Effect \cup {"evaluate"}, NEW l \in Label, NEW effective \in Label
    PROVE  Entry(kind, by, decision, l, effective) \in Record
  BY DEF Entry, Record

\* The bottom label is a label, and the names the guard uses may make records.
LEMMA Bottoms ==
    /\ NoLabel \in Label /\ Deny \in Decision
    /\ Guard \in By /\ Pep \in By /\ Reader \subseteq By
<1>1. NoLabel \in Label
  BY PolicyAssumption DEF NoLabel, Label, Level
<1>2. QED
  BY <1>1 DEF Deny, Decision, Effect, By

\* The guard's decision is one (guard.rs:90).
LEMMA GuardDecisionType ==
    ASSUME setup \in Setup, NEW l \in Label
    PROVE  GuardDecision(l) \in Decision
<1>1. /\ setup.source \in Domain /\ setup.target \in Domain /\ setup.allowed \in BOOLEAN
  BY DEF Setup
<1>2. GuardSubject(l) \in Subject
  BY DEF GuardSubject, Subject, Label
<1>3. QED
  BY <1>1, <1>2, EvaluateType DEF GuardDecision

\* Types, with a reader in every receipt under way.
Typed == TypeOK /\ (receipt.at # "idle" => receipt.reader \in Reader)

\* A transfer not yet begun is well typed (transfer.rs:31).
LEMMA InitTyped == Init => Typed
<1> SUFFICES ASSUME Init PROVE Typed
  OBVIOUS
<1>1. transfer \in [at: Stage, label: Label, binding: Binding, verified: BOOLEAN,
                     decision: Decision]
  BY Bottoms DEF Init, Stage, Binding
<1>2. QED
  BY <1>1, TransferAssumption DEF Init, Typed, TypeOK

\* Every step leaves the log alone or appends one record to it
\* (transfer.rs:324).
LEMMA AuditGrows ==
    ASSUME Typed, Next
    PROVE  Grows(audit, audit')
<1> USE Bottoms, EntryType
<1>1. setup \in Setup /\ transfer.label \in Label /\ transfer.decision \in Decision
      /\ transfer.decision.effect \in Effect /\ Sealed \in Label
  BY TransferAssumption DEF Typed, TypeOK, Sealed, Decision
<1>2. ASSUME NEW e \in Record, NEW next, RecordAudit(e, next) PROVE Grows(audit, audit')
  BY <1>2 DEF RecordAudit, Grows
<1>3. ASSUME NEW e \in Record, RecordByPep(e) PROVE Grows(audit, audit')
  BY <1>3 DEF RecordByPep, Grows
<1>4. ASSUME UNCHANGED audit PROVE Grows(audit, audit')
  BY <1>4 DEF Grows
<1>5. CASE RejectBinding
  <2>1. Entry("reject", Guard, "deny", transfer.label, NoLabel) \in Record
    BY <1>1 DEF Effect
  <2>2. QED
    BY <1>2, <1>5, <2>1 DEF RejectBinding
<1>6. CASE RecordEvaluate
  <2>1. Entry("evaluate", Guard, "evaluate", transfer.label, NoLabel) \in Record
    BY <1>1
  <2>2. QED
    BY <1>2, <1>6, <2>1 DEF RecordEvaluate
<1>7. CASE Evaluate
  <2> DEFINE d == GuardDecision(transfer.label)
  <2>1. d \in Decision
    BY <1>1, GuardDecisionType
  <2> HIDE DEF d
  <2>2. Entry("evaluate", Pep, d.effect, transfer.label, d.label) \in Record
    BY <1>1, <2>1 DEF Decision
  <2>3. QED
    BY <1>3, <1>4, <1>7, <2>2 DEF Evaluate, d
<1>8. CASE RecordDenial
  <2>1. Entry("transfer", Guard, "deny", transfer.label, NoLabel) \in Record
    BY <1>1 DEF Effect
  <2>2. QED
    BY <1>2, <1>8, <2>1 DEF RecordDenial
<1>9. CASE RecordRelease
  <2>1. Entry("transfer", Guard, transfer.decision.effect, transfer.label,
              transfer.decision.label) \in Record
    BY <1>1 DEF Sealed
  <2>2. QED
    BY <1>2, <1>9, <2>1 DEF RecordRelease
<1>10. CASE RecordOpening
  <2>1. Entry("evaluate", receipt.reader, "evaluate", Sealed, NoLabel) \in Record
    BY <1>1, <1>10 DEF RecordOpening, Receiving, Typed
  <2>2. QED
    BY <1>2, <1>10, <2>1 DEF RecordOpening
<1>11. CASE EnforceAccess
  <2> DEFINE permitted == MayAccess(Attributes[receipt.reader], Sealed, setup.target)
             e == Entry("evaluate", Pep, IF permitted THEN "permit" ELSE "deny", Sealed,
                        IF permitted THEN Sealed ELSE NoLabel)
  <2>1. e \in Record
    BY <1>1 DEF Effect
  <2>2. RecordByPep(e) \/ UNCHANGED audit
    BY <1>11 DEF EnforceAccess
  <2> HIDE DEF e
  <2>3. QED
    BY <1>3, <1>4, <2>1, <2>2
<1>12. CASE RecordReceipt
  <2>1. Entry("transfer", receipt.reader, "permit", Sealed, NoLabel) \in Record
    BY <1>1, <1>12 DEF RecordReceipt, Receiving, Typed, Effect
  <2>2. QED
    BY <1>2, <1>12, <2>1 DEF RecordReceipt
<1>13. QED
  BY <1>4, <1>5, <1>6, <1>7, <1>8, <1>9, <1>10, <1>11, <1>12
     DEF Next, Submit, VerifyFails, Package, Deliver, OpenPackage, Unwrap

\* Types are kept: audit by the lemma, the two calls action by action.
LEMMA StepTyped ==
    ASSUME Typed, [Next]_vars
    PROVE  Typed'
<1>1. CASE UNCHANGED vars
  BY <1>1 DEF Typed, TypeOK, vars
<1> SUFFICES ASSUME Next PROVE Typed'
  BY <1>1
<1>2. audit' \in Seq(Record)
  BY AuditGrows, GrowingLogKeeps DEF Typed, TypeOK
<1>3. setup' = setup /\ setup \in Setup
  BY TransferAssumption
     DEF Typed, TypeOK, Next, Submit, RejectBinding, VerifyFails, RecordEvaluate, Evaluate,
         RecordDenial, Package, RecordRelease, Deliver, OpenPackage, RecordOpening,
         EnforceAccess, Unwrap, RecordReceipt, Transferring, Receiving
<1>4. ASSUME NEW from, Transferring(from),
             transfer' \in [at: Stage, label: Label, binding: Binding, verified: BOOLEAN,
                            decision: Decision]
      PROVE  Typed'
  BY <1>2, <1>4 DEF Transferring, Typed, TypeOK
<1>5. ASSUME NEW stage \in Stage, NEW from, Transferring(from),
             transfer' = [transfer EXCEPT !.at = stage]
      PROVE  Typed'
  <2>1. transfer' \in [at: Stage, label: Label, binding: Binding, verified: BOOLEAN,
                       decision: Decision]
    BY <1>5 DEF Typed, TypeOK
  <2>2. QED
    BY <1>4, <1>5, <2>1
<1>6. ASSUME NEW l \in Label, NEW binding \in Binding, NEW verified \in BOOLEAN,
             Submit(l, binding, verified)
      PROVE  Typed'
  <2>1. transfer' \in [at: Stage, label: Label, binding: Binding, verified: BOOLEAN,
                       decision: Decision]
    BY <1>6, Bottoms DEF Submit, Stage
  <2>2. QED
    BY <1>4, <1>6, <2>1 DEF Submit
<1>7. CASE RejectBinding
  BY <1>5, <1>7 DEF RejectBinding, Stage
<1>8. CASE VerifyFails
  BY <1>5, <1>8 DEF VerifyFails, Stage
<1>9. CASE RecordEvaluate
  BY <1>5, <1>9 DEF RecordEvaluate, Stage
<1>10. CASE Evaluate
  <2> DEFINE d == GuardDecision(transfer.label)
  <2>1. d \in Decision
    BY <1>3, GuardDecisionType DEF Typed, TypeOK
  <2>2. AfterDecision(d) \in Stage
    BY DEF AfterDecision, Stage
  <2> HIDE DEF d
  <2>3. transfer' = [transfer EXCEPT !.at = AfterDecision(d), !.decision = d]
    BY <1>10 DEF Evaluate, d
  <2>4. transfer' \in [at: Stage, label: Label, binding: Binding, verified: BOOLEAN,
                       decision: Decision]
    BY <2>1, <2>2, <2>3 DEF Typed, TypeOK
  <2>5. QED
    BY <1>4, <1>10, <2>4 DEF Evaluate
<1>11. CASE RecordDenial
  BY <1>5, <1>11 DEF RecordDenial, Stage
<1>12. CASE Package
  BY <1>5, <1>12 DEF Package, CallFails, Stage
<1>13. CASE RecordRelease
  BY <1>5, <1>13 DEF RecordRelease, Stage
<1>14. CASE Deliver
  BY <1>5, <1>14 DEF Deliver, CallFails, Stage
<1>15. ASSUME NEW r \in Reader, OpenPackage(r) PROVE Typed'
  BY <1>2, <1>15, TransferAssumption DEF OpenPackage, Receiving, Typed, TypeOK
<1>16. CASE RecordOpening
  BY <1>2, <1>16 DEF RecordOpening, Receiving, Typed, TypeOK
<1>17. CASE EnforceAccess
  <2> DEFINE permitted == MayAccess(Attributes[receipt.reader], Sealed, setup.target)
  <2>1. /\ receipt' = [receipt EXCEPT !.at = IF permitted THEN "unwrapping" ELSE "idle"]
        /\ receipt.at = "enforcing" /\ UNCHANGED <<setup, transfer, received, receipts>>
    BY <1>17 DEF EnforceAccess, Receiving
  <2> HIDE DEF permitted
  <2>2. QED
    BY <1>2, <2>1 DEF Typed, TypeOK
<1>18. CASE Unwrap
  <2>1. PICK next \in {"opening", "idle"} : receipt' = [receipt EXCEPT !.at = next]
    BY <1>18 DEF Unwrap
  <2>2. QED
    BY <1>2, <1>18, <2>1 DEF Unwrap, Receiving, Typed, TypeOK
<1>19. CASE RecordReceipt
  BY <1>2, <1>19 DEF RecordReceipt, Receiving, Typed, TypeOK
<1>20. QED
  BY <1>6, <1>7, <1>8, <1>9, <1>10, <1>11, <1>12, <1>13, <1>14, <1>15, <1>16, <1>17,
     <1>18, <1>19 DEF Next

\* The calls, the log and the counts keep their types (transfer.rs:31, 183).
THEOREM TypeCorrect == Spec => []TypeOK
<1>1. Typed => TypeOK
  BY DEF Typed
<1>2. QED
  BY <1>1, InitTyped, StepTyped, PTL DEF Spec

-----------------------------------------------------------------------------
(* What is released, and to whom it is given.                               *)

\* From packaging on, the decision is the guard's, and to release.
DecisionStands ==
    transfer.at \in {"packaging", "recording", "delivering", "released"} =>
        /\ transfer.decision = GuardDecision(transfer.label)
        /\ transfer.decision.effect \in Release

\* A receipt is under way, and a plaintext handed out, only after the release.
ReceiptAfterRelease ==
    receipt.at # "idle" \/ received # {} => transfer.at = "released"

\* Past the enforcement point there are only readers it let through.
PermittedReaders ==
    \A r \in Reader :
        (r \in received \/ (receipt.at \in {"unwrapping", "opening"} /\ receipt.reader = r))
            => MayAccess(Attributes[r], Sealed, setup.target)

DecisionInv == DecisionStands /\ ReceiptAfterRelease /\ PermittedReaders

\* At first nothing is decided, released or received (transfer.rs:42).
LEMMA InitDecision == Init => DecisionInv
  BY DEF Init, DecisionInv, DecisionStands, ReceiptAfterRelease, PermittedReaders

\* A step of the transfer finds nothing on the target side.
LEMMA TransferStepDecision ==
    ASSUME Typed, DecisionInv, NEW from \in Stage \ {"released"}, Transferring(from),
           transfer'.at \in {"packaging", "recording", "delivering", "released"} =>
              /\ transfer'.decision = GuardDecision(transfer'.label)
              /\ transfer'.decision.effect \in Release
    PROVE  DecisionInv'
<1>1. receipt.at = "idle" /\ received = {}
  BY DEF DecisionInv, ReceiptAfterRelease, Transferring
<1>2. UNCHANGED <<setup, receipt, received>>
  BY DEF Transferring
<1>3. GuardDecision(transfer.label)' = GuardDecision(transfer'.label)
  BY <1>2 DEF GuardDecision
<1>4. QED
  BY <1>1, <1>2, <1>3 DEF DecisionInv, DecisionStands, ReceiptAfterRelease, PermittedReaders

\* The decision on the label stands to the end, and the enforcement point is
\* passed only by those it permits (transfer.rs:84, package.rs:74).
LEMMA StepDecision ==
    ASSUME Typed, DecisionInv, [Next]_vars
    PROVE  DecisionInv'
<1>1. CASE UNCHANGED vars
  BY <1>1 DEF DecisionInv, DecisionStands, ReceiptAfterRelease, PermittedReaders, vars,
              GuardDecision, Sealed
<1> SUFFICES ASSUME Next PROVE DecisionInv'
  BY <1>1
<1>2. ASSUME NEW from \in Stage \ {"released"}, Transferring(from),
             transfer'.at \notin {"packaging", "recording", "delivering", "released"}
      PROVE  DecisionInv'
  BY <1>2, TransferStepDecision
<1>3. ASSUME NEW from \in {"packaging", "recording", "delivering"}, Transferring(from),
             NEW next, transfer' = [transfer EXCEPT !.at = next]
      PROVE  DecisionInv'
  <2>1. transfer.at = from /\ UNCHANGED setup
    BY <1>3 DEF Transferring
  <2>2. /\ transfer'.decision = GuardDecision(transfer'.label)
        /\ transfer'.decision.effect \in Release
    BY <1>3, <2>1 DEF DecisionInv, DecisionStands, Typed, TypeOK
  <2>3. from \in Stage \ {"released"}
    BY DEF Stage
  <2>4. QED
    BY <1>3, <2>2, <2>3, TransferStepDecision
<1>4. ASSUME NEW l \in Label, NEW binding \in Binding, NEW verified \in BOOLEAN,
             Submit(l, binding, verified)
      PROVE  DecisionInv'
  BY <1>2, <1>4 DEF Submit, Stage
<1>5. CASE RejectBinding \/ VerifyFails
  BY <1>2, <1>5 DEF RejectBinding, VerifyFails, Stage, Typed, TypeOK
<1>6. CASE RecordEvaluate
  BY <1>2, <1>6 DEF RecordEvaluate, Stage, Typed, TypeOK
<1>7. CASE Evaluate
  <2> DEFINE d == GuardDecision(transfer.label)
  <2>1. transfer' = [transfer EXCEPT !.at = AfterDecision(d), !.decision = d]
    BY <1>7 DEF Evaluate
  <2>2. d \in Decision
    BY TransferAssumption, GuardDecisionType DEF Typed, TypeOK
  <2> HIDE DEF d
  <2>3. transfer'.at = AfterDecision(d) /\ transfer'.decision = d
        /\ transfer'.label = transfer.label
    BY <2>1 DEF Typed, TypeOK
  <2>4. AfterDecision(d) \in {"packaging", "recording", "delivering", "released"}
            => d.effect \in Release
    BY <2>2 DEF AfterDecision, Decision, Effect, Release
  <2>5. Transferring("evaluating") /\ "evaluating" \in Stage \ {"released"}
    BY <1>7 DEF Evaluate, Stage
  <2>6. QED
    BY <2>3, <2>4, <2>5, TransferStepDecision DEF d
<1>8. CASE RecordDenial
  BY <1>2, <1>8 DEF RecordDenial, Stage, Typed, TypeOK
<1>9. CASE Package \/ RecordRelease \/ Deliver
  BY <1>3, <1>9 DEF Package, RecordRelease, Deliver
<1>10. ASSUME NEW r \in Reader, OpenPackage(r) PROVE DecisionInv'
  BY <1>10 DEF OpenPackage, Receiving, DecisionInv, DecisionStands, ReceiptAfterRelease,
               PermittedReaders, GuardDecision, Sealed
<1>11. ASSUME NEW from \in {"opened", "enforcing", "unwrapping", "opening"}, Receiving(from),
              NEW next \in {"idle", "enforcing", "unwrapping", "opening"},
              receipt' = [receipt EXCEPT !.at = next],
              \/ received' = received
              \/ from = "opening" /\ received' = received \cup {receipt.reader},
              next = "unwrapping" =>
                  MayAccess(Attributes[receipt.reader], Sealed, setup.target),
              next = "opening" => from = "unwrapping"
       PROVE  DecisionInv'
  <2>1. UNCHANGED <<setup, transfer>> /\ receipt.at = from
    BY <1>11 DEF Receiving
  <2>2. GuardDecision(transfer.label)' = GuardDecision(transfer.label)
    BY <2>1 DEF GuardDecision
  <2>3. transfer.at = "released"
    BY <2>1 DEF DecisionInv, ReceiptAfterRelease
  <2>4. DecisionStands' /\ ReceiptAfterRelease'
    BY <2>1, <2>2, <2>3 DEF DecisionInv, DecisionStands, ReceiptAfterRelease
  <2>5. receipt'.at = next /\ receipt'.reader = receipt.reader
    BY <1>11 DEF Typed, TypeOK
  <2>6. ASSUME NEW r \in Reader,
               r \in received' \/ (receipt'.at \in {"unwrapping", "opening"} /\ receipt'.reader = r)
        PROVE  MayAccess(Attributes[r], Sealed, setup.target)
    BY <1>11, <2>1, <2>5, <2>6 DEF DecisionInv, PermittedReaders
  <2>7. PermittedReaders'
    BY <2>1, <2>6 DEF PermittedReaders, Sealed
  <2>8. QED
    BY <2>4, <2>7 DEF DecisionInv
<1>12. CASE RecordOpening
  BY <1>11, <1>12 DEF RecordOpening
<1>13. CASE EnforceAccess
  <2> DEFINE permitted == MayAccess(Attributes[receipt.reader], Sealed, setup.target)
  <2>1. /\ receipt' = [receipt EXCEPT !.at = IF permitted THEN "unwrapping" ELSE "idle"]
        /\ Receiving("enforcing") /\ received' = received
    BY <1>13 DEF EnforceAccess
  <2> HIDE DEF permitted
  <2>2. QED
    BY <1>11, <2>1 DEF permitted
<1>14. CASE Unwrap
  <2>1. PICK next \in {"opening", "idle"} : receipt' = [receipt EXCEPT !.at = next]
    BY <1>14 DEF Unwrap
  <2>2. QED
    BY <1>11, <1>14, <2>1 DEF Unwrap
<1>15. CASE RecordReceipt
  BY <1>11, <1>15 DEF RecordReceipt
<1>16. QED
  BY <1>4, <1>5, <1>6, <1>7, <1>8, <1>9, <1>10, <1>12, <1>13, <1>14, <1>15 DEF Next

\* What is released satisfies the target (pdp.rs:80, 151).
LEMMA ReleasedFits ==
    ASSUME Typed, DecisionInv, transfer.at = "released"
    PROVE  /\ setup.target \in Domain /\ transfer.label \in Label /\ Sealed \in Label
           /\ ValidLabel(Sealed) /\ Sealed.caveats = {} /\ transfer.label.caveats = {}
           /\ setup.target.mission_compartments = {}
           /\ Sealed.releasable = transfer.label.releasable
           /\ ReleasableIn(Sealed, setup.target)
           /\ Sealed.classification <= setup.target.max_classification
           /\ \/ Sealed.classification = transfer.label.classification
              \/ Sealed.classification = setup.target.max_classification
<1>1. setup \in Setup /\ transfer.label \in Label /\ Sealed \in Label
  BY TransferAssumption DEF Typed, TypeOK, Sealed, Decision
<1>2. Sealed = GuardDecision(transfer.label).label
      /\ GuardDecision(transfer.label).effect \in Release
  BY DEF DecisionInv, DecisionStands, Sealed
<1>3. setup.target \in Domain
  BY <1>1 DEF Setup
<1>4. /\ ValidLabel(Sealed) /\ Sealed.caveats = {} /\ transfer.label.caveats = {}
      /\ setup.target.mission_compartments = {}
      /\ Sealed.releasable = transfer.label.releasable
      /\ ReleasableIn(transfer.label, setup.target)
      /\ Sealed.classification <= setup.target.max_classification
      /\ \/ Sealed.classification = transfer.label.classification
         \/ Sealed.classification = setup.target.max_classification
  BY <1>1, <1>2, GuardRelease
<1>5. QED
  BY <1>1, <1>3, <1>4 DEF ReleasableIn

\* The target's enforcement point refuses nobody a released label is for
\* (pdp.rs:80).
LEMMA DecisionReadable ==
    ASSUME Typed, DecisionInv
    PROVE  ReleaseIsReadable
<1> SUFFICES ASSUME transfer.at = "released", NEW s \in Subject,
                    Sealed.classification <= s.clearance,
                    s.nationality \in {None} \cup Sealed.releasable
             PROVE  MayAccess(s, Sealed, setup.target)
  BY DEF ReleaseIsReadable
<1>1. HoldsCaveats(s, Sealed)
  BY ReleasedFits DEF HoldsCaveats
<1>2. MissionAllows(s, {setup.target})
  BY ReleasedFits DEF MissionAllows
<1>3. NationalityAllows(s, Sealed, setup.target)
  BY ReleasedFits DEF NationalityAllows, ReleasableIn
<1>4. QED
  BY <1>1, <1>2, <1>3, ReleasedFits DEF MayAccess

\* Whom the enforcement point let through, the original label does not exclude
\* (pdp.rs:80, 178).
LEMMA DecisionRespectsOrigin ==
    ASSUME Typed, DecisionInv
    PROVE  ReceiptRespectsOrigin
<1> SUFFICES ASSUME NEW r \in received
             PROVE  LET s == Attributes[r]
                    IN  /\ HoldsCaveats(s, transfer.label)
                        /\ \/ s.nationality = None \/ transfer.label.releasable = {}
                           \/ s.nationality \in transfer.label.releasable
                        /\ \/ transfer.label.classification <= s.clearance
                           \/ setup.target.max_classification <= s.clearance
  BY DEF ReceiptRespectsOrigin
<1> DEFINE s == Attributes[r]
<1>1. transfer.at = "released" /\ r \in Reader
  BY DEF DecisionInv, ReceiptAfterRelease, Typed, TypeOK
<1>2. MayAccess(s, Sealed, setup.target)
  BY <1>1 DEF DecisionInv, PermittedReaders
<1>3. HoldsCaveats(s, transfer.label)
  BY <1>1, ReleasedFits DEF HoldsCaveats
<1>4. \/ s.nationality = None \/ transfer.label.releasable = {}
      \/ s.nationality \in transfer.label.releasable
  BY <1>1, <1>2, ReleasedFits DEF MayAccess, NationalityAllows
<1>5. \/ transfer.label.classification <= s.clearance
      \/ setup.target.max_classification <= s.clearance
  BY <1>1, <1>2, ReleasedFits DEF MayAccess
<1>6. QED
  BY <1>3, <1>4, <1>5

\* A released label is readable by those it is for: the decision to release and
\* the target's enforcement point, made of different checks, agree
\* (pdp.rs:80, 151).
THEOREM ReleaseReadable == Spec => []ReleaseIsReadable
<1>1. Typed /\ DecisionInv => ReleaseIsReadable
  BY DecisionReadable
<1>2. QED
  BY <1>1, InitTyped, StepTyped, InitDecision, StepDecision, PTL DEF Spec

\* No downgrade and no receipt gives the plaintext to someone the original label
\* excludes by caveat or country, or who is cleared neither for it nor for all
\* the target may hold (downgrade.rs:29, pdp.rs:178).
THEOREM OriginRespected == Spec => []ReceiptRespectsOrigin
<1>1. Typed /\ DecisionInv => ReceiptRespectsOrigin
  BY DecisionRespectsOrigin
<1>2. QED
  BY <1>1, InitTyped, StepTyped, InitDecision, StepDecision, PTL DEF Spec

-----------------------------------------------------------------------------
(* An accredited guard and its log.                                         *)

\* The guard's side: from the evaluation on it is on record, and from the record
\* of the release on that is.
GuardOnRecord ==
    /\ transfer.at \in {"evaluating", "denying", "packaging", "recording", "delivering",
                        "released"} => Evaluated(audit, Guard, transfer.label)
    /\ transfer.at \in {"delivering", "released"} =>
           Deed(audit, Guard, transfer.label, transfer.decision.effect, Sealed)

\* The target side: the reader past the opening, and whoever has the plaintext.
ReadersOnRecord ==
    /\ receipt.at \in {"enforcing", "unwrapping", "opening"} =>
           Evaluated(audit, receipt.reader, Sealed)
    /\ \A r \in received : Deed(audit, r, Sealed, "permit", NoLabel)

RecordInv == setup.accredited => GuardOnRecord /\ ReadersOnRecord

\* At first nothing needs to be on record (transfer.rs:42).
LEMMA InitRecord == Init => RecordInv
  BY DEF Init, RecordInv, GuardOnRecord, ReadersOnRecord

\* An accredited guard that goes on has made its record (transfer.rs:324).
LEMMA AccreditedRecords ==
    ASSUME setup.accredited, NEW e, NEW next, RecordAudit(e, next), next # "failed"
    PROVE  audit' = Append(audit, e)
  BY DEF RecordAudit

\* A step of the transfer finds no receipt and makes none.
LEMMA TransferStepRecord ==
    ASSUME DecisionInv, NEW from \in Stage \ {"released"}, Transferring(from),
           setup.accredited => GuardOnRecord'
    PROVE  RecordInv'
<1>1. receipt.at = "idle" /\ received = {} /\ UNCHANGED <<setup, receipt, received>>
  BY DEF DecisionInv, ReceiptAfterRelease, Transferring
<1>2. ReadersOnRecord'
  BY <1>1 DEF ReadersOnRecord
<1>3. QED
  BY <1>1, <1>2 DEF RecordInv

\* A step of the target side leaves the guard's records where they are.
LEMMA ReceiptStepRecord ==
    ASSUME Typed, RecordInv, Grows(audit, audit'), NEW from, Receiving(from),
           setup.accredited => ReadersOnRecord'
    PROVE  RecordInv'
<1>1. UNCHANGED <<setup, transfer>> /\ Sealed' = Sealed /\ audit \in Seq(Record)
  BY DEF Receiving, Sealed, Typed, TypeOK
<1>2. ASSUME setup.accredited PROVE GuardOnRecord'
  <2>1. GuardOnRecord
    BY <1>2 DEF RecordInv
  <2>2. /\ Evaluated(audit, Guard, transfer.label) => Evaluated(audit', Guard, transfer.label)
        /\ Deed(audit, Guard, transfer.label, transfer.decision.effect, Sealed) =>
               Deed(audit', Guard, transfer.label, transfer.decision.effect, Sealed)
    BY <1>1, GrowingLogKeeps
  <2>3. QED
    BY <1>1, <2>1, <2>2 DEF GuardOnRecord
<1>3. QED
  BY <1>1, <1>2 DEF RecordInv

\* What an accredited guard has done stays on record, and it does nothing more
\* before its record is taken (transfer.rs:324).
LEMMA StepRecord ==
    ASSUME Typed, DecisionInv, RecordInv, [Next]_vars
    PROVE  RecordInv'
<1>1. CASE UNCHANGED vars
  BY <1>1 DEF RecordInv, GuardOnRecord, ReadersOnRecord, vars, Sealed
<1> SUFFICES ASSUME Next PROVE RecordInv'
  BY <1>1
<1>2. audit \in Seq(Record) /\ Grows(audit, audit')
  BY AuditGrows DEF Typed, TypeOK
\* The transfer.
<1>3. ASSUME NEW from \in Stage \ {"released"}, Transferring(from),
             transfer'.at \in {"submitted", "failed", "denied"}
      PROVE  RecordInv'
  <2>1. GuardOnRecord'
    BY <1>3 DEF GuardOnRecord
  <2>2. QED
    BY <1>3, <2>1, TransferStepRecord
<1>4. ASSUME NEW from \in {"evaluating", "denying", "packaging"}, Transferring(from),
             transfer'.at \notin {"delivering", "released"}, transfer'.label = transfer.label
      PROVE  RecordInv'
  <2>1. ASSUME setup.accredited PROVE GuardOnRecord'
    <3>1. Evaluated(audit, Guard, transfer.label)
      BY <1>4, <2>1 DEF RecordInv, GuardOnRecord, Transferring
    <3>2. Evaluated(audit', Guard, transfer.label)
      BY <1>2, <3>1, GrowingLogKeeps
    <3>3. QED
      BY <1>4, <3>2 DEF GuardOnRecord
  <2>2. from \in Stage \ {"released"}
    BY DEF Stage
  <2>3. QED
    BY <1>4, <2>1, <2>2, TransferStepRecord
<1>5. ASSUME NEW l \in Label, NEW binding \in Binding, NEW verified \in BOOLEAN,
             Submit(l, binding, verified)
      PROVE  RecordInv'
  BY <1>3, <1>5 DEF Submit, Stage
<1>6. CASE RejectBinding \/ VerifyFails
  BY <1>3, <1>6 DEF RejectBinding, VerifyFails, Stage, Typed, TypeOK
<1>7. CASE RecordEvaluate
  <2> DEFINE e == Entry("evaluate", Guard, "evaluate", transfer.label, NoLabel)
  <2>1. PICK next \in {"ok", "failed"} :
            /\ RecordAudit(e, next)
            /\ transfer' = [transfer EXCEPT !.at = IF next = "ok" THEN "evaluating" ELSE "failed"]
    BY <1>7 DEF RecordEvaluate
  <2> HIDE DEF e
  <2>2. Transferring("submitted") /\ "submitted" \in Stage \ {"released"}
    BY <1>7 DEF RecordEvaluate, Stage
  <2>3. CASE next = "failed"
    BY <1>3, <2>1, <2>2, <2>3 DEF Typed, TypeOK
  <2>4. CASE next = "ok"
    <3>1. transfer'.at = "evaluating" /\ transfer'.label = transfer.label
      BY <2>1, <2>4 DEF Typed, TypeOK
    <3>2. ASSUME setup.accredited PROVE GuardOnRecord'
      <4>1. audit' = Append(audit, e)
        BY <2>1, <2>4, <3>2, AccreditedRecords
      <4>2. Evaluated(audit', Guard, transfer.label)
        BY <1>2, <4>1, AppendedEvaluation DEF e
      <4>3. QED
        BY <3>1, <4>2 DEF GuardOnRecord
    <3>3. QED
      BY <2>2, <3>2, TransferStepRecord
  <2>5. QED
    BY <2>3, <2>4
<1>8. CASE Evaluate
  <2> DEFINE d == GuardDecision(transfer.label)
  <2>1. transfer' = [transfer EXCEPT !.at = AfterDecision(d), !.decision = d]
    BY <1>8 DEF Evaluate
  <2> HIDE DEF d
  <2>2. transfer'.label = transfer.label /\ transfer'.at = AfterDecision(d)
    BY <2>1 DEF Typed, TypeOK
  <2>3. AfterDecision(d) \notin {"delivering", "released"}
    BY DEF AfterDecision
  <2>4. QED
    BY <1>4, <1>8, <2>2, <2>3 DEF Evaluate
<1>9. CASE RecordDenial
  BY <1>3, <1>9 DEF RecordDenial, Stage, Typed, TypeOK
<1>10. CASE Package
  <2>1. PICK next \in {"recording", "failed"} : transfer' = [transfer EXCEPT !.at = next]
    BY <1>10 DEF Package, CallFails
  <2>2. QED
    BY <1>4, <1>10, <2>1 DEF Package, Typed, TypeOK
<1>11. CASE RecordRelease
  <2> DEFINE e == Entry("transfer", Guard, transfer.decision.effect, transfer.label,
                        transfer.decision.label)
  <2>1. PICK next \in {"ok", "failed"} :
            /\ RecordAudit(e, next)
            /\ transfer' = [transfer EXCEPT !.at = IF next = "ok" THEN "delivering" ELSE "failed"]
    BY <1>11 DEF RecordRelease
  <2> HIDE DEF e
  <2>2. Transferring("recording") /\ "recording" \in Stage \ {"released"}
    BY <1>11 DEF RecordRelease, Stage
  <2>3. CASE next = "failed"
    BY <1>3, <2>1, <2>2, <2>3 DEF Typed, TypeOK
  <2>4. CASE next = "ok"
    <3>1. /\ transfer'.at = "delivering" /\ transfer'.label = transfer.label
          /\ transfer'.decision = transfer.decision
      BY <2>1, <2>4 DEF Typed, TypeOK
    <3>2. ASSUME setup.accredited PROVE GuardOnRecord'
      <4>1. audit' = Append(audit, e)
        BY <2>1, <2>4, <3>2, AccreditedRecords
      <4>2. Evaluated(audit, Guard, transfer.label)
        BY <2>2, <3>2 DEF RecordInv, GuardOnRecord, Transferring
      <4>3. Deed(audit', Guard, transfer.label, transfer.decision.effect,
                 transfer.decision.label)
        BY <1>2, <4>1, <4>2, AppendedDeed DEF e
      <4>4. Evaluated(audit', Guard, transfer.label)
        BY <1>2, <4>2, GrowingLogKeeps
      <4>5. QED
        BY <3>1, <4>3, <4>4 DEF GuardOnRecord, Sealed
    <3>3. QED
      BY <2>2, <3>2, TransferStepRecord
  <2>5. QED
    BY <2>3, <2>4
<1>12. CASE Deliver
  <2>1. PICK next \in {"released", "failed"} : transfer' = [transfer EXCEPT !.at = next]
    BY <1>12 DEF Deliver, CallFails
  <2>2. Transferring("delivering") /\ "delivering" \in Stage \ {"released"} /\ audit' = audit
    BY <1>12 DEF Deliver, Stage
  <2>3. transfer'.label = transfer.label /\ transfer'.decision = transfer.decision
    BY <2>1 DEF Typed, TypeOK
  <2>4. ASSUME setup.accredited PROVE GuardOnRecord'
    BY <2>2, <2>3, <2>4 DEF RecordInv, GuardOnRecord, Sealed, Transferring
  <2>5. QED
    BY <2>2, <2>4, TransferStepRecord
\* The target side.
<1>13. ASSUME NEW from, Receiving(from), received' = received,
              receipt'.at \in {"idle", "opened"}
       PROVE  RecordInv'
  <2>1. ASSUME setup.accredited PROVE ReadersOnRecord'
    <3>1. \A r \in received : Deed(audit, r, Sealed, "permit", NoLabel)
      BY <2>1 DEF RecordInv, ReadersOnRecord
    <3>2. \A r \in received : Deed(audit', r, Sealed, "permit", NoLabel)
      BY <1>2, <3>1, GrowingLogKeeps
    <3>3. QED
      BY <1>13, <3>2 DEF ReadersOnRecord, Receiving, Sealed
  <2>2. QED
    BY <1>2, <1>13, <2>1, ReceiptStepRecord
<1>14. ASSUME NEW from, Receiving(from), received' = received,
              receipt'.reader = receipt.reader,
              setup.accredited => Evaluated(audit', receipt.reader, Sealed)
       PROVE  RecordInv'
  <2>1. ASSUME setup.accredited PROVE ReadersOnRecord'
    <3>1. \A r \in received : Deed(audit, r, Sealed, "permit", NoLabel)
      BY <2>1 DEF RecordInv, ReadersOnRecord
    <3>2. \A r \in received : Deed(audit', r, Sealed, "permit", NoLabel)
      BY <1>2, <3>1, GrowingLogKeeps
    <3>3. QED
      BY <1>14, <2>1, <3>2 DEF ReadersOnRecord, Receiving, Sealed
  <2>2. QED
    BY <1>2, <1>14, <2>1, ReceiptStepRecord
<1>15. ASSUME NEW r \in Reader, OpenPackage(r) PROVE RecordInv'
  BY <1>13, <1>15 DEF OpenPackage
<1>16. CASE RecordOpening
  <2> DEFINE e == Entry("evaluate", receipt.reader, "evaluate", Sealed, NoLabel)
  <2>1. PICK next \in {"ok", "failed"} :
            /\ RecordAudit(e, next)
            /\ receipt' = [receipt EXCEPT !.at = IF next = "ok" THEN "enforcing" ELSE "idle"]
    BY <1>16 DEF RecordOpening
  <2> HIDE DEF e
  <2>2. Receiving("opened") /\ received' = received
    BY <1>16 DEF RecordOpening
  <2>3. CASE next = "failed"
    BY <1>13, <2>1, <2>2, <2>3 DEF Typed, TypeOK
  <2>4. CASE next = "ok"
    <3>1. receipt'.reader = receipt.reader
      BY <2>1 DEF Typed, TypeOK
    <3>2. ASSUME setup.accredited PROVE Evaluated(audit', receipt.reader, Sealed)
      <4>1. audit' = Append(audit, e)
        BY <2>1, <2>4, <3>2, AccreditedRecords
      <4>2. QED
        BY <1>2, <4>1, AppendedEvaluation DEF e
    <3>3. QED
      BY <1>14, <2>2, <3>1, <3>2
  <2>5. QED
    BY <2>3, <2>4
<1>17. ASSUME NEW from \in {"enforcing", "unwrapping"}, Receiving(from), received' = received,
              NEW next, receipt' = [receipt EXCEPT !.at = next]
       PROVE  RecordInv'
  <2>1. ASSUME setup.accredited PROVE Evaluated(audit', receipt.reader, Sealed)
    <3>1. Evaluated(audit, receipt.reader, Sealed)
      BY <1>17, <2>1 DEF RecordInv, ReadersOnRecord, Receiving
    <3>2. QED
      BY <1>2, <3>1, GrowingLogKeeps
  <2>2. receipt'.reader = receipt.reader
    BY <1>17 DEF Typed, TypeOK
  <2>3. QED
    BY <1>14, <1>17, <2>1, <2>2
<1>18. CASE EnforceAccess
  <2> DEFINE permitted == MayAccess(Attributes[receipt.reader], Sealed, setup.target)
  <2>1. /\ receipt' = [receipt EXCEPT !.at = IF permitted THEN "unwrapping" ELSE "idle"]
        /\ Receiving("enforcing") /\ received' = received
    BY <1>18 DEF EnforceAccess
  <2> HIDE DEF permitted
  <2>2. QED
    BY <1>17, <2>1
<1>19. CASE Unwrap
  BY <1>17, <1>19 DEF Unwrap
<1>20. CASE RecordReceipt
  <2> DEFINE e == Entry("transfer", receipt.reader, "permit", Sealed, NoLabel)
  <2>1. PICK next \in {"ok", "failed"} :
            /\ RecordAudit(e, next)
            /\ received' = IF next = "ok" THEN received \cup {receipt.reader} ELSE received
    BY <1>20 DEF RecordReceipt
  <2> HIDE DEF e
  <2>2. Receiving("opening") /\ receipt'.at = "idle"
    BY <1>20 DEF RecordReceipt, Typed, TypeOK
  <2>3. CASE next = "failed"
    BY <1>13, <2>1, <2>2, <2>3
  <2>4. CASE next = "ok"
    <3>1. ASSUME setup.accredited PROVE ReadersOnRecord'
      <4>1. audit' = Append(audit, e)
        BY <2>1, <2>4, <3>1, AccreditedRecords
      <4>2. /\ Evaluated(audit, receipt.reader, Sealed)
            /\ \A r \in received : Deed(audit, r, Sealed, "permit", NoLabel)
        BY <2>2, <3>1 DEF RecordInv, ReadersOnRecord, Receiving
      <4>3. Deed(audit', receipt.reader, Sealed, "permit", NoLabel)
        BY <1>2, <4>1, <4>2, AppendedDeed DEF e
      <4>4. \A r \in received : Deed(audit', r, Sealed, "permit", NoLabel)
        BY <1>2, <4>2, GrowingLogKeeps
      <4>5. Sealed' = Sealed
        BY <2>2 DEF Receiving, Sealed
      <4>6. QED
        BY <2>1, <2>2, <2>4, <4>3, <4>4, <4>5 DEF ReadersOnRecord
    <3>2. QED
      BY <1>2, <2>2, <3>1, ReceiptStepRecord
  <2>5. QED
    BY <2>3, <2>4
<1>21. QED
  BY <1>5, <1>6, <1>7, <1>8, <1>9, <1>10, <1>11, <1>12, <1>15, <1>16, <1>18, <1>19, <1>20
     DEF Next

\* An accredited guard hands out neither package nor plaintext without the
\* records of the evaluation and, after it, of the deed, whichever records and
\* calls fail (transfer.rs:75, 125, 200, 219, 324).
THEOREM AccreditedRecorded == Spec => []AccreditedIsRecorded
<1>1. RecordInv => AccreditedIsRecorded
  BY DEF RecordInv, GuardOnRecord, ReadersOnRecord, AccreditedIsRecorded, Recorded, Deed
<1>2. QED
  BY <1>1, InitTyped, StepTyped, InitDecision, StepDecision, InitRecord, StepRecord, PTL
     DEF Spec
=============================================================================
