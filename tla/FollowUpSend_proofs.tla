------------------------ MODULE FollowUpSend_proofs ------------------------
(***************************************************************************)
(* Proofs about FollowUpSend for every set of messages, proposals and      *)
(* requests: IInv is inductive, so at most one follow-up per anchor        *)
(* leaves; under the guard a follow-up never leaves beside a stored reply, *)
(* provided no writer outlasts its lease; and the module implements        *)
(* AtMostOnceSend.                                                         *)
(***************************************************************************)
EXTENDS FollowUpSend, TLAPS

LEMMA InitIInv == Init => IInv
  BY ConstantsAssumption DEF ConstantsAssumption, Init, IInv, TypeOK, HasTarget,
     LiveRowIsUnique, OneLiveRow, OwnerHoldsRow, OwnerIsUnique, OneFollowUpPerAnchor,
     DeliveryIsRecorded, OwnerKnowsOutcome, SendStatuses, LiveStatuses, NoRow, Steps,
     Owning, Guarded, Marks, Answered

\* What IInv says of the send rows survives a step that leaves rows and wire
\* alone and makes nobody an owner of what it did not own before.
LEMMA QuietStep ==
  ASSUME IInv, TypeOK', HasTarget', UNCHANGED <<row, deliveries>>,
         \A r \in Requests : pc'[r] \in Owning =>
             /\ pc[r] \in Owning /\ target'[r] = target[r]
             /\ \/ pc'[r] \in {pc[r], "markUncertain"}
                \/ pc[r] = "judge" /\ pc'[r] = "markSent"
                \/ pc[r] \notin Answered /\ pc'[r] \notin Answered
  PROVE  IInv'
<1>1. LiveRowIsUnique' /\ OneFollowUpPerAnchor' /\ DeliveryIsRecorded'
  BY DEF IInv, LiveRowIsUnique, OneLiveRow, OneFollowUpPerAnchor, DeliveryIsRecorded
<1>2. OwnerHoldsRow'
  BY DEF IInv, OwnerHoldsRow
<1>3. OwnerIsUnique'
  BY DEF IInv, OwnerIsUnique
<1>4. OwnerKnowsOutcome'
  <2> SUFFICES ASSUME NEW r \in Requests, pc'[r] \in Owning
               PROVE  /\ pc'[r] \notin Answered =>
                             deliveries'[AnchorOf[target'[r]]] = 0
                      /\ pc'[r] \in {"judge", "markSent"} =>
                             deliveries'[AnchorOf[target'[r]]] = 1
    BY DEF OwnerKnowsOutcome, Owning, Guarded
  <2> QED BY DEF IInv, OwnerKnowsOutcome, Answered
<1> QED BY <1>1, <1>2, <1>3, <1>4 DEF IInv

\* A request that only moves on with its proposal, to a step that asks the same
\* of the wire, is a quiet step; so is one that ends.
LEMMA MoveOnIInv ==
  ASSUME IInv, TypeOK', NEW r \in Requests, NEW step \in Steps, Goto(r, step),
         pc[r] # "idle", UNCHANGED <<row, target, deliveries>>,
         \/ step \notin Owning
         \/ pc[r] \in Owning /\ step = "markUncertain"
         \/ pc[r] = "judge" /\ step = "markSent"
         \/ pc[r] \in Owning \ Answered /\ step \notin Answered
  PROVE  IInv'
<1>1. /\ pc'[r] = step /\ \A s \in Requests : s # r => pc'[s] = pc[s]
  BY DEF IInv, TypeOK, Goto
<1>2. HasTarget'
  BY <1>1 DEF IInv, HasTarget
<1>3. ASSUME NEW s \in Requests, pc'[s] \in Owning
      PROVE  /\ pc[s] \in Owning /\ target'[s] = target[s]
             /\ \/ pc'[s] \in {pc[s], "markUncertain"}
                \/ pc[s] = "judge" /\ pc'[s] = "markSent"
                \/ pc[s] \notin Answered /\ pc'[s] \notin Answered
  <2>1. CASE s # r
    BY <1>1, <1>3, <2>1
  <2>2. CASE s = r
    BY <1>1, <1>3, <2>2 DEF Owning, Guarded
  <2> QED BY <2>1, <2>2
<1> QED BY <1>2, <1>3, QuietStep

LEMMA FinishIInv ==
  ASSUME IInv, TypeOK', NEW r \in Requests, Finish(r), UNCHANGED <<row, deliveries>>
  PROVE  IInv'
<1>1. /\ pc'[r] = "idle"
      /\ \A s \in Requests : s # r => pc'[s] = pc[s] /\ target'[s] = target[s]
  BY DEF IInv, TypeOK, Finish, Goto
<1>2. HasTarget'
  BY <1>1 DEF IInv, HasTarget
<1>3. \A s \in Requests : pc'[s] \in Owning => pc[s] = pc'[s] /\ target'[s] = target[s]
  BY <1>1 DEF Owning, Guarded, Marks
<1> QED BY <1>2, <1>3, QuietStep

\* What taking and clearing the guard write.
LEMMA GuardTypes ==
  ASSUME TypeOK, NEW h \in Requests \cup Messages, Take(h) \/ Release(h) \/ UNCHANGED guard
  PROVE  holder' \in Requests \cup Messages \cup {Nobody, Ghost} /\ lease' \in -1..TTL
<1>1. TTL \in Nat
  BY ConstantsAssumption DEF ConstantsAssumption
<1>2. CASE Take(h)
  BY <1>1, <1>2 DEF Take
<1>3. CASE Release(h)
  BY <1>1, <1>3 DEF TypeOK, Release, guard
<1>4. CASE UNCHANGED guard
  BY <1>4 DEF TypeOK, guard
<1> QED BY <1>2, <1>3, <1>4

LEMMA FinishTypes ==
  ASSUME TypeOK, NEW r \in Requests, Finish(r)
  PROVE  pc' \in [Requests -> Steps] /\ target' \in [Requests -> Proposals \cup {NoProposal}]
  BY DEF TypeOK, Finish, Goto, Steps

-----------------------------------------------------------------------------
(* Winning the row.                                                        *)

\* An attempt is opened on a row that is absent or FAILED: INSERT and retry.
LEMMA OpenAttemptIInv ==
  ASSUME IInv, NEW r \in Requests, pc[r] \in {"claim", "retry"},
         row[target[r]].status \in {"NONE", "FAILED"}, LiveIndexAdmits(target[r]),
         SetRow(target[r], "PENDING", FALSE), Goto(r, "begin"),
         UNCHANGED <<open, proposed, decision, guard, sync, target, beat, deliveries, crashes>>
  PROVE  IInv'
<1> USE ConstantsAssumption DEF ConstantsAssumption
<1> DEFINE p == target[r]
<1>1. p \in Proposals
  BY DEF IInv, HasTarget
<1>2. /\ row' \in [Proposals -> [status : SendStatuses, attempted : BOOLEAN]]
      /\ row'[p].status = "PENDING" /\ ~row'[p].attempted
      /\ \A q \in Proposals : q # p => row'[q] = row[q]
  BY <1>1 DEF IInv, TypeOK, SetRow, SendStatuses
<1>3. \A s \in Requests : pc[s] \in Owning => target[s] \in Proposals /\ target[s] # p
  BY DEF IInv, OwnerHoldsRow, HasTarget, Owning, Guarded, Marks
<1>4. \A s \in Requests : pc'[s] \in Owning => pc'[s] = pc[s]
  BY DEF IInv, TypeOK, Goto, Owning, Guarded, Marks
<1>5. TypeOK'
  BY <1>2 DEF IInv, TypeOK, Goto, Steps, guard
<1>6. HasTarget'
  BY <1>1 DEF IInv, TypeOK, HasTarget, Goto
<1>7. LiveRowIsUnique'
  BY <1>1, <1>2 DEF IInv, LiveRowIsUnique, OneLiveRow, LiveIndexAdmits
<1>8. OwnerHoldsRow' /\ OwnerIsUnique'
  BY <1>2, <1>3, <1>4 DEF IInv, OwnerHoldsRow, OwnerIsUnique
<1>9. OneFollowUpPerAnchor' /\ OwnerKnowsOutcome'
  BY <1>4 DEF IInv, OneFollowUpPerAnchor, OwnerKnowsOutcome, Owning, Guarded, Answered
<1>10. DeliveryIsRecorded'
  <2>1. \A q \in Proposals : row'[q].status = "SENT" => row[q].status = "SENT"
    BY <1>2
  <2>2. \A q \in Proposals : row[q].status \in LiveStatuses => row'[q] = row[q]
    BY <1>2 DEF LiveStatuses
  <2> HIDE DEF p
  <2>3. \A a \in Outbound : deliveries'[a] # 0 =>
          \E q \in Proposals : /\ AnchorOf[q] = a /\ row'[q].attempted
                               /\ row'[q].status \in LiveStatuses
    BY <2>2 DEF IInv, DeliveryIsRecorded
  <2>4. \A q \in Proposals : row'[q].status = "SENT" => deliveries'[AnchorOf[q]] = 1
    BY <2>1 DEF IInv, DeliveryIsRecorded
  <2> QED BY <2>3, <2>4 DEF DeliveryIsRecorded
<1> QED BY <1>5, <1>6, <1>7, <1>8, <1>9, <1>10 DEF IInv

LEMMA BeginIInv ==
  ASSUME IInv, NEW r \in Requests, BeginTransmission(r), BeginMatches(target[r])
  PROVE  IInv' /\ deliveries[AnchorOf[target[r]]] = 0
<1> USE ConstantsAssumption DEF ConstantsAssumption
<1> DEFINE p == target[r]
<1>1. p \in Proposals /\ AnchorOf[p] \in Outbound /\ pc[r] = "begin"
  BY DEF IInv, HasTarget, BeginTransmission
<1>2. /\ row' \in [Proposals -> [status : SendStatuses, attempted : BOOLEAN]]
      /\ row'[p].status = "PENDING" /\ row'[p].attempted
      /\ \A q \in Proposals : q # p => row'[q] = row[q]
  <2>1. row' = [row EXCEPT ![p] = [status |-> "PENDING", attempted |-> TRUE]]
    BY DEF BeginTransmission, SetRow
  <2> QED BY <1>1, <2>1 DEF IInv, TypeOK, SendStatuses
<1>3. row[p].status = "PENDING" /\ ~row[p].attempted
  BY DEF BeginMatches
<1>4. /\ pc'[r] = "lock" /\ \A s \in Requests : s # r => pc'[s] = pc[s]
      /\ UNCHANGED <<target, deliveries>>
  BY DEF IInv, TypeOK, BeginTransmission, Goto
<1>5. \A s \in Requests : pc[s] \in Owning => target[s] \in Proposals /\ target[s] # p
  BY <1>3 DEF IInv, OwnerHoldsRow, HasTarget, Owning, Guarded, Marks
<1>6. deliveries[AnchorOf[p]] = 0
  BY <1>1, <1>3 DEF IInv, DeliveryIsRecorded, LiveRowIsUnique, OneLiveRow, LiveStatuses
<1>7. TypeOK'
  BY <1>2 DEF BeginTransmission, IInv, TypeOK, Goto, Steps, guard
<1>8. HasTarget' /\ OneFollowUpPerAnchor'
  BY <1>1, <1>4 DEF IInv, HasTarget, OneFollowUpPerAnchor
<1>9. LiveRowIsUnique'
  BY <1>1, <1>2, <1>3 DEF IInv, LiveRowIsUnique, OneLiveRow, LiveStatuses
<1>10. OwnerHoldsRow' /\ OwnerIsUnique'
  BY <1>1, <1>2, <1>4, <1>5 DEF IInv, OwnerHoldsRow, OwnerIsUnique
<1>11. DeliveryIsRecorded'
  <2>1. \A q \in Proposals :
           /\ row'[q].status = row[q].status
           /\ row[q].attempted => row'[q].attempted
    BY <1>2, <1>3
  <2> QED BY <1>4, <2>1 DEF IInv, DeliveryIsRecorded
<1>12. OwnerKnowsOutcome'
  <2>1. \A s \in Requests : s # r => pc'[s] = pc[s] /\ target'[s] = target[s]
    BY <1>4
  <2> QED BY <1>4, <1>6, <2>1 DEF IInv, OwnerKnowsOutcome, Owning, Answered
<1> QED BY <1>6, <1>7, <1>8, <1>9, <1>10, <1>11, <1>12 DEF IInv

\* What a PENDING -> status update does to the send rows.
LEMMA MarkPendingFacts ==
  ASSUME TypeOK, NEW p \in Proposals, NEW status \in SendStatuses, MarkPending(p, status)
  PROVE  /\ row' \in [Proposals -> [status : SendStatuses, attempted : BOOLEAN]]
         /\ \A q \in Proposals : row'[q].attempted = row[q].attempted
         /\ \A q \in Proposals : q # p => row'[q] = row[q]
         /\ row'[p].status = IF row[p].status = "PENDING" THEN status ELSE row[p].status
<1>1. CASE row[p].status # "PENDING"
  BY <1>1 DEF TypeOK, MarkPending
<1>2. CASE row[p].status = "PENDING"
  <2>1. /\ row \in [Proposals -> [status : SendStatuses, attempted : BOOLEAN]]
        /\ row' = [row EXCEPT ![p].status = status]
    BY <1>2 DEF TypeOK, MarkPending
  <2>2. row'[p] = [row[p] EXCEPT !.status = status] /\ \A q \in Proposals : q # p => row'[q] = row[q]
    BY <2>1
  <2>3. /\ row'[p] \in [status : SendStatuses, attempted : BOOLEAN]
        /\ row'[p].status = status /\ row'[p].attempted = row[p].attempted
    BY <2>1, <2>2
  <2> QED BY <1>2, <2>1, <2>2, <2>3
<1> QED BY <1>1, <1>2

\* A request settles its proposal's row: FAILED only when it owns the attempt
\* and nothing left, SENT only when something did.
LEMMA SettleIInv ==
  ASSUME IInv, TypeOK', NEW r \in Requests, NEW status \in {"SENT", "FAILED", "UNCERTAIN"},
         pc[r] # "idle", MarkPending(target[r], status),
         Finish(r) \/ (Goto(r, "release") /\ UNCHANGED target),
         status = "SENT" => pc[r] = "markSent",
         status = "FAILED" => pc[r] = "markFailed",
         UNCHANGED deliveries
  PROVE  IInv'
<1> USE ConstantsAssumption DEF ConstantsAssumption
<1> DEFINE p == target[r]
<1>1. p \in Proposals
  BY DEF IInv, HasTarget
<1>2. /\ \A q \in Proposals : row'[q].attempted = row[q].attempted
      /\ \A q \in Proposals : q # p => row'[q] = row[q]
      /\ row'[p].status = IF row[p].status = "PENDING" THEN status ELSE row[p].status
  BY <1>1, MarkPendingFacts DEF IInv, SendStatuses
<1>3. /\ pc'[r] \in {"idle", "release"}
      /\ pc'[r] = "release" => UNCHANGED target
      /\ \A s \in Requests : s # r => pc'[s] = pc[s] /\ target'[s] = target[s]
  BY DEF IInv, TypeOK, Finish, Goto
<1>4. \A s \in Requests : pc'[s] \in Owning =>
          s # r /\ pc'[s] = pc[s] /\ target'[s] = target[s] /\ target[s] \in Proposals
  BY <1>3 DEF IInv, HasTarget, Owning, Guarded, Marks
<1>5. HasTarget'
  BY <1>1, <1>3 DEF IInv, HasTarget
<1>6. LiveRowIsUnique'
  BY <1>1, <1>2 DEF IInv, LiveRowIsUnique, OneLiveRow, LiveStatuses
<1>7. ASSUME NEW s \in Requests, pc'[s] \in Owning
      PROVE  row'[target'[s]].status \in {"PENDING", "UNCERTAIN"} /\ row'[target'[s]].attempted
  <2>1. target'[s] \in Proposals /\ pc[s] \in Owning /\ s # r /\ target'[s] = target[s]
    BY <1>4, <1>7
  <2>2. row[target[s]].status \in {"PENDING", "UNCERTAIN"} /\ row[target[s]].attempted
    BY <2>1 DEF IInv, OwnerHoldsRow
  <2>3. CASE status = "UNCERTAIN" \/ target[s] # p
    BY <1>1, <1>2, <2>1, <2>2, <2>3
  <2>4. CASE status # "UNCERTAIN" /\ target[s] = p
    <3>1. pc[r] \in Owning
      BY <2>4 DEF Owning, Guarded, Marks
    <3> QED BY <2>1, <2>4, <3>1 DEF IInv, OwnerIsUnique
  <2> QED BY <2>3, <2>4
<1>8. OwnerHoldsRow' /\ OwnerIsUnique'
  BY <1>4, <1>7 DEF IInv, OwnerHoldsRow, OwnerIsUnique
<1>9. OneFollowUpPerAnchor' /\ OwnerKnowsOutcome'
  BY <1>4 DEF IInv, OneFollowUpPerAnchor, OwnerKnowsOutcome, Owning, Guarded, Answered
<1>10. DeliveryIsRecorded'
  <2>1. status = "SENT" => deliveries[AnchorOf[p]] = 1
    BY DEF IInv, OwnerKnowsOutcome
  <2>2. status = "FAILED" => deliveries[AnchorOf[p]] = 0
    BY DEF IInv, OwnerKnowsOutcome, Owning, Marks, Answered
  <2>3. ASSUME NEW a \in Outbound, deliveries[a] # 0
        PROVE  \E q \in Proposals : /\ AnchorOf[q] = a /\ row'[q].attempted
                                    /\ row'[q].status \in LiveStatuses
    <3>1. PICK q \in Proposals : /\ AnchorOf[q] = a /\ row[q].attempted
                                 /\ row[q].status \in LiveStatuses
      BY <2>3 DEF IInv, DeliveryIsRecorded
    <3>2. row'[q].status \in LiveStatuses
      BY <1>2, <2>2, <2>3, <3>1 DEF LiveStatuses
    <3> QED BY <1>2, <3>1, <3>2
  <2>4. \A q \in Proposals : row'[q].status = "SENT" => deliveries[AnchorOf[q]] = 1
    BY <1>2, <2>1 DEF IInv, DeliveryIsRecorded
  <2> QED BY <2>3, <2>4 DEF DeliveryIsRecorded
<1> QED BY <1>5, <1>6, <1>8, <1>9, <1>10 DEF IInv

-----------------------------------------------------------------------------
(* The provider call, and every other step.                                *)

LEMMA TransmitIInv ==
  ASSUME IInv, NEW r \in Requests, NEW left \in BOOLEAN, NEW confirmed \in BOOLEAN,
         Transmit(r, left, confirmed)
  PROVE  IInv' /\ deliveries[AnchorOf[target[r]]] = 0
<1> USE ConstantsAssumption DEF ConstantsAssumption
<1> DEFINE p == target[r]
           a == AnchorOf[p]
<1>1. /\ p \in Proposals /\ a \in Outbound /\ pc[r] = "transmit" /\ pc[r] \in Owning
      /\ deliveries[a] = 0
  BY DEF Transmit, IInv, HasTarget, OwnerKnowsOutcome, Owning, Guarded, Answered
<1>2. UNCHANGED <<row, target>> /\ \A s \in Requests : s # r => pc'[s] = pc[s]
  BY DEF IInv, TypeOK, Transmit, Goto, tables
<1>3. /\ pc'[r] \in {"judge", "markUncertain", "markFailed"}
      /\ (pc'[r] = "judge" => left) /\ (pc'[r] = "markFailed" => ~left)
  BY DEF IInv, TypeOK, Transmit, Goto, AfterProvider
<1>4. row[p].status \in {"PENDING", "UNCERTAIN"} /\ row[p].attempted
  BY <1>1 DEF IInv, OwnerHoldsRow
<1>5. /\ deliveries' \in [Outbound -> Nat]
      /\ (left => deliveries'[a] = 1) /\ (~left => deliveries'[a] = 0)
      /\ \A b \in Outbound : b # a => deliveries'[b] = deliveries[b]
  BY <1>1 DEF IInv, TypeOK, Transmit
<1>6. TypeOK'
  BY <1>3, <1>5 DEF IInv, TypeOK, Transmit, Goto, AfterProvider, tables, guard, Steps, Guarded, Marks
<1>7. HasTarget' /\ LiveRowIsUnique' /\ OwnerHoldsRow' /\ OwnerIsUnique'
  BY <1>1, <1>2 DEF IInv, HasTarget, LiveRowIsUnique, OneLiveRow, OwnerHoldsRow, OwnerIsUnique
<1>8. OneFollowUpPerAnchor'
  BY <1>5 DEF IInv, OneFollowUpPerAnchor
<1>9. DeliveryIsRecorded'
  BY <1>1, <1>2, <1>4, <1>5 DEF IInv, DeliveryIsRecorded, LiveRowIsUnique, OneLiveRow, LiveStatuses
<1>10. ASSUME NEW s \in Requests \ {r}, pc[s] \in Owning
       PROVE  AnchorOf[target[s]] \in Outbound /\ AnchorOf[target[s]] # a
  <2>1. target[s] \in Proposals /\ row[target[s]].status \in {"PENDING", "UNCERTAIN"}
    BY <1>10 DEF IInv, HasTarget, OwnerHoldsRow, Owning, Guarded, Marks
  <2>2. target[s] # p
    BY <1>1, <1>10 DEF IInv, OwnerIsUnique
  <2> QED BY <1>1, <1>4, <2>1, <2>2 DEF IInv, LiveRowIsUnique, OneLiveRow, LiveStatuses
<1>11. OwnerKnowsOutcome'
  BY <1>1, <1>2, <1>3, <1>5, <1>10 DEF IInv, OwnerKnowsOutcome, Owning, Guarded, Answered
<1> QED BY <1>1, <1>6, <1>7, <1>8, <1>9, <1>11 DEF IInv

LEMMA ContendIInv ==
  ASSUME IInv, NEW r \in Requests, Contend(r)
  PROVE  IInv'
<1>1. CASE RefuseIfFollowedUp(r)
  <2>1. TypeOK'
    BY <1>1, FinishTypes DEF RefuseIfFollowedUp, IInv, TypeOK, Goto, Steps, tables, guard
  <2> QED BY <1>1, <2>1, FinishIInv, MoveOnIInv
          DEF RefuseIfFollowedUp, tables, Steps, Owning, Guarded, Marks
<1>2. CASE ClaimSendAttempt(r)
  <2> DEFINE p == target[r]
             next == IF row[p] # NoRow THEN StepFor(row[p])
                     ELSE IF LiveIndexAdmits(p) THEN "begin" ELSE "idle"
  <2>1. next \in {"retry", "begin", "reconcile", "idle"}
    BY DEF StepFor
  <2>2. CASE row[p] = NoRow /\ LiveIndexAdmits(p)
    <3>1. next = "begin" /\ row[p].status = "NONE"
      BY <2>2 DEF NoRow
    <3>2. /\ pc[r] = "claim" /\ SetRow(p, "PENDING", FALSE)
          /\ Goto(r, "begin") /\ UNCHANGED target
          /\ UNCHANGED <<open, proposed, decision, guard, sync, beat, deliveries, crashes>>
      BY <1>2, <2>2, <3>1 DEF ClaimSendAttempt
    <3> QED BY <2>2, <3>1, <3>2, OpenAttemptIInv
  <2>3. CASE ~(row[p] = NoRow /\ LiveIndexAdmits(p))
    <3>1. UNCHANGED row
      BY <1>2, <2>3 DEF ClaimSendAttempt
    <3>2. pc[r] = "claim" /\ (Finish(r) \/ (Goto(r, next) /\ UNCHANGED target))
      BY <1>2 DEF ClaimSendAttempt
    <3>3. UNCHANGED <<open, proposed, decision, guard, sync, beat, deliveries, crashes>>
      BY <1>2 DEF ClaimSendAttempt
    <3> HIDE DEF next
    <3>4. TypeOK'
      BY <2>1, <3>1, <3>2, <3>3, FinishTypes DEF IInv, TypeOK, Goto, Steps, guard
    <3> QED BY <2>1, <3>1, <3>2, <3>3, <3>4, FinishIInv, MoveOnIInv DEF Steps, Owning, Guarded, Marks
  <2> QED BY <2>2, <2>3
<1>3. CASE RetrySendAttempt(r)
  <2>1. CASE RetryMatches(target[r]) /\ LiveIndexAdmits(target[r])
    BY <1>3, <2>1, OpenAttemptIInv DEF RetrySendAttempt, RetryMatches
  <2>2. CASE ~(RetryMatches(target[r]) /\ LiveIndexAdmits(target[r]))
    <3>1. TypeOK'
      BY <1>3, <2>2, FinishTypes DEF RetrySendAttempt, IInv, TypeOK, guard
    <3> QED BY <1>3, <2>2, <3>1, FinishIInv DEF RetrySendAttempt
  <2> QED BY <2>1, <2>2
<1>4. CASE ReconcileStranded(r)
  <2>1. pc[r] = "reconcile" /\ target[r] \in Proposals
    BY <1>4 DEF ReconcileStranded, IInv, HasTarget
  <2>2. TypeOK'
    BY <1>4, <2>1, FinishTypes, MarkPendingFacts DEF ReconcileStranded, IInv, TypeOK, guard, SendStatuses
  <2> QED BY <1>4, <2>1, <2>2, SettleIInv DEF ReconcileStranded
<1>5. CASE BeginTransmission(r)
  <2>1. CASE ~BeginMatches(target[r])
    <3>1. TypeOK'
      BY <1>5, <2>1, FinishTypes DEF BeginTransmission, IInv, TypeOK, guard
    <3> QED BY <1>5, <2>1, <3>1, FinishIInv DEF BeginTransmission
  <2> QED BY <1>5, <2>1, BeginIInv
<1> QED BY <1>1, <1>2, <1>3, <1>4, <1>5 DEF Contend

\* The guarded section, but for the provider call and the verdict.
LEMMA GuardedIInv ==
  ASSUME IInv, NEW r \in Requests,
         \/ AcquireThreadLock(r) \/ ThreadLockTimeout(r) \/ Revalidate(r)
         \/ FailClosedIfReplyRaced(r) \/ Dispatch(r) \/ JudgeExclusivity(r)
  PROVE  IInv'
<1> USE ConstantsAssumption DEF ConstantsAssumption
<1>1. PICK step \in {"revalidate", "markFailed", "recheck", "dispatch", "transmit",
                     "markUncertain", "markSent"} :
        /\ Goto(r, step)
        /\ \/ pc[r] = "judge" /\ step \in {"markUncertain", "markSent"}
           \/ /\ pc[r] \in {"lock", "revalidate", "recheck", "dispatch"}
              /\ step \notin {"markUncertain", "markSent"}
  BY DEF AcquireThreadLock, ThreadLockTimeout, Revalidate, FailClosedIfReplyRaced, Dispatch,
     JudgeExclusivity
<1>2. UNCHANGED <<tables, sync, target, deliveries, crashes>>
  BY DEF AcquireThreadLock, ThreadLockTimeout, Revalidate, FailClosedIfReplyRaced, Dispatch,
     JudgeExclusivity
<1>3. /\ beat' \in [Requests -> {"off", "on", "lost"}]
      /\ holder' \in Requests \cup Messages \cup {Nobody, Ghost} /\ lease' \in -1..TTL
  <2>1. Take(r) \/ UNCHANGED guard
    BY DEF AcquireThreadLock, ThreadLockTimeout, Revalidate, FailClosedIfReplyRaced, Dispatch,
       JudgeExclusivity
  <2>2. beat' \in [Requests -> {"off", "on", "lost"}]
    BY DEF AcquireThreadLock, ThreadLockTimeout, Revalidate, FailClosedIfReplyRaced, Dispatch,
       JudgeExclusivity, IInv, TypeOK
  <2> QED BY <2>1, <2>2, GuardTypes DEF IInv
<1>4. TypeOK'
  BY <1>1, <1>2, <1>3 DEF IInv, TypeOK, Goto, tables, Steps, Guarded, Marks
<1> QED BY <1>1, <1>2, <1>4, MoveOnIInv DEF tables, Steps, Owning, Guarded, Marks, Answered

LEMMA MarkSendIInv ==
  ASSUME IInv, NEW r \in Requests, MarkSend(r)
  PROVE  IInv'
<1>1. /\ pc[r] \in {"markSent", "markFailed", "markUncertain"}
      /\ MarkPending(target[r], MarkFor(pc[r]))
      /\ Finish(r) \/ (Goto(r, "release") /\ UNCHANGED target)
      /\ UNCHANGED <<open, proposed, decision, guard, sync, beat, deliveries, crashes>>
  BY DEF MarkSend, Marks
<1>2. PICK status \in {"SENT", "FAILED", "UNCERTAIN"} :
        /\ status = MarkFor(pc[r])
        /\ status = "SENT" => pc[r] = "markSent"
        /\ status = "FAILED" => pc[r] = "markFailed"
  BY <1>1 DEF MarkFor
<1>3. target[r] \in Proposals
  BY <1>1 DEF IInv, HasTarget
<1>4. TypeOK'
  BY <1>1, <1>2, <1>3, FinishTypes, MarkPendingFacts DEF IInv, TypeOK, Goto, guard, Steps, SendStatuses
<1> QED BY <1>1, <1>2, <1>4, SettleIInv

LEMMA EndIInv ==
  ASSUME IInv, NEW r \in Requests, ReleaseThreadLock(r) \/ Raise(r) \/ CrashRequest(r)
  PROVE  IInv'
<1> USE ConstantsAssumption DEF ConstantsAssumption
<1>1. pc[r] # "idle" /\ (Finish(r) \/ (Goto(r, "release") /\ UNCHANGED target))
  BY DEF ReleaseThreadLock, Raise, CrashRequest, Guarded, Marks
<1>2. UNCHANGED <<tables, sync, deliveries>>
  BY DEF ReleaseThreadLock, Raise, CrashRequest, Dies
<1>3. /\ beat' \in [Requests -> {"off", "on", "lost"}] /\ crashes' \in 0..MaxCrashes
      /\ holder' \in Requests \cup Messages \cup {Nobody, Ghost} /\ lease' \in -1..TTL
  <2>1. CASE ReleaseThreadLock(r) \/ Raise(r)
    BY <2>1, GuardTypes DEF ReleaseThreadLock, Raise, IInv, TypeOK
  <2>2. CASE CrashRequest(r)
    BY <2>2 DEF CrashRequest, Dies, IInv, TypeOK
  <2> QED BY <2>1, <2>2
<1>4. TypeOK'
  BY <1>1, <1>2, <1>3, FinishTypes DEF IInv, TypeOK, Goto, tables, Steps
<1> QED BY <1>1, <1>2, <1>4, FinishIInv, MoveOnIInv DEF tables, Steps, Owning, Guarded, Marks

\* Nothing here touches a request's progress, a send row or the wire.
LEMMA EnvironmentIInv ==
  ASSUME IInv, TypeOK', UNCHANGED <<row, pc, target, deliveries>>
  PROVE  IInv'
  BY QuietStep DEF IInv, HasTarget

LEMMA NextIInv == IInv /\ [Next]_vars => IInv'
<1> SUFFICES ASSUME IInv, [Next]_vars PROVE IInv'
  OBVIOUS
<1> USE ConstantsAssumption DEF ConstantsAssumption
<1>1. CASE JobChanges \/ Tick \/ UNCHANGED vars
  <2>1. TypeOK'
    <3>1. CASE JobChanges
      BY <3>1 DEF JobChanges, IInv, TypeOK, guard
    <3>2. CASE Tick
      BY <3>2 DEF Tick, Live, IInv, TypeOK, tables
    <3>3. CASE UNCHANGED vars
      BY <3>3 DEF IInv, TypeOK, tables, guard, vars
    <3> QED BY <1>1, <3>1, <3>2, <3>3
  <2> QED BY <1>1, <2>1, EnvironmentIInv DEF JobChanges, Tick, tables, vars
<1>2. ASSUME NEW p \in Proposals, Evaluate(p) \/ \E d \in {"APPROVED", "REJECTED"} : Decide(p, d)
      PROVE  IInv'
  <2>1. TypeOK'
    BY <1>2 DEF Evaluate, Decide, IInv, TypeOK, guard
  <2> QED BY <1>2, <2>1, EnvironmentIInv DEF Evaluate, Decide
<1>3. ASSUME NEW p \in Proposals, NEW r \in Requests, SendStart(r, p)
      PROVE  IInv'
  <2>1. TypeOK' /\ HasTarget'
    BY <1>3 DEF SendStart, IInv, TypeOK, HasTarget, Goto, tables, guard, Steps
  <2>2. \A s \in Requests : pc'[s] \in Owning => pc'[s] = pc[s] /\ target'[s] = target[s]
    BY <1>3 DEF SendStart, IInv, TypeOK, Goto, Owning, Guarded, Marks
  <2> QED BY <1>3, <2>1, <2>2, QuietStep DEF SendStart, tables
<1>4. ASSUME NEW r \in Requests, Contend(r) \/ Guard(r) \/ Raise(r) \/ CrashRequest(r)
      PROVE  IInv'
  BY <1>4, ContendIInv, GuardedIInv, TransmitIInv, MarkSendIInv, EndIInv DEF Guard
<1>5. ASSUME NEW r \in Requests, NEW raises \in BOOLEAN, RenewThreadLock(r, raises)
      PROVE  IInv'
  <2>1. TypeOK'
    BY <1>5 DEF RenewThreadLock, RenewMatches, IInv, TypeOK, tables, guard
  <2> QED BY <1>5, <2>1, EnvironmentIInv DEF RenewThreadLock, tables
<1>6. ASSUME NEW m \in Messages, Sync(m) \/ CrashSync(m)
      PROVE  IInv'
  <2>1. TypeOK'
    <3>1. CASE Sync(m)
      <4>1. Take(m) \/ Release(m) \/ UNCHANGED guard
        BY <3>1 DEF Sync, SyncStart, SyncLocks, SyncTimesOut, InsertMessage, SyncReleases
      <4>2. sync' \in [Messages -> {"mailbox", "lock", "insert", "unlock", "stored"}]
        BY <3>1 DEF Sync, SyncStart, SyncLocks, SyncTimesOut, InsertMessage, SyncReleases, IInv, TypeOK
      <4>3. UNCHANGED <<tables, pc, target, beat, deliveries, crashes>>
        BY <3>1 DEF Sync, SyncStart, SyncLocks, SyncTimesOut, InsertMessage, SyncReleases
      <4> QED BY <4>1, <4>2, <4>3, GuardTypes DEF IInv, TypeOK, tables
    <3>2. CASE CrashSync(m)
      BY <3>2 DEF CrashSync, Dies, IInv, TypeOK, tables
    <3> QED BY <1>6, <3>1, <3>2
  <2> QED BY <1>6, <2>1, EnvironmentIInv DEF Sync, SyncStart, SyncLocks, SyncTimesOut,
          InsertMessage, SyncReleases, CrashSync, Dies, tables
<1> QED BY <1>1, <1>2, <1>3, <1>4, <1>5, <1>6 DEF Next

\* The invariant of the send rows, on which the theorems below rest.
THEOREM Invariance == Spec => []IInv
  BY InitIInv, NextIInv, PTL DEF Spec

\* Every variable keeps its type.
THEOREM TypeCorrect == Spec => []TypeOK
<1>1. IInv => TypeOK
  BY DEF IInv
<1> QED BY <1>1, Invariance, PTL

\* At most one follow-up per anchor reaches the wire, whatever the number of
\* proposals, of concurrent requests, of retries and of deaths.
THEOREM OneFollowUp == Spec => []OneFollowUpPerAnchor
<1>1. IInv => OneFollowUpPerAnchor
  BY DEF IInv
<1> QED BY <1>1, Invariance, PTL

\* SENT means that a follow-up left; when every row of the anchor is absent or
\* FAILED, none did.
THEOREM TruthfulStatus == Spec => []StatusTellsTheTruth
<1>1. IInv => StatusTellsTheTruth
  BY ConstantsAssumption
     DEF ConstantsAssumption, IInv, DeliveryIsRecorded, StatusTellsTheTruth, LiveStatuses
<1> QED BY <1>1, Invariance, PTL

-----------------------------------------------------------------------------
(* The guard: no follow-up after a reply, unless a writer may stall.       *)

\* A step that stores nothing, moves nobody up to the provider call and makes
\* nobody a live holder who was not keeps what the sender saw.
LEMMA ViewIsKept ==
  ASSUME SenderSeesThread, UNCHANGED Stored,
         \A r \in Requests :
             (pc'[r] \in {"dispatch", "transmit"} /\ holder' = r /\ Live') =>
                 /\ pc[r] \in {"dispatch", "transmit"} /\ holder = r /\ Live
                 /\ target'[r] = target[r]
  PROVE  SenderSeesThread'
  BY DEF SenderSeesThread, NothingRaced, Replied, Anchor

\* Who inserts holds a guard that lives until the insert is over.
LEMMA WriterKeepsGuard ==
  ASSUME IInv, WriterHoldsGuard, ~WriterMayStall, [Next]_vars
  PROVE  WriterHoldsGuard'
<1> USE ConstantsAssumption DEF ConstantsAssumption
<1>1. ASSUME NEW m \in Messages, sync'[m] = "insert", sync[m] = "insert",
             UNCHANGED guard
      PROVE  holder' = m /\ Live'
  BY <1>1 DEF WriterHoldsGuard, Live, guard
<1>2. CASE UNCHANGED <<sync, guard>>
  BY <1>2 DEF WriterHoldsGuard, Live, guard
<1>3. CASE Tick
  <2> SUFFICES ASSUME NEW m \in Messages, sync'[m] = "insert" PROVE holder' = m /\ Live'
    BY DEF WriterHoldsGuard
  <2>1. sync[m] = "insert" /\ holder' = holder
    BY <1>3 DEF Tick
  <2>2. holder = m /\ Live
    BY <2>1 DEF WriterHoldsGuard
  <2>3. lease > 0 /\ lease' = lease - 1 /\ lease \in Int
    BY <1>3, <2>1, <2>2 DEF Tick, IInv, TypeOK
  <2> QED BY <2>1, <2>2, <2>3 DEF Live
<1>4. ASSUME NEW r \in Requests, AcquireThreadLock(r) PROVE WriterHoldsGuard'
  <2>1. \A m \in Messages : sync[m] # "insert"
    BY <1>4 DEF AcquireThreadLock, Take, GuardIsFree, WriterHoldsGuard
  <2> QED BY <1>4, <2>1 DEF AcquireThreadLock, WriterHoldsGuard
<1>5. ASSUME NEW r \in Requests,
             ReleaseThreadLock(r) \/ CrashRequest(r)
                 \/ \E raises \in BOOLEAN : RenewThreadLock(r, raises)
      PROVE WriterHoldsGuard'
  <2>1. UNCHANGED sync /\ (holder = r \/ UNCHANGED guard)
    BY <1>5 DEF ReleaseThreadLock, Release, CrashRequest, Dies, RenewThreadLock, RenewMatches, guard
  <2>2. holder = r => \A m \in Messages : sync[m] # "insert"
    BY DEF WriterHoldsGuard
  <2> QED BY <2>1, <2>2, <1>2 DEF WriterHoldsGuard
<1>6. ASSUME NEW n \in Messages, Sync(n) \/ CrashSync(n) PROVE WriterHoldsGuard'
  <2>1. CASE SyncLocks(n)
    <3>1. \A m \in Messages : sync[m] # "insert"
      BY <2>1 DEF SyncLocks, Take, GuardIsFree, WriterHoldsGuard
    <3>2. \A m \in Messages : sync'[m] = "insert" => m = n
      BY <2>1, <3>1 DEF SyncLocks, IInv, TypeOK
    <3>3. holder' = n /\ lease' = TTL
      BY <2>1 DEF SyncLocks, Take
    <3> QED BY <3>2, <3>3 DEF WriterHoldsGuard, Live
  <2>2. CASE SyncStart(n) \/ SyncTimesOut(n) \/ InsertMessage(n)
    <3>1. UNCHANGED guard /\ \A m \in Messages : sync'[m] = "insert" => sync[m] = "insert"
      BY <2>2 DEF SyncStart, SyncTimesOut, InsertMessage, IInv, TypeOK
    <3> QED BY <3>1, <1>1 DEF WriterHoldsGuard
  <2>3. CASE SyncReleases(n) \/ CrashSync(n)
    <3>1. /\ sync'[n] # "insert"
          /\ \A m \in Messages : m # n => sync'[m] = sync[m]
      BY <2>3 DEF SyncReleases, CrashSync, IInv, TypeOK
    <3>2. holder = n \/ UNCHANGED guard
      BY <2>3 DEF SyncReleases, Release, CrashSync, Dies, guard
    <3>3. holder = n => \A m \in Messages : m # n => sync[m] # "insert"
      BY DEF WriterHoldsGuard
    <3> QED BY <3>1, <3>2, <3>3, <1>1 DEF WriterHoldsGuard
  <2> QED BY <1>6, <2>1, <2>2, <2>3 DEF Sync
<1>7. CASE \/ JobChanges \/ UNCHANGED vars
           \/ \E p \in Proposals : \/ Evaluate(p) \/ \E d \in {"APPROVED", "REJECTED"} : Decide(p, d)
                                    \/ \E r \in Requests : SendStart(r, p)
           \/ \E r \in Requests :
                  \/ Contend(r) \/ Raise(r) \/ ThreadLockTimeout(r) \/ Revalidate(r)
                  \/ FailClosedIfReplyRaced(r) \/ Dispatch(r) \/ JudgeExclusivity(r) \/ MarkSend(r)
                  \/ \E left, confirmed \in BOOLEAN : Transmit(r, left, confirmed)
  BY <1>2, <1>7 DEF JobChanges, vars, Evaluate, Decide, SendStart, Contend, RefuseIfFollowedUp,
     ClaimSendAttempt, RetrySendAttempt, ReconcileStranded, BeginTransmission, Raise,
     ThreadLockTimeout, Revalidate, FailClosedIfReplyRaced, Dispatch, JudgeExclusivity, MarkSend, Transmit
<1> QED BY <1>3, <1>4, <1>5, <1>6, <1>7 DEF Next, Guard

LEMMA StoredOnlyByInsert ==
  ASSUME TypeOK, [Next]_vars, \A m \in Messages : ~InsertMessage(m)
  PROVE  UNCHANGED Stored
<1>1. CASE UNCHANGED sync
  BY <1>1 DEF Stored
<1>2. ASSUME NEW n \in Messages, SyncStart(n) \/ SyncLocks(n) \/ SyncTimesOut(n) \/ SyncReleases(n) \/ CrashSync(n)
      PROVE  UNCHANGED Stored
  <2>1. \A m \in Messages : m # n => sync'[m] = sync[m]
    BY <1>2 DEF SyncStart, SyncLocks, SyncTimesOut, SyncReleases, CrashSync, TypeOK
  <2>2. sync'[n] \in {"unlock", "stored"} <=> sync[n] \in {"unlock", "stored"}
    BY <1>2 DEF SyncStart, SyncLocks, SyncTimesOut, SyncReleases, CrashSync, TypeOK
  <2> QED BY <2>1, <2>2 DEF Stored
<1>3. CASE \/ JobChanges \/ Tick \/ UNCHANGED vars
           \/ \E p \in Proposals : \/ Evaluate(p) \/ \E d \in {"APPROVED", "REJECTED"} : Decide(p, d)
                                    \/ \E r \in Requests : SendStart(r, p)
  BY <1>1, <1>3 DEF JobChanges, Tick, vars, Evaluate, Decide, SendStart
<1>4. ASSUME NEW r \in Requests, \/ Contend(r) \/ Guard(r) \/ Raise(r) \/ CrashRequest(r)
                                 \/ \E raises \in BOOLEAN : RenewThreadLock(r, raises)
      PROVE  UNCHANGED Stored
  BY <1>1, <1>4 DEF Contend, RefuseIfFollowedUp, ClaimSendAttempt, RetrySendAttempt, ReconcileStranded,
     BeginTransmission, Guard, AcquireThreadLock, ThreadLockTimeout, Revalidate,
     FailClosedIfReplyRaced, Dispatch, Transmit, JudgeExclusivity, MarkSend, ReleaseThreadLock, Raise,
     CrashRequest, RenewThreadLock
<1> QED BY <1>2, <1>3, <1>4 DEF Next, Sync

LEMMA SenderKeepsView ==
  ASSUME IInv, WriterHoldsGuard, SenderSeesThread, [Next]_vars
  PROVE  SenderSeesThread'
<1> USE ConstantsAssumption DEF ConstantsAssumption
<1> DEFINE Sending(step) == step \in {"dispatch", "transmit"}
<1>1. ASSUME NEW m \in Messages, InsertMessage(m) PROVE SenderSeesThread'
  <2>1. holder' = m /\ m \notin Requests
    BY <1>1 DEF InsertMessage, WriterHoldsGuard, guard
  <2> QED BY <2>1 DEF SenderSeesThread
<1>2. CASE \A m \in Messages : ~InsertMessage(m)
  <2>1. UNCHANGED Stored
    BY <1>2, StoredOnlyByInsert DEF IInv
  <2>2. ASSUME UNCHANGED <<pc, target>>,
               \A r \in Requests : holder' = r /\ Live' => holder = r /\ Live
        PROVE  SenderSeesThread'
    BY <2>1, <2>2, ViewIsKept
  <2>3. ASSUME NEW r \in Requests, UNCHANGED <<guard, target>>, NEW step \in Steps, Goto(r, step),
               Sending(step) => Sending(pc[r])
        PROVE  SenderSeesThread'
    <3>1. \A s \in Requests : Sending(pc'[s]) => Sending(pc[s])
      BY <2>3 DEF Goto, IInv, TypeOK
    <3> QED BY <2>1, <2>3, <3>1, ViewIsKept DEF guard, Live
  <2>4. ASSUME NEW r \in Requests, Finish(r),
               \A s \in Requests : holder' = s /\ Live' => holder = s /\ Live
        PROVE  SenderSeesThread'
    <3>1. \A s \in Requests : Sending(pc'[s]) => Sending(pc[s]) /\ target'[s] = target[s]
      BY <2>4 DEF Finish, Goto, IInv, TypeOK
    <3> QED BY <2>1, <2>4, <3>1, ViewIsKept
  <2>5. CASE \/ JobChanges \/ UNCHANGED vars \/ Tick
             \/ \E p \in Proposals : Evaluate(p) \/ \E d \in {"APPROVED", "REJECTED"} : Decide(p, d)
    <3>1. UNCHANGED <<pc, target, holder>> /\ lease' \in {lease, lease - 1} /\ lease \in Int
      BY <2>5 DEF JobChanges, vars, guard, Tick, Evaluate, Decide, IInv, TypeOK
    <3> QED BY <2>2, <3>1 DEF Live
  <2>6. ASSUME NEW p \in Proposals, NEW r \in Requests, SendStart(r, p) PROVE SenderSeesThread'
    <3>1. \A s \in Requests : Sending(pc'[s]) => Sending(pc[s]) /\ target'[s] = target[s]
      BY <2>6 DEF SendStart, Goto, IInv, TypeOK
    <3> QED BY <2>1, <2>6, <3>1, ViewIsKept DEF SendStart, guard, Live
  <2>7. ASSUME NEW r \in Requests, Contend(r) PROVE SenderSeesThread'
    <3>1. UNCHANGED guard /\ \/ Finish(r)
                             \/ /\ UNCHANGED target
                                /\ \E step \in {"claim", "retry", "begin", "reconcile", "lock"} : Goto(r, step)
      <4>1. StepFor(row[target[r]]) \in {"retry", "begin", "reconcile", "idle"}
        BY DEF StepFor
      <4> QED BY <2>7, <4>1 DEF Contend, RefuseIfFollowedUp, ClaimSendAttempt, RetrySendAttempt,
              ReconcileStranded, BeginTransmission
    <3>2. CASE Finish(r)
      BY <2>4, <3>1, <3>2 DEF guard, Live
    <3>3. CASE ~Finish(r)
      BY <2>3, <3>1, <3>3 DEF Steps, Guarded
    <3> QED BY <3>2, <3>3
  <2>8. ASSUME NEW r \in Requests, AcquireThreadLock(r) PROVE SenderSeesThread'
    <3>1. holder' = r /\ pc'[r] = "revalidate"
      BY <2>8 DEF AcquireThreadLock, Take, Goto, IInv, TypeOK
    <3> QED BY <3>1 DEF SenderSeesThread
  <2>9. ASSUME NEW r \in Requests, FailClosedIfReplyRaced(r) PROVE SenderSeesThread'
    <3>1. CASE NothingRaced(target[r])
      <4>1. /\ UNCHANGED <<guard, target>>
            /\ \A s \in Requests \ {r} : pc'[s] = pc[s]
        BY <2>9 DEF FailClosedIfReplyRaced, Goto, IInv, TypeOK
      <4>2. \A s \in Requests : (Sending(pc'[s]) /\ holder' = s /\ Live') => NothingRaced(target[s])
        BY <3>1, <4>1 DEF SenderSeesThread, guard, Live
      <4>3. \A s \in Requests : NothingRaced(target[s]) => NothingRaced(target[s])'
        BY <2>1, <4>1 DEF NothingRaced, Replied, Anchor
      <4> QED BY <4>1, <4>2, <4>3 DEF SenderSeesThread
    <3>2. CASE ~NothingRaced(target[r])
      BY <2>3, <2>9, <3>2 DEF FailClosedIfReplyRaced, Steps, Marks
    <3> QED BY <3>1, <3>2
  <2>10. ASSUME NEW r \in Requests,
                \/ ThreadLockTimeout(r) \/ Revalidate(r) \/ Dispatch(r) \/ JudgeExclusivity(r)
                \/ \E left, confirmed \in BOOLEAN : Transmit(r, left, confirmed)
         PROVE  SenderSeesThread'
    <3>1. PICK step \in {"markFailed", "recheck", "transmit", "judge", "markUncertain", "markSent"} :
             Goto(r, step) /\ (step = "transmit" => pc[r] = "dispatch")
      BY <2>10 DEF ThreadLockTimeout, Revalidate, Dispatch, JudgeExclusivity, Transmit, AfterProvider
    <3>2. UNCHANGED <<guard, target>>
      BY <2>10 DEF ThreadLockTimeout, Revalidate, Dispatch, JudgeExclusivity, Transmit, tables
    <3> QED BY <2>3, <3>1, <3>2 DEF Steps, Guarded, Marks
  <2>11. ASSUME NEW r \in Requests,
                MarkSend(r) \/ Raise(r) \/ ReleaseThreadLock(r) \/ CrashRequest(r)
         PROVE  SenderSeesThread'
    <3>1. \A s \in Requests : holder' = s /\ Live' => holder = s /\ Live
      BY <2>11 DEF MarkSend, Raise, ReleaseThreadLock, Release, CrashRequest, Dies, guard, Live
    <3>2. Finish(r) \/ (Goto(r, "release") /\ UNCHANGED <<guard, target>>)
      BY <2>11 DEF MarkSend, Raise, ReleaseThreadLock, CrashRequest
    <3> QED BY <2>3, <2>4, <3>1, <3>2 DEF Steps
  <2>12. ASSUME NEW r \in Requests, NEW raises \in BOOLEAN, RenewThreadLock(r, raises)
         PROVE  SenderSeesThread'
    <3>1. \A s \in Requests : holder' = s /\ Live' => holder = s /\ Live
      BY <2>12 DEF RenewThreadLock, RenewMatches, guard, Live
    <3> QED BY <2>2, <2>12, <3>1 DEF RenewThreadLock
  <2>13. ASSUME NEW m \in Messages, Sync(m) \/ CrashSync(m) PROVE SenderSeesThread'
    <3>1. \A s \in Requests : holder' = s /\ Live' => holder = s /\ Live
      BY <2>13 DEF Sync, SyncStart, SyncLocks, Take, SyncTimesOut, InsertMessage, SyncReleases,
         Release, CrashSync, Dies, guard, Live
    <3>2. UNCHANGED <<pc, target>>
      BY <2>13 DEF Sync, SyncStart, SyncLocks, SyncTimesOut, InsertMessage, SyncReleases, CrashSync
    <3> QED BY <2>2, <3>1, <3>2
  <2> QED BY <2>5, <2>6, <2>7, <2>8, <2>9, <2>10, <2>11, <2>12, <2>13 DEF Next, Guard
<1> QED BY <1>1, <1>2

LEMMA GuardInvariance == Spec => []GuardInv
<1>1. Init => GuardInv
  BY DEF Init, GuardInv, WriterHoldsGuard, SenderSeesThread
<1>2. IInv /\ GuardInv /\ [Next]_vars => GuardInv'
  BY WriterKeepsGuard, SenderKeepsView DEF GuardInv
<1> QED BY <1>1, <1>2, Invariance, PTL DEF Spec

\* While the sender's guard is live, its mail does not leave beside a stored
\* reply or after a newer mail of the candidate.  The hypothesis is the one the
\* run follow_up_stall shows to be needed: an insert ends within its lease.
THEOREM NoFollowUpBesideReply == ~WriterMayStall => (Spec => NoFollowUpAfterReply)
<1> SUFFICES ASSUME ~WriterMayStall PROVE Spec => NoFollowUpAfterReply
  OBVIOUS
<1> DEFINE Held == \A r \in Requests :
        (pc[r] = "transmit" /\ deliveries' # deliveries /\ pc'[r] # "transmit"
            /\ holder = r /\ Live) => NothingRaced(target[r])
<1>1. GuardInv => Held
  BY DEF GuardInv, SenderSeesThread
<1> QED BY <1>1, GuardInvariance, PTL DEF NoFollowUpAfterReply

-----------------------------------------------------------------------------
(* The module implements AtMostOnceSend, anchor by anchor.                 *)

Rows == [Proposals -> [status : SendStatuses, attempted : BOOLEAN]]

\* The fate one live send row stands for.
Fate(v) ==
    CASE v.status = "SENT"                    -> "sent"
      [] v.status = "UNCERTAIN"               -> "unknown"
      [] v.status = "PENDING" /\ v.attempted  -> "trying"
      [] OTHER                                -> "open"

LEMMA OutcomeOfLiveRow ==
  ASSUME NEW rows \in Rows, OneLiveRow(rows),
         NEW p \in Proposals, rows[p].status \in LiveStatuses
  PROVE  OutcomeIn(rows, AnchorOf[p]) = Fate(rows[p])
<1>1. \A q \in Proposals : AnchorOf[q] = AnchorOf[p] /\ rows[q].status \in LiveStatuses => q = p
  BY DEF OneLiveRow
<1>2. rows[p].attempted \in BOOLEAN
  BY DEF Rows
<1> QED BY <1>1, <1>2 DEF OutcomeIn, Fate, LiveStatuses

LEMMA OutcomeNow ==
  ASSUME IInv, NEW p \in Proposals, row[p].status \in LiveStatuses
  PROVE  OutcomeIn(row, AnchorOf[p]) = Fate(row[p])
<1>1. row \in Rows /\ OneLiveRow(row)
  BY DEF IInv, TypeOK, Rows, LiveRowIsUnique
<1> QED BY <1>1, OutcomeOfLiveRow

LEMMA OutcomeNext ==
  ASSUME IInv', NEW p \in Proposals, row'[p].status \in LiveStatuses
  PROVE  OutcomeIn(row', AnchorOf[p]) = Fate(row'[p])
<1>1. row' \in Rows /\ OneLiveRow(row')
  BY DEF IInv, TypeOK, Rows, LiveRowIsUnique
<1> QED BY <1>1, OutcomeOfLiveRow

LEMMA OutcomeWithoutLiveRow ==
  ASSUME NEW rows, NEW a,
         \A p \in Proposals : AnchorOf[p] = a => rows[p].status \notin LiveStatuses
  PROVE  OutcomeIn(rows, a) = "open"
  BY DEF OutcomeIn, LiveStatuses

\* A step that changes one send row and no delivery resolves one anchor.
LEMMA ResolveByRow ==
  ASSUME NEW p \in Proposals, NEW from, NEW to, UNCHANGED deliveries,
         \A q \in Proposals : q # p => row'[q] = row[q],
         OutcomeIn(row, AnchorOf[p]) = from, OutcomeIn(row', AnchorOf[p]) = to
  PROVE  /\ Promise!Resolve(AnchorOf[p], {from}, to)
         /\ from = to => UNCHANGED Promise!avars
<1>1. AnchorOf[p] \in Outbound
  BY ConstantsAssumption DEF ConstantsAssumption
<1>2. \A a \in Outbound : a # AnchorOf[p] => OutcomeIn(row', a) = OutcomeIn(row, a)
  BY DEF OutcomeIn
<1>3. [a \in Outbound |-> OutcomeIn(row', a)]
        = [[a \in Outbound |-> OutcomeIn(row, a)] EXCEPT ![AnchorOf[p]] = to]
  BY <1>1, <1>2
<1>4. from = to => [a \in Outbound |-> OutcomeIn(row', a)] = [a \in Outbound |-> OutcomeIn(row, a)]
  BY <1>2
<1> QED BY <1>1, <1>3, <1>4 DEF Promise!Resolve, Promise!avars

LEMMA SameRows ==
  ASSUME UNCHANGED <<row, deliveries>>
  PROVE  UNCHANGED Promise!avars
  BY DEF Promise!avars

LEMMA OpenAttemptRefines ==
  ASSUME IInv, IInv', NEW r \in Requests, pc[r] # "idle",
         row[target[r]].status \in {"NONE", "FAILED"}, LiveIndexAdmits(target[r]),
         SetRow(target[r], "PENDING", FALSE), UNCHANGED deliveries
  PROVE  UNCHANGED Promise!avars
<1> DEFINE p == target[r]
<1>1. p \in Proposals
  BY DEF IInv, HasTarget
<1>2. /\ row'[p] = [status |-> "PENDING", attempted |-> FALSE]
      /\ \A q \in Proposals : q # p => row'[q] = row[q]
  BY <1>1 DEF IInv, TypeOK, SetRow
<1>3. OutcomeIn(row, AnchorOf[p]) = "open"
  BY <1>1, OutcomeWithoutLiveRow DEF LiveIndexAdmits, LiveStatuses
<1>4. OutcomeIn(row', AnchorOf[p]) = "open"
  <2>1. row'[p].status \in LiveStatuses /\ Fate(row'[p]) = "open"
    BY <1>2 DEF LiveStatuses, Fate
  <2> QED BY <1>1, <2>1, OutcomeNext
<1> QED BY <1>1, <1>2, <1>3, <1>4, ResolveByRow

LEMMA BeginRefines ==
  ASSUME IInv, IInv', NEW r \in Requests, BeginTransmission(r), BeginMatches(target[r])
  PROVE  Promise!Begin(AnchorOf[target[r]])
<1> DEFINE p == target[r]
<1>1. p \in Proposals /\ UNCHANGED deliveries
  BY DEF IInv, HasTarget, BeginTransmission
<1>2. row' = [row EXCEPT ![p] = [status |-> "PENDING", attempted |-> TRUE]]
  BY DEF BeginTransmission, SetRow
<1>3. /\ row'[p] = [status |-> "PENDING", attempted |-> TRUE]
      /\ \A q \in Proposals : q # p => row'[q] = row[q]
  BY <1>1, <1>2 DEF IInv, TypeOK
<1>4. OutcomeIn(row, AnchorOf[p]) = "open"
  <2>1. row[p].status \in LiveStatuses /\ Fate(row[p]) = "open"
    BY DEF BeginMatches, LiveStatuses, Fate
  <2> QED BY <1>1, <2>1, OutcomeNow
<1>5. OutcomeIn(row', AnchorOf[p]) = "trying"
  <2>1. row'[p].status \in LiveStatuses /\ Fate(row'[p]) = "trying"
    BY <1>3 DEF LiveStatuses, Fate
  <2> QED BY <1>1, <2>1, OutcomeNext
<1>6. deliveries[AnchorOf[p]] = 0
  BY BeginIInv
<1> QED BY <1>1, <1>3, <1>4, <1>5, <1>6, ResolveByRow DEF Promise!Begin

LEMMA TransmitRefines ==
  ASSUME IInv, NEW r \in Requests, NEW left \in BOOLEAN, NEW confirmed \in BOOLEAN,
         Transmit(r, left, confirmed)
  PROVE  (\E a \in Outbound : Promise!Deliver(a)) \/ UNCHANGED Promise!avars
<1> DEFINE p == target[r]
<1>1. p \in Proposals /\ AnchorOf[p] \in Outbound /\ UNCHANGED row
  BY ConstantsAssumption DEF ConstantsAssumption, IInv, HasTarget, Transmit, tables
<1>2. CASE ~left
  BY <1>1, <1>2, SameRows DEF Transmit
<1>3. CASE left
  <2>1. deliveries[AnchorOf[p]] = 0
    BY TransmitIInv
  <2>2. deliveries' = [deliveries EXCEPT ![AnchorOf[p]] = 1]
    BY <1>1, <1>3, <2>1 DEF Transmit, IInv, TypeOK
  <2>3. row[p].status \in {"PENDING", "UNCERTAIN"} /\ row[p].attempted
    BY DEF Transmit, IInv, OwnerHoldsRow, Owning, Guarded
  <2>4. OutcomeIn(row, AnchorOf[p]) \in {"trying", "unknown"}
    BY <1>1, <2>3, OutcomeNow DEF LiveStatuses, Fate
  <2> QED BY <1>1, <2>1, <2>2, <2>4 DEF Promise!Deliver
<1> QED BY <1>2, <1>3

LEMMA SettleRefines ==
  ASSUME IInv, IInv', NEW r \in Requests, NEW status \in {"SENT", "FAILED", "UNCERTAIN"},
         pc[r] # "idle", MarkPending(target[r], status), UNCHANGED deliveries,
         status = "SENT" => pc[r] = "markSent",
         status = "FAILED" => pc[r] = "markFailed"
  PROVE  \/ \E a \in Outbound : Promise!Confirm(a) \/ Promise!Release(a) \/ Promise!LoseTrack(a)
         \/ UNCHANGED Promise!avars
<1> DEFINE p == target[r]
           a == AnchorOf[p]
<1>1. p \in Proposals /\ a \in Outbound
  BY ConstantsAssumption DEF ConstantsAssumption, IInv, HasTarget
<1>2. /\ \A q \in Proposals : row'[q].attempted = row[q].attempted
      /\ \A q \in Proposals : q # p => row'[q] = row[q]
      /\ row'[p].status = IF row[p].status = "PENDING" THEN status ELSE row[p].status
  BY <1>1, MarkPendingFacts DEF IInv, SendStatuses
<1>3. CASE row[p].status # "PENDING"
  BY <1>3, SameRows DEF MarkPending
<1>4. CASE row[p].status = "PENDING"
  <2>1. /\ row[p].attempted => OutcomeIn(row, a) = "trying"
        /\ OutcomeIn(row, a) \in {"open", "trying"}
    BY <1>1, <1>4, OutcomeNow DEF LiveStatuses, Fate
  <2>2. status # "UNCERTAIN" => row[p].attempted
    BY DEF IInv, OwnerHoldsRow, Owning, Guarded, Marks
  <2>3. CASE status = "SENT"
    <3>1. deliveries[a] = 1
      BY <2>3 DEF IInv, OwnerKnowsOutcome
    <3>2. OutcomeIn(row', a) = "sent"
      BY <1>1, <1>2, <1>4, <2>3, OutcomeNext DEF LiveStatuses, Fate
    <3> QED BY <1>1, <1>2, <2>1, <2>2, <2>3, <3>1, <3>2, ResolveByRow DEF Promise!Confirm
  <2>4. CASE status = "FAILED"
    <3>1. deliveries[a] = 0
      BY <2>4 DEF IInv, OwnerKnowsOutcome, Owning, Marks, Answered
    <3>2. \A q \in Proposals : AnchorOf[q] = a => row'[q].status \notin LiveStatuses
      BY <1>1, <1>2, <1>4, <2>4 DEF IInv, LiveRowIsUnique, OneLiveRow, LiveStatuses
    <3>3. OutcomeIn(row', a) = "open"
      BY <3>2, OutcomeWithoutLiveRow
    <3> QED BY <1>1, <1>2, <2>1, <2>2, <2>4, <3>1, <3>3, ResolveByRow DEF Promise!Release
  <2>5. CASE status = "UNCERTAIN"
    <3>1. OutcomeIn(row', a) = "unknown"
      BY <1>1, <1>2, <1>4, <2>5, OutcomeNext DEF LiveStatuses, Fate
    <3>2. Promise!Resolve(a, {OutcomeIn(row, a)}, "unknown")
      BY <1>1, <1>2, <3>1, ResolveByRow
    <3> QED BY <1>1, <2>1, <3>2 DEF Promise!LoseTrack, Promise!Resolve
  <2> QED BY <2>3, <2>4, <2>5
<1> QED BY <1>3, <1>4

LEMMA StepRefines ==
  ASSUME IInv, IInv', [Next]_vars
  PROVE  [Promise!ANext]_(Promise!avars)
<1>1. CASE UNCHANGED <<row, deliveries>>
  BY <1>1, SameRows
<1>2. ASSUME NEW r \in Requests, ClaimSendAttempt(r) \/ RetrySendAttempt(r)
      PROVE  UNCHANGED Promise!avars
  <2>1. CASE UNCHANGED row
    BY <1>2, <2>1, SameRows DEF ClaimSendAttempt, RetrySendAttempt
  <2>2. CASE ~UNCHANGED row
    <3>1. pc[r] # "idle" /\ UNCHANGED deliveries
      BY <1>2 DEF ClaimSendAttempt, RetrySendAttempt
    <3>2. CASE ClaimSendAttempt(r)
      <4>1. row[target[r]] = NoRow /\ LiveIndexAdmits(target[r]) /\ SetRow(target[r], "PENDING", FALSE)
        BY <2>2, <3>2 DEF ClaimSendAttempt
      <4>2. row[target[r]].status = "NONE"
        BY <4>1 DEF NoRow
      <4> QED BY <3>1, <4>1, <4>2, OpenAttemptRefines
    <3>3. CASE RetrySendAttempt(r)
      BY <2>2, <3>1, <3>3, OpenAttemptRefines DEF RetrySendAttempt, RetryMatches
    <3> QED BY <1>2, <3>2, <3>3
  <2> QED BY <2>1, <2>2
<1>3. ASSUME NEW r \in Requests, BeginTransmission(r)
      PROVE  Promise!ANext \/ UNCHANGED Promise!avars
  <2>1. CASE BeginMatches(target[r])
    <3>1. AnchorOf[target[r]] \in Outbound
      BY <1>3, ConstantsAssumption DEF ConstantsAssumption, BeginTransmission, IInv, HasTarget
    <3> QED BY <1>3, <2>1, <3>1, BeginRefines DEF Promise!ANext
  <2>2. CASE ~BeginMatches(target[r])
    BY <1>3, <2>2, SameRows DEF BeginTransmission
  <2> QED BY <2>1, <2>2
<1>4. ASSUME NEW r \in Requests, NEW left \in BOOLEAN, NEW confirmed \in BOOLEAN,
             Transmit(r, left, confirmed)
      PROVE  Promise!ANext \/ UNCHANGED Promise!avars
  BY <1>4, TransmitRefines DEF Promise!ANext
<1>5. ASSUME NEW r \in Requests, MarkSend(r) \/ ReconcileStranded(r)
      PROVE  Promise!ANext \/ UNCHANGED Promise!avars
  <2>1. /\ pc[r] # "idle" /\ UNCHANGED deliveries
        /\ \E status \in {"SENT", "FAILED", "UNCERTAIN"} :
              /\ MarkPending(target[r], status)
              /\ status = "SENT" => pc[r] = "markSent"
              /\ status = "FAILED" => pc[r] = "markFailed"
    BY <1>5 DEF MarkSend, MarkFor, Marks, ReconcileStranded
  <2> QED BY <2>1, SettleRefines DEF Promise!ANext
<1>6. CASE \/ JobChanges \/ Tick \/ UNCHANGED vars
           \/ \E p \in Proposals : \/ Evaluate(p) \/ \E d \in {"APPROVED", "REJECTED"} : Decide(p, d)
                                    \/ \E r \in Requests : SendStart(r, p)
           \/ \E m \in Messages : Sync(m) \/ CrashSync(m)
  BY <1>1, <1>6 DEF JobChanges, Tick, vars, tables, Evaluate, Decide, SendStart, Sync, SyncStart,
     SyncLocks, SyncTimesOut, InsertMessage, SyncReleases, CrashSync, Dies
<1>7. ASSUME NEW r \in Requests,
             \/ RefuseIfFollowedUp(r) \/ AcquireThreadLock(r) \/ ThreadLockTimeout(r) \/ Revalidate(r)
             \/ FailClosedIfReplyRaced(r) \/ Dispatch(r) \/ JudgeExclusivity(r)
             \/ ReleaseThreadLock(r) \/ Raise(r) \/ CrashRequest(r)
             \/ \E raises \in BOOLEAN : RenewThreadLock(r, raises)
      PROVE  UNCHANGED <<row, deliveries>>
  BY <1>7 DEF RefuseIfFollowedUp, AcquireThreadLock, ThreadLockTimeout, Revalidate,
     FailClosedIfReplyRaced, Dispatch, JudgeExclusivity, ReleaseThreadLock, Raise, CrashRequest,
     Dies, RenewThreadLock, tables
<1> QED BY <1>1, <1>2, <1>3, <1>4, <1>5, <1>6, <1>7 DEF Next, Contend, Guard

LEMMA InitRefines == Init => Promise!AInit
<1> SUFFICES ASSUME Init PROVE Promise!AInit
  OBVIOUS
<1>1. \A a \in Outbound : OutcomeIn(row, a) = "open"
  BY OutcomeWithoutLiveRow DEF Init, NoRow, LiveStatuses
<1> QED BY <1>1 DEF Init, Promise!AInit

\* Follow-ups keep the at-most-once promise, anchor by anchor: whatever a step
\* does is a step of the promise, or invisible to it.
THEOREM Refinement == Spec => KeepsPromise
  BY InitRefines, StepRefines, Invariance, PTL DEF Spec, KeepsPromise, Promise!ASpec

=============================================================================
