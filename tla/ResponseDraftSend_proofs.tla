---------------------- MODULE ResponseDraftSend_proofs ----------------------
(***************************************************************************)
(* Proofs about ResponseDraftSend for every set of drafts, messages and    *)
(* requests: the invariant IInv is inductive, so at most one reply per     *)
(* message leaves, and only an approved one; and the module implements     *)
(* AtMostOnceSend.                                                         *)
(***************************************************************************)
EXTENDS ResponseDraftSend, TLAPS

LEMMA InitIInv == Init => IInv
  BY ConstantsAssumption DEF Init, IInv, TypeOK, LiveRowIsUnique, OneLiveRow, OwnerHoldsRow,
     OwnerIsUnique, AtMostOneReply, MailedIsRecorded, OwnerKnowsOutcome,
     RequestIsApproved, SentAsApproved, DraftStatuses, SendRows, NoRow, SendStatuses,
     Approvals, NoApproval, Decisions, Steps, Owning, LiveStatuses, Sending

\* A step that leaves the send rows and the wire alone, makes nobody an owner
\* and keeps what was approved preserves the invariant, once its locals do.
LEMMA QuietStep ==
  ASSUME IInv, TypeOK', RequestIsApproved', UNCHANGED <<row, outside>>,
         \A r \in Requests : pc'[r] \in Owning =>
             /\ pc[r] \in Owning /\ target'[r] = target[r]
             /\ pc'[r] \in {pc[r], "markUncertain"},
         \A d \in Drafts : approval[d].decision = "APPROVED" => approval'[d] = approval[d]
  PROVE  IInv'
<1>1. LiveRowIsUnique' /\ AtMostOneReply' /\ MailedIsRecorded'
  BY DEF IInv, LiveRowIsUnique, OneLiveRow, AtMostOneReply, MailedIsRecorded, outside
<1>2. OwnerHoldsRow'
  BY DEF IInv, OwnerHoldsRow
<1>3. OwnerIsUnique'
  BY DEF IInv, OwnerIsUnique
<1>4. OwnerKnowsOutcome'
  BY DEF IInv, OwnerKnowsOutcome, Owning, outside
<1>5. SentAsApproved'
  <2> SUFFICES ASSUME NEW x \in mailed
               PROVE  approval'[x.draft] = [decision |-> "APPROVED", to |-> x.to]
    BY DEF SentAsApproved, outside
  <2>1. approval[x.draft] = [decision |-> "APPROVED", to |-> x.to]
    BY DEF IInv, SentAsApproved
  <2>2. approval[x.draft].decision = "APPROVED" /\ x.draft \in Drafts
    BY <2>1 DEF IInv, TypeOK
  <2> QED BY <2>1, <2>2
<1> QED BY <1>1, <1>2, <1>3, <1>4, <1>5 DEF IInv

LEMMA FinishIsQuiet ==
  ASSUME IInv, NEW r \in Requests, Finish(r),
         UNCHANGED <<tables, outside>>, crashes' \in Nat
  PROVE  IInv'
<1>1. TypeOK'
  BY DEF IInv, TypeOK, Finish, Goto, tables, outside, Steps, SendRows, NoRow, SendStatuses
<1>2. RequestIsApproved'
  BY DEF IInv, TypeOK, RequestIsApproved, Finish, Goto, tables, Sending, Owning
<1>3. \A s \in Requests : pc'[s] \in Owning => pc'[s] = pc[s] /\ target'[s] = target[s]
  BY DEF IInv, TypeOK, Finish, Goto, Owning
<1> QED BY <1>1, <1>2, <1>3, QuietStep DEF tables

LEMMA BeginIInv ==
  ASSUME IInv, NEW r \in Requests, BeginTransmission(r)
  PROVE  IInv'
<1> USE ConstantsAssumption
<1> DEFINE d == target[r]
<1>1. d \in Drafts /\ pc[r] = "begin"
  BY DEF IInv, RequestIsApproved, BeginTransmission
<1>2. CASE ~BeginMatches(d)
  BY <1>1, <1>2, FinishIsQuiet DEF BeginTransmission, IInv, TypeOK, tables
<1>3. CASE BeginMatches(d)
  <2>0. /\ row' \in [Drafts -> SendRows]
        /\ row'[d].status = row[d].status /\ row'[d].attempted
        /\ \A e \in Drafts : e # d => row'[e] = row[e]
    <3>1. row \in [Drafts -> SendRows] /\ row' = [row EXCEPT ![d].attempted = TRUE]
      BY <1>3 DEF BeginTransmission, IInv, TypeOK
    <3>2. row'[d] = [row[d] EXCEPT !.attempted = TRUE]
      BY <1>1, <3>1
    <3>3. row'[d] \in SendRows /\ row'[d].status = row[d].status /\ row'[d].attempted
      BY <1>1, <3>1, <3>2 DEF SendRows
    <3> QED BY <1>1, <3>1, <3>3
  <2>1. TypeOK'
    BY <1>1, <1>3, <2>0 DEF BeginTransmission, IInv, TypeOK, Goto, Steps, Owning, outside
  <2>2. LiveRowIsUnique'
    BY <1>1, <2>0 DEF IInv, LiveRowIsUnique, OneLiveRow
  <2>3. OwnerHoldsRow'
    BY <1>1, <1>3, <2>0 DEF BeginTransmission, BeginMatches, IInv, TypeOK, Goto,
       OwnerHoldsRow, RequestIsApproved, Owning
  <2>4. OwnerIsUnique'
    BY <1>1, <1>3 DEF BeginTransmission, BeginMatches, IInv, TypeOK, Goto,
       OwnerHoldsRow, OwnerIsUnique, Owning
  <2>5. AtMostOneReply' /\ SentAsApproved'
    BY DEF BeginTransmission, IInv, AtMostOneReply, SentAsApproved, outside
  <2>6. MailedIsRecorded'
    BY <1>1, <2>0 DEF BeginTransmission, IInv, TypeOK, MailedIsRecorded, outside
  <2>7. deliveries[MessageOf[d]] = 0
    BY <1>1, <1>3 DEF BeginMatches, IInv, TypeOK, MailedIsRecorded, LiveRowIsUnique, OneLiveRow, LiveStatuses
  <2>8. OwnerKnowsOutcome'
    BY <1>1, <1>3, <2>7 DEF BeginTransmission, IInv, TypeOK, Goto, OwnerKnowsOutcome, outside
  <2>9. RequestIsApproved'
    BY <1>1, <1>3 DEF BeginTransmission, IInv, TypeOK, Goto, RequestIsApproved, Sending, Owning
  <2> QED BY <2>1, <2>2, <2>3, <2>4, <2>5, <2>6, <2>8, <2>9 DEF IInv
<1> QED BY <1>2, <1>3

\* An attempt is opened on a row that is absent or FAILED: INSERT and retry.
LEMMA OpenAttemptIInv ==
  ASSUME IInv, NEW r \in Requests, pc[r] \in {"claim", "retry"},
         row[target[r]].status \in {"NONE", "FAILED"}, LiveIndexAdmits(target[r]),
         row' = [row EXCEPT ![target[r]] = [status |-> "PENDING", attempted |-> FALSE]],
         Goto(r, "begin"),
         UNCHANGED <<draftStatus, current, sender, approval, target, seen, pinned,
                     outside, crashes>>
  PROVE  IInv'
<1> USE ConstantsAssumption
<1> DEFINE d == target[r]
<1>1. d \in Drafts
  BY DEF IInv, RequestIsApproved
<1>2. /\ row' \in [Drafts -> SendRows]
      /\ row'[d].status = "PENDING" /\ ~row'[d].attempted
      /\ \A e \in Drafts : e # d => row'[e] = row[e]
  BY <1>1 DEF IInv, TypeOK, SendRows, SendStatuses
<1>3. \A s \in Requests : pc[s] \in Owning => target[s] \in Drafts /\ target[s] # d
  BY DEF IInv, OwnerHoldsRow, RequestIsApproved, Owning
<1>4. \A s \in Requests : pc'[s] \in Owning => pc'[s] = pc[s]
  BY DEF IInv, TypeOK, Goto, Owning
<1>5. TypeOK'
  BY <1>2 DEF IInv, TypeOK, Goto, Steps, outside
<1>6. LiveRowIsUnique'
  BY <1>1, <1>2 DEF IInv, LiveRowIsUnique, OneLiveRow, LiveIndexAdmits, OtherRevisionHasLiveSend
<1>7. OwnerHoldsRow' /\ OwnerIsUnique'
  BY <1>2, <1>3, <1>4 DEF IInv, OwnerHoldsRow, OwnerIsUnique
<1>8. AtMostOneReply' /\ SentAsApproved'
  BY DEF IInv, AtMostOneReply, SentAsApproved, outside
<1>9. \A x \in mailed : x.draft \in Drafts /\ x.draft # d
  BY DEF IInv, TypeOK, MailedIsRecorded, LiveStatuses
<1>10. MailedIsRecorded'
  BY <1>1, <1>2, <1>9 DEF IInv, MailedIsRecorded, outside
<1>11. OwnerKnowsOutcome'
  BY <1>4 DEF IInv, OwnerKnowsOutcome, Owning, outside
<1>12. RequestIsApproved'
  BY DEF IInv, TypeOK, Goto, RequestIsApproved, Sending, Owning
<1> QED BY <1>5, <1>6, <1>7, <1>8, <1>10, <1>11, <1>12 DEF IInv

\* What a PENDING -> status update does to the send rows.
LEMMA MarkPendingFacts ==
  ASSUME TypeOK, NEW d \in Drafts, NEW status \in SendStatuses, MarkPending(d, status)
  PROVE  /\ row' \in [Drafts -> SendRows]
         /\ \A e \in Drafts : row'[e].attempted = row[e].attempted
         /\ \A e \in Drafts : e # d => row'[e] = row[e]
         /\ row'[d].status = IF row[d].status = "PENDING" THEN status ELSE row[d].status
<1>1. CASE row[d].status # "PENDING"
  BY <1>1 DEF TypeOK, MarkPending
<1>2. CASE row[d].status = "PENDING"
  <2>1. row \in [Drafts -> SendRows] /\ row' = [row EXCEPT ![d].status = status]
    BY <1>2 DEF TypeOK, MarkPending, SetStatus
  <2>2. row'[d] = [row[d] EXCEPT !.status = status]
    BY <2>1
  <2>3. row'[d] \in SendRows /\ row'[d].status = status /\ row'[d].attempted = row[d].attempted
    BY <2>1, <2>2 DEF SendRows
  <2>4. \A e \in Drafts : e # d => row'[e] = row[e]
    BY <2>1
  <2> QED BY <1>2, <2>1, <2>3, <2>4
<1> QED BY <1>1, <1>2

\* A request settles its draft's row and returns; FAILED only when it owns the
\* attempt and nothing left, SENT only when something did.
LEMMA SettleIInv ==
  ASSUME IInv, NEW r \in Requests, NEW status \in {"SENT", "FAILED", "UNCERTAIN"},
         pc[r] # "idle", MarkPending(target[r], status), Finish(r),
         status = "SENT" => pc[r] = "markSent",
         status = "FAILED" => pc[r] = "markFailed",
         UNCHANGED <<draftStatus, current, sender, approval, outside, crashes>>
  PROVE  IInv'
<1> USE ConstantsAssumption
<1> DEFINE d == target[r]
<1>1. d \in Drafts
  BY DEF IInv, RequestIsApproved
<1>2. /\ row' \in [Drafts -> SendRows]
      /\ \A e \in Drafts : row'[e].attempted = row[e].attempted
      /\ \A e \in Drafts : e # d => row'[e] = row[e]
      /\ row'[d].status = IF row[d].status = "PENDING" THEN status ELSE row[d].status
  BY <1>1, MarkPendingFacts DEF IInv, SendStatuses
<1>3. \A s \in Requests : pc'[s] \in Owning => s # r /\ pc'[s] = pc[s] /\ target'[s] = target[s]
  BY DEF IInv, TypeOK, Finish, Goto, Owning
<1>4. \A s \in Requests : pc[s] \in Owning => target[s] \in Drafts
  BY DEF IInv, RequestIsApproved, Owning
<1>5. TypeOK'
  BY <1>2 DEF IInv, TypeOK, Finish, Goto, Steps, SendRows, NoRow, SendStatuses, outside
<1>6. LiveRowIsUnique'
  BY <1>1, <1>2 DEF IInv, LiveRowIsUnique, OneLiveRow, LiveStatuses
<1>7. ASSUME NEW s \in Requests, pc'[s] \in Owning
      PROVE  row'[target'[s]].status \in {"PENDING", "UNCERTAIN"} /\ row'[target'[s]].attempted
  <2>1. target'[s] \in Drafts /\ pc[s] \in Owning /\ s # r /\ target'[s] = target[s]
    BY <1>3, <1>4, <1>7
  <2>2. row[target[s]].status \in {"PENDING", "UNCERTAIN"} /\ row[target[s]].attempted
    BY <2>1 DEF IInv, OwnerHoldsRow
  <2>3. CASE status = "UNCERTAIN" \/ target[s] # d
    BY <1>1, <1>2, <2>1, <2>2, <2>3
  <2>4. CASE status # "UNCERTAIN" /\ target[s] = d
    <3>1. pc[r] \in Owning
      BY <2>4 DEF Owning
    <3> QED BY <2>1, <2>4, <3>1 DEF IInv, OwnerIsUnique
  <2> QED BY <2>3, <2>4
<1>8. OwnerHoldsRow' /\ OwnerIsUnique'
  BY <1>3, <1>7 DEF IInv, OwnerHoldsRow, OwnerIsUnique
<1>9. AtMostOneReply' /\ SentAsApproved'
  BY DEF IInv, AtMostOneReply, SentAsApproved, outside
<1>10. status = "FAILED" => \A x \in mailed : x.draft # d
  <2> SUFFICES ASSUME status = "FAILED", NEW x \in mailed, x.draft = d
               PROVE  FALSE
    OBVIOUS
  <2>1. deliveries[MessageOf[d]] = 0
    BY DEF IInv, OwnerKnowsOutcome
  <2> QED BY <1>1, <2>1 DEF IInv, MailedIsRecorded
<1>11. status = "SENT" => \E x \in mailed : x.draft = d
  BY DEF IInv, OwnerKnowsOutcome
<1>12. \A x \in mailed : x.draft \in Drafts
  BY DEF IInv, TypeOK
<1>13. MailedIsRecorded'
  BY <1>1, <1>2, <1>10, <1>11, <1>12 DEF IInv, MailedIsRecorded, LiveStatuses, outside
<1>14. OwnerKnowsOutcome'
  BY <1>3 DEF IInv, OwnerKnowsOutcome, Owning, outside
<1>15. RequestIsApproved'
  BY DEF IInv, TypeOK, RequestIsApproved, Finish, Goto, Sending, Owning
<1> QED BY <1>5, <1>6, <1>8, <1>9, <1>13, <1>14, <1>15 DEF IInv

LEMMA ProviderSendIInv ==
  ASSUME IInv, NEW r \in Requests, NEW reachedWire \in BOOLEAN, NEW confirmed \in BOOLEAN,
         ProviderSend(r, reachedWire, confirmed)
  PROVE  IInv'
<1> USE ConstantsAssumption
<1> DEFINE d == target[r]
           m == MessageOf[d]
           x == [draft |-> d, to |-> pinned[r]]
<1>1. /\ d \in Drafts /\ m \in Messages /\ pc[r] = "transmit" /\ deliveries[m] = 0
      /\ approval[d].decision = "APPROVED" /\ approval[d].to = pinned[r]
  BY DEF ProviderSend, IInv, RequestIsApproved, OwnerKnowsOutcome, Sending, Owning
<1>2. UNCHANGED <<row, approval, target, pinned>>
  BY DEF ProviderSend, tables
<1>3. \A s \in Requests : s # r => pc'[s] = pc[s]
  BY DEF IInv, TypeOK, ProviderSend, Goto
<1>4. row[d].status \in {"PENDING", "UNCERTAIN"} /\ row[d].attempted
  BY <1>1 DEF IInv, OwnerHoldsRow, Owning
<1>5. pc'[r] \in Owning \ {"transmit"}
  BY <1>1 DEF IInv, TypeOK, ProviderSend, Goto, MarkFor, Owning
<1>6. LiveRowIsUnique' /\ OwnerHoldsRow' /\ OwnerIsUnique'
  BY <1>1, <1>2, <1>3, <1>5 DEF IInv, LiveRowIsUnique, OneLiveRow, OwnerHoldsRow, OwnerIsUnique, Owning
<1>7. RequestIsApproved'
  BY <1>1, <1>2, <1>3, <1>5 DEF IInv, RequestIsApproved, Sending, Owning
<1>8. CASE ~reachedWire
  <2>1. pc'[r] = "markFailed" /\ UNCHANGED outside
    BY <1>8 DEF IInv, TypeOK, ProviderSend, Goto, MarkFor
  <2>2. TypeOK'
    BY <2>1 DEF IInv, TypeOK, ProviderSend, Goto, tables, outside, Steps, Owning
  <2>3. AtMostOneReply' /\ MailedIsRecorded' /\ SentAsApproved'
    BY <1>2, <2>1 DEF IInv, AtMostOneReply, MailedIsRecorded, SentAsApproved, outside
  <2>4. OwnerKnowsOutcome'
    BY <1>1, <1>2, <1>3, <2>1 DEF IInv, OwnerKnowsOutcome, outside
  <2> QED BY <1>6, <1>7, <2>2, <2>3, <2>4 DEF IInv
<1>9. CASE reachedWire
  <2>1. /\ pc'[r] \in {"markSent", "markUncertain"}
        /\ deliveries' = [deliveries EXCEPT ![m] = 1]
        /\ mailed' = mailed \cup {x}
    BY <1>1, <1>9 DEF IInv, TypeOK, ProviderSend, Goto, MarkFor
  <2>2. x \in [draft : Drafts, to : Addresses \cup {Unsafe}]
    BY <1>1 DEF IInv, TypeOK
  <2>3. TypeOK'
    BY <1>1, <2>1, <2>2 DEF IInv, TypeOK, ProviderSend, Goto, tables, Steps, Owning
  <2>4. AtMostOneReply'
    BY <1>1, <2>1 DEF IInv, TypeOK, AtMostOneReply
  <2>5. x.draft = d /\ approval[x.draft] = [decision |-> "APPROVED", to |-> x.to]
    BY <1>1 DEF IInv, TypeOK, Approvals
  <2> HIDE DEF x
  <2>6. SentAsApproved'
    BY <1>2, <2>1, <2>5 DEF IInv, SentAsApproved
  <2>7. \A n \in Messages : deliveries'[n] # 0 <=> \E y \in mailed' : MessageOf[y.draft] = n
    <3>1. \A n \in Messages : deliveries'[n] = IF n = m THEN 1 ELSE deliveries[n]
      BY <1>1, <2>1 DEF IInv, TypeOK
    <3>2. \A n \in Messages : deliveries[n] # 0 <=> \E y \in mailed : MessageOf[y.draft] = n
      BY DEF IInv, MailedIsRecorded
    <3> QED BY <2>1, <2>5, <3>1, <3>2
  <2>8. MailedIsRecorded'
    BY <1>2, <1>4, <2>1, <2>5, <2>7 DEF IInv, MailedIsRecorded, LiveStatuses
  <2>9. \A s \in Requests \ {r} :
           pc[s] \in {"transmit", "markFailed"} => MessageOf[target[s]] # m
    <3> SUFFICES ASSUME NEW s \in Requests \ {r}, pc[s] \in {"transmit", "markFailed"},
                        MessageOf[target[s]] = m
                 PROVE  FALSE
      OBVIOUS
    <3>1. target[s] \in Drafts /\ row[target[s]].status \in {"PENDING", "UNCERTAIN"}
      BY DEF IInv, RequestIsApproved, OwnerHoldsRow, Owning
    <3>2. target[s] = d
      BY <1>1, <1>4, <3>1 DEF IInv, LiveRowIsUnique, OneLiveRow, LiveStatuses
    <3> QED BY <1>1, <3>2 DEF IInv, OwnerIsUnique, Owning
  <2>10. \A s \in Requests : pc'[s] \in {"transmit", "markFailed"} =>
             s # r /\ MessageOf[target[s]] \in Messages
    BY <1>3, <2>1 DEF IInv, RequestIsApproved
  <2>11. OwnerKnowsOutcome'
    <3>1. ASSUME NEW s \in Requests, pc'[s] \in {"transmit", "markFailed"}
          PROVE  deliveries'[MessageOf[target'[s]]] = 0
      <4>1. s # r /\ pc[s] = pc'[s] /\ target'[s] = target[s]
        BY <1>2, <1>3, <2>10, <3>1
      <4>2. deliveries[MessageOf[target[s]]] = 0 /\ MessageOf[target[s]] # m
        BY <2>9, <3>1, <4>1 DEF IInv, OwnerKnowsOutcome
      <4>3. MessageOf[target[s]] \in Messages
        BY <2>10, <3>1
      <4> QED BY <2>1, <4>1, <4>2, <4>3 DEF IInv, TypeOK
    <3>2. ASSUME NEW s \in Requests, pc'[s] = "markSent"
          PROVE  \E y \in mailed' : y.draft = target'[s]
      <4>1. CASE s = r
        BY <1>2, <2>1, <2>5, <4>1
      <4>2. CASE s # r
        BY <1>2, <1>3, <2>1, <3>2, <4>2 DEF IInv, OwnerKnowsOutcome
      <4> QED BY <4>1, <4>2
    <3> QED BY <3>1, <3>2 DEF OwnerKnowsOutcome
  <2> QED BY <1>6, <1>7, <2>3, <2>4, <2>6, <2>8, <2>11 DEF IInv
<1> QED BY <1>8, <1>9

\* The steps of the environment and of the decision endpoint.
LEMMA EnvironmentIInv ==
  ASSUME IInv, Environment
  PROVE  IInv'
<1> USE ConstantsAssumption
<1>1. TypeOK'
  BY DEF Environment, Supersede, StoredSenderChanges, GenerateResponseDraft, IInv, TypeOK,
     DraftStatuses, locals, outside
<1>2. UNCHANGED <<approval, row, locals, outside>>
  BY DEF Environment, Supersede, StoredSenderChanges, GenerateResponseDraft
<1>3. RequestIsApproved'
  BY <1>2 DEF IInv, RequestIsApproved, locals
<1> QED BY <1>1, <1>2, <1>3, QuietStep DEF locals

LEMMA DecideIInv ==
  ASSUME IInv, NEW r \in Requests, Decide(r)
  PROVE  IInv'
<1>1. CASE \E d \in Drafts : ApproveCheck(r, d)
  <2>1. TypeOK' /\ RequestIsApproved' /\ UNCHANGED <<row, approval, outside>>
    BY <1>1 DEF ApproveCheck, IInv, TypeOK, RequestIsApproved, Goto, tables, outside,
       Steps, Sending, Owning
  <2>2. \A s \in Requests : pc'[s] \in Owning => pc'[s] = pc[s] /\ target'[s] = target[s]
    BY <1>1 DEF ApproveCheck, IInv, TypeOK, Goto, Owning
  <2> QED BY <2>1, <2>2, QuietStep
<1>2. CASE \E expected \in Addresses : ApprovePin(r, expected)
  <2>1. CASE Finish(r)
    BY <1>2, <2>1, FinishIsQuiet DEF ApprovePin, IInv, TypeOK
  <2>2. CASE ~Finish(r)
    <3>1. PICK expected \in Addresses : ApprovePin(r, expected)
      BY <1>2
    <3>2. /\ pc[r] = "pin" /\ Goto(r, "decide") /\ UNCHANGED <<tables, target, seen, outside, crashes>>
          /\ sender[MessageOf[target[r]]] \in Addresses
          /\ pinned' = [pinned EXCEPT ![r] = sender[MessageOf[target[r]]]]
      BY <2>2, <3>1 DEF ApprovePin
    <3>3. TypeOK' /\ RequestIsApproved'
      BY <3>2 DEF IInv, TypeOK, RequestIsApproved, Goto, tables, outside,
         Steps, Sending, Owning
    <3>4. \A s \in Requests : pc'[s] \in Owning => pc'[s] = pc[s] /\ target'[s] = target[s]
      BY <3>2 DEF IInv, TypeOK, Goto, Owning
    <3> QED BY <3>2, <3>3, <3>4, QuietStep DEF tables
  <2> QED BY <2>1, <2>2
<1>3. ASSUME NEW d \in Drafts, NEW a \in Approvals, CreateApproval(d, a)
      PROVE  /\ approval' \in [Drafts -> Approvals]
             /\ \A e \in Drafts : approval[e].decision = "APPROVED" => approval'[e] = approval[e]
  BY <1>3 DEF CreateApproval, NoApproval, IInv, TypeOK
<1>4. CASE ApproveInsert(r)
  <2> DEFINE a == [decision |-> "APPROVED", to |-> pinned[r]]
  <2>1. target[r] \in Drafts /\ a \in Approvals
    BY <1>4 DEF ApproveInsert, IInv, TypeOK, RequestIsApproved, Approvals, Decisions
  <2>2. /\ approval' \in [Drafts -> Approvals]
        /\ \A e \in Drafts : approval[e].decision = "APPROVED" => approval'[e] = approval[e]
    BY <1>3, <1>4, <2>1 DEF ApproveInsert
  <2>3. TypeOK'
    BY <1>4, <2>2 DEF ApproveInsert, IInv, TypeOK, Finish, Goto, outside, Steps, SendRows,
       NoRow, SendStatuses
  <2>4. \A s \in Requests : pc'[s] # "idle" =>
            pc'[s] = pc[s] /\ target'[s] = target[s] /\ pinned'[s] = pinned[s]
    BY <1>4 DEF ApproveInsert, IInv, TypeOK, Finish, Goto
  <2>5. RequestIsApproved'
    BY <2>2, <2>4 DEF IInv, RequestIsApproved, Sending, Owning
  <2> QED BY <1>4, <2>2, <2>3, <2>4, <2>5, QuietStep DEF ApproveInsert, Owning
<1>5. CASE \E d \in Drafts : Reject(r, d)
  <2>1. PICK d \in Drafts : Reject(r, d)
    BY <1>5
  <2>2. [decision |-> "REJECTED", to |-> Unsafe] \in Approvals
    BY DEF Approvals, Decisions
  <2>3. /\ approval' \in [Drafts -> Approvals]
        /\ \A e \in Drafts : approval[e].decision = "APPROVED" => approval'[e] = approval[e]
    BY <1>3, <2>1, <2>2 DEF Reject
  <2>4. TypeOK'
    BY <2>1, <2>3 DEF Reject, IInv, TypeOK, locals, outside
  <2>5. RequestIsApproved'
    BY <2>1, <2>3 DEF Reject, IInv, RequestIsApproved, locals, Sending, Owning
  <2> QED BY <2>1, <2>3, <2>4, <2>5, QuietStep DEF Reject, locals
<1> QED BY <1>1, <1>2, <1>4, <1>5 DEF Decide

LEMMA SendStartIInv ==
  ASSUME IInv, NEW r \in Requests, NEW d \in Drafts, SendStart(r, d)
  PROVE  IInv'
<1>1. StepFor(row[d]) \in Steps
  BY DEF StepFor, Steps
<1>2. TypeOK'
  BY DEF SendStart, IInv, TypeOK, Goto, tables, outside, Steps
<1>3. RequestIsApproved'
  BY DEF SendStart, IInv, TypeOK, RequestIsApproved, Goto, tables, Sending, Owning
<1>4. \A s \in Requests : pc'[s] \in Owning => pc'[s] = pc[s] /\ target'[s] = target[s]
  BY DEF SendStart, IInv, TypeOK, Goto, Owning
<1> QED BY <1>2, <1>3, <1>4, QuietStep DEF SendStart, tables

\* A request that only moves on, with its draft in hand, is a quiet step.
LEMMA MoveOnIInv ==
  ASSUME IInv, NEW r \in Requests, NEW step \in {"check", "claim", "begin", "retry", "reconcile"},
         pc[r] \in {"build", "check", "claim"}, Goto(r, step),
         UNCHANGED <<tables, target, seen, outside, crashes>>,
         pinned' \in [Requests -> Addresses \cup {Unsafe}],
         \A s \in Requests \ {r} : pinned'[s] = pinned[s],
         pinned'[r] = approval[target[r]].to
  PROVE  IInv'
<1>1. TypeOK'
  BY DEF IInv, TypeOK, Goto, tables, outside, Steps
<1>2. RequestIsApproved'
  BY DEF IInv, TypeOK, RequestIsApproved, Goto, tables, Sending, Owning
<1>3. \A s \in Requests : pc'[s] \in Owning => pc'[s] = pc[s] /\ target'[s] = target[s]
  BY DEF IInv, TypeOK, Goto, Owning
<1> QED BY <1>1, <1>2, <1>3, QuietStep DEF tables

LEMMA BuildIInv ==
  ASSUME IInv, NEW r \in Requests, BuildOutboundMessage(r)
  PROVE  IInv'
<1> DEFINE to == approval[target[r]].to
<1>1. CASE Finish(r)
  BY <1>1, FinishIsQuiet DEF BuildOutboundMessage, IInv, TypeOK
<1>2. CASE ~Finish(r)
  <2>1. /\ pc[r] = "build" /\ Goto(r, "check") /\ UNCHANGED <<tables, target, seen, outside, crashes>>
        /\ pinned' = [pinned EXCEPT ![r] = to]
    BY <1>2 DEF BuildOutboundMessage
  <2>2. to \in Addresses \cup {Unsafe}
    BY <2>1 DEF IInv, TypeOK, RequestIsApproved, Approvals
  <2>3. /\ pinned' \in [Requests -> Addresses \cup {Unsafe}] /\ pinned'[r] = to
        /\ \A s \in Requests \ {r} : pinned'[s] = pinned[s]
    BY <2>1, <2>2 DEF IInv, TypeOK
  <2> QED BY <2>1, <2>3, MoveOnIInv
<1> QED BY <1>1, <1>2

LEMMA PreCheckIInv ==
  ASSUME IInv, NEW r \in Requests, RefuseIfOtherRevisionReplied(r)
  PROVE  IInv'
<1>1. CASE Finish(r)
  BY <1>1, FinishIsQuiet DEF RefuseIfOtherRevisionReplied, IInv, TypeOK
<1>2. CASE ~Finish(r)
  <2>1. /\ pc[r] = "check" /\ Goto(r, "claim")
        /\ UNCHANGED <<tables, target, seen, pinned, outside, crashes>>
    BY <1>2 DEF RefuseIfOtherRevisionReplied
  <2>2. pinned \in [Requests -> Addresses \cup {Unsafe}] /\ pinned[r] = approval[target[r]].to
    BY <2>1 DEF IInv, TypeOK, RequestIsApproved, Sending
  <2> QED BY <2>1, <2>2, MoveOnIInv
<1> QED BY <1>1, <1>2

LEMMA ClaimIInv ==
  ASSUME IInv, NEW r \in Requests, ClaimSendAttempt(r)
  PROVE  IInv'
<1> DEFINE d == target[r]
           view == IF seen[r] # NoRow THEN seen[r] ELSE row[d]
<1>1. pc[r] = "claim" /\ UNCHANGED <<draftStatus, current, sender, approval, outside, crashes>>
  BY DEF ClaimSendAttempt
<1>2. CASE Finish(r) /\ UNCHANGED row
  BY <1>1, <1>2, FinishIsQuiet DEF IInv, TypeOK, tables
<1>3. CASE /\ view = NoRow /\ LiveIndexAdmits(d) /\ Goto(r, "begin")
           /\ row' = [row EXCEPT ![d] = [status |-> "PENDING", attempted |-> FALSE]]
           /\ UNCHANGED <<target, seen, pinned>>
  <2>1. row[d].status = "NONE"
    BY <1>3 DEF NoRow
  <2> QED BY <1>1, <1>3, <2>1, OpenAttemptIInv
<1>4. CASE /\ view # NoRow /\ StepFor(view) # "idle" /\ Goto(r, StepFor(view))
           /\ UNCHANGED <<row, target, seen, pinned>>
  <2>1. StepFor(view) \in {"begin", "retry", "reconcile"}
    BY <1>4 DEF StepFor
  <2>2. pinned \in [Requests -> Addresses \cup {Unsafe}] /\ pinned[r] = approval[d].to
    BY <1>1 DEF IInv, TypeOK, RequestIsApproved, Sending
  <2> HIDE DEF view
  <2> QED BY <1>1, <1>4, <2>1, <2>2, MoveOnIInv DEF tables
<1> QED BY <1>2, <1>3, <1>4 DEF ClaimSendAttempt

LEMMA RetryIInv ==
  ASSUME IInv, NEW r \in Requests, RetrySendAttempt(r)
  PROVE  IInv'
<1>1. CASE Finish(r) /\ UNCHANGED row
  BY <1>1, FinishIsQuiet DEF RetrySendAttempt, IInv, TypeOK, tables
<1>2. CASE ~(Finish(r) /\ UNCHANGED row)
  BY <1>2, OpenAttemptIInv DEF RetrySendAttempt, RetryMatches
<1> QED BY <1>1, <1>2

\* Recording an outcome; a lost SENT update moves on to the UNCERTAIN one.
LEMMA MarkIInv ==
  ASSUME IInv, NEW r \in Requests,
         MarkSendSent(r) \/ MarkSendFailed(r) \/ MarkSendUncertain(r) \/ ReconcileStranded(r)
  PROVE  IInv'
<1>1. CASE MarkSendSent(r) /\ row[target[r]].status = "PENDING"
  BY <1>1, SettleIInv DEF MarkSendSent
<1>2. CASE MarkSendSent(r) /\ row[target[r]].status # "PENDING"
  <2>1. /\ pc[r] = "markSent" /\ Goto(r, "markUncertain")
        /\ UNCHANGED <<tables, target, seen, pinned, outside, crashes>>
    BY <1>2 DEF MarkSendSent, MarkPending, tables
  <2>2. TypeOK'
    BY <2>1 DEF IInv, TypeOK, Goto, tables, outside, Steps, Owning
  <2>3. RequestIsApproved'
    BY <2>1 DEF IInv, TypeOK, RequestIsApproved, Goto, tables, Sending, Owning
  <2>4. \A s \in Requests : pc'[s] \in Owning =>
            /\ pc[s] \in Owning /\ target'[s] = target[s]
            /\ pc'[s] \in {pc[s], "markUncertain"}
    BY <2>1 DEF IInv, TypeOK, Goto, Owning
  <2> QED BY <2>1, <2>2, <2>3, <2>4, QuietStep DEF tables
<1>3. CASE MarkSendFailed(r)
  BY <1>3, SettleIInv DEF MarkSendFailed
<1>4. CASE MarkSendUncertain(r)
  BY <1>4, SettleIInv DEF MarkSendUncertain
<1>5. CASE ReconcileStranded(r)
  BY <1>5, SettleIInv DEF ReconcileStranded
<1> QED BY <1>1, <1>2, <1>3, <1>4, <1>5

LEMMA CrashIInv ==
  ASSUME IInv, NEW r \in Requests, Crash(r)
  PROVE  IInv'
  BY FinishIsQuiet DEF Crash, IInv, TypeOK

LEMMA NextIInv == IInv /\ [Next]_vars => IInv'
<1> SUFFICES ASSUME IInv, [Next]_vars PROVE IInv'
  OBVIOUS
<1>1. CASE Environment
  BY <1>1, EnvironmentIInv
<1>2. ASSUME NEW r \in Requests, Decide(r) \/ Crash(r) \/ \E d \in Drafts : SendStart(r, d)
      PROVE  IInv'
  BY <1>2, DecideIInv, CrashIInv, SendStartIInv
<1>3. ASSUME NEW r \in Requests, SendStep(r)
      PROVE  IInv'
  BY <1>3, BuildIInv, PreCheckIInv, ClaimIInv, RetryIInv, BeginIInv, ProviderSendIInv,
     MarkIInv DEF SendStep
<1>4. CASE UNCHANGED vars
  <2>1. UNCHANGED <<tables, locals, outside, crashes>>
    BY <1>4 DEF vars
  <2>2. TypeOK' /\ RequestIsApproved'
    BY <2>1 DEF IInv, TypeOK, RequestIsApproved, tables, locals, outside
  <2> QED BY <2>1, <2>2, QuietStep DEF tables, locals
<1> QED BY <1>1, <1>2, <1>3, <1>4 DEF Next

\* The invariant on which everything below rests.
THEOREM Invariance == Spec => []IInv
  BY InitIInv, NextIInv, PTL DEF Spec

\* Every variable keeps its type.
THEOREM TypeCorrect == Spec => []TypeOK
<1>1. IInv => TypeOK
  BY DEF IInv
<1> QED BY <1>1, Invariance, PTL

\* At most one reply per inbound message reaches the wire, whatever the number
\* of revisions, of concurrent requests and of crashes.
THEOREM OneReply == Spec => []AtMostOneReply
<1>1. IInv => AtMostOneReply
  BY DEF IInv
<1> QED BY <1>1, Invariance, PTL

\* NO APPROVAL = NO SEND, and only to the pinned recipient.
THEOREM NoApprovalNoSend == Spec => []SentAsApproved
<1>1. IInv => SentAsApproved
  BY DEF IInv
<1> QED BY <1>1, Invariance, PTL

\* FAILED means that nothing left, SENT that something did.
THEOREM TruthfulStatus == Spec => []StatusTellsTheTruth
<1>1. IInv => StatusTellsTheTruth
  BY DEF IInv, MailedIsRecorded, StatusTellsTheTruth, LiveStatuses
<1> QED BY <1>1, Invariance, PTL

-----------------------------------------------------------------------------
(* The module implements AtMostOnceSend.                                   *)

\* The fate one live send row stands for.
Fate(v) ==
    CASE v.status = "SENT"                    -> "sent"
      [] v.status = "UNCERTAIN"               -> "unknown"
      [] v.status = "PENDING" /\ v.attempted  -> "trying"
      [] OTHER                                -> "open"

LEMMA OutcomeOfLiveRow ==
  ASSUME NEW rows \in [Drafts -> SendRows], OneLiveRow(rows),
         NEW d \in Drafts, rows[d].status \in LiveStatuses
  PROVE  OutcomeIn(rows, MessageOf[d]) = Fate(rows[d])
<1>1. \A e \in Drafts : MessageOf[e] = MessageOf[d] /\ rows[e].status \in LiveStatuses => e = d
  BY DEF OneLiveRow
<1>2. rows[d].attempted \in BOOLEAN
  BY DEF SendRows
<1> QED BY <1>1, <1>2 DEF OutcomeIn, Fate, LiveStatuses

LEMMA OutcomeWithoutLiveRow ==
  ASSUME NEW rows, NEW m,
         \A d \in Drafts : MessageOf[d] = m => rows[d].status \notin LiveStatuses
  PROVE  OutcomeIn(rows, m) = "open"
  BY DEF OutcomeIn, LiveStatuses

LEMMA OutcomeElsewhere ==
  ASSUME NEW rows, NEW rows2, NEW d \in Drafts, NEW m, m # MessageOf[d],
         \A e \in Drafts : e # d => rows2[e] = rows[e]
  PROVE  OutcomeIn(rows2, m) = OutcomeIn(rows, m)
  BY DEF OutcomeIn

\* A step that changes one send row and no delivery resolves one subject.
LEMMA ResolveByRow ==
  ASSUME ConstantsAssumption, NEW d \in Drafts, NEW a, NEW b, UNCHANGED deliveries,
         \A e \in Drafts : e # d => row'[e] = row[e],
         OutcomeIn(row, MessageOf[d]) = a, OutcomeIn(row', MessageOf[d]) = b
  PROVE  /\ Promise!Resolve(MessageOf[d], {a}, b)
         /\ a = b => UNCHANGED Promise!avars
<1>1. MessageOf[d] \in Messages
  BY DEF ConstantsAssumption
<1>2. \A m \in Messages : m # MessageOf[d] => OutcomeIn(row', m) = OutcomeIn(row, m)
  BY OutcomeElsewhere
<1>3. [m \in Messages |-> OutcomeIn(row', m)]
        = [[m \in Messages |-> OutcomeIn(row, m)] EXCEPT ![MessageOf[d]] = b]
  BY <1>1, <1>2
<1>4. a = b => [m \in Messages |-> OutcomeIn(row', m)] = [m \in Messages |-> OutcomeIn(row, m)]
  BY <1>2
<1> QED BY <1>1, <1>3, <1>4 DEF Promise!Resolve, Promise!avars

LEMMA SameRows ==
  ASSUME UNCHANGED <<row, deliveries>>
  PROVE  UNCHANGED Promise!avars
  BY DEF Promise!avars

LEMMA OpenAttemptRefines ==
  ASSUME IInv, IInv', NEW r \in Requests, pc[r] # "idle",
         row[target[r]].status \in {"NONE", "FAILED"}, LiveIndexAdmits(target[r]),
         row' = [row EXCEPT ![target[r]] = [status |-> "PENDING", attempted |-> FALSE]],
         UNCHANGED deliveries
  PROVE  UNCHANGED Promise!avars
<1> DEFINE d == target[r]
<1>1. d \in Drafts
  BY DEF IInv, RequestIsApproved
<1>2. /\ row'[d] = [status |-> "PENDING", attempted |-> FALSE]
      /\ \A e \in Drafts : e # d => row'[e] = row[e]
  BY <1>1 DEF IInv, TypeOK
<1>3. OutcomeIn(row, MessageOf[d]) = "open"
  BY <1>1, OutcomeWithoutLiveRow DEF LiveIndexAdmits, OtherRevisionHasLiveSend, LiveStatuses
<1>4. OutcomeIn(row', MessageOf[d]) = "open"
  BY <1>1, <1>2, OutcomeOfLiveRow DEF IInv, TypeOK, LiveRowIsUnique, LiveStatuses, Fate
<1> QED BY <1>1, <1>2, <1>3, <1>4, ResolveByRow, ConstantsAssumption

LEMMA BeginRefines ==
  ASSUME IInv, IInv', NEW r \in Requests, BeginTransmission(r), BeginMatches(target[r])
  PROVE  Promise!Begin(MessageOf[target[r]])
<1> DEFINE d == target[r]
<1>1. d \in Drafts /\ row \in [Drafts -> SendRows] /\ UNCHANGED deliveries
  BY DEF IInv, TypeOK, RequestIsApproved, BeginTransmission, outside
<1>2. row' = [row EXCEPT ![d].attempted = TRUE]
  BY DEF BeginTransmission
<1>3. row'[d] = [row[d] EXCEPT !.attempted = TRUE] /\ \A e \in Drafts : e # d => row'[e] = row[e]
  BY <1>1, <1>2
<1>4. row'[d].status = "PENDING" /\ row'[d].attempted
  BY <1>1, <1>3 DEF SendRows, BeginMatches
<1>5. OutcomeIn(row, MessageOf[d]) = "open"
  BY <1>1, OutcomeOfLiveRow DEF IInv, LiveRowIsUnique, BeginMatches, LiveStatuses, Fate
<1>6. OutcomeIn(row', MessageOf[d]) = "trying"
  BY <1>1, <1>4, OutcomeOfLiveRow DEF IInv, TypeOK, LiveRowIsUnique, LiveStatuses, Fate
<1>7. deliveries[MessageOf[d]] = 0
  BY <1>1, ConstantsAssumption DEF BeginMatches, ConstantsAssumption, IInv, TypeOK,
     MailedIsRecorded, LiveRowIsUnique, OneLiveRow, LiveStatuses
<1> QED BY <1>1, <1>3, <1>5, <1>6, <1>7, ResolveByRow, ConstantsAssumption DEF Promise!Begin

LEMMA ProviderSendRefines ==
  ASSUME IInv, NEW r \in Requests, NEW reachedWire \in BOOLEAN, NEW confirmed \in BOOLEAN,
         ProviderSend(r, reachedWire, confirmed)
  PROVE  Promise!Deliver(MessageOf[target[r]]) \/ UNCHANGED Promise!avars
<1> DEFINE d == target[r]
<1>1. d \in Drafts /\ MessageOf[d] \in Messages /\ UNCHANGED row
  BY ConstantsAssumption DEF ConstantsAssumption, IInv, RequestIsApproved, ProviderSend, tables
<1>2. CASE ~reachedWire
  BY <1>1, <1>2, SameRows DEF ProviderSend, outside
<1>3. CASE reachedWire
  <2>1. deliveries[MessageOf[d]] = 0
    BY DEF ProviderSend, IInv, OwnerKnowsOutcome
  <2>2. deliveries' = [deliveries EXCEPT ![MessageOf[d]] = 1]
    BY <1>1, <1>3, <2>1 DEF ProviderSend, IInv, TypeOK
  <2>3. row[d].status \in {"PENDING", "UNCERTAIN"} /\ row[d].attempted
    BY DEF ProviderSend, IInv, OwnerHoldsRow, Owning
  <2>4. OutcomeIn(row, MessageOf[d]) \in {"trying", "unknown"}
    BY <1>1, <2>3, OutcomeOfLiveRow DEF IInv, TypeOK, LiveRowIsUnique, LiveStatuses, Fate
  <2> QED BY <1>1, <2>1, <2>2, <2>4 DEF Promise!Deliver
<1> QED BY <1>2, <1>3

LEMMA SettleRefines ==
  ASSUME IInv, IInv', NEW r \in Requests, NEW status \in {"SENT", "FAILED", "UNCERTAIN"},
         pc[r] # "idle", MarkPending(target[r], status), UNCHANGED deliveries,
         status = "SENT" => pc[r] = "markSent",
         status = "FAILED" => pc[r] = "markFailed"
  PROVE  \/ \E m \in Messages : Promise!Confirm(m) \/ Promise!Release(m) \/ Promise!LoseTrack(m)
         \/ UNCHANGED Promise!avars
<1> DEFINE d == target[r]
           m == MessageOf[d]
<1>1. d \in Drafts /\ m \in Messages
  BY ConstantsAssumption DEF ConstantsAssumption, IInv, RequestIsApproved
<1>2. /\ \A e \in Drafts : row'[e].attempted = row[e].attempted
      /\ \A e \in Drafts : e # d => row'[e] = row[e]
      /\ row'[d].status = IF row[d].status = "PENDING" THEN status ELSE row[d].status
  BY <1>1, MarkPendingFacts DEF IInv, SendStatuses
<1>3. CASE row[d].status # "PENDING"
  BY <1>3, SameRows DEF MarkPending
<1>4. CASE row[d].status = "PENDING"
  <2>1. /\ OutcomeIn(row, m) = Fate(row[d])
        /\ row[d].attempted => OutcomeIn(row, m) = "trying"
        /\ OutcomeIn(row, m) \in {"open", "trying"}
    BY <1>1, <1>4, OutcomeOfLiveRow DEF IInv, TypeOK, LiveRowIsUnique, LiveStatuses, Fate
  <2>2. CASE status = "SENT"
    <3>1. PICK x \in mailed : x.draft = d
      BY <2>2 DEF IInv, OwnerKnowsOutcome
    <3>2. deliveries[m] = 1
      <4>1. deliveries[m] # 0
        BY <1>1, <3>1 DEF IInv, MailedIsRecorded
      <4>2. deliveries[m] \in Nat /\ deliveries[m] <= 1
        BY <1>1 DEF IInv, TypeOK, AtMostOneReply
      <4> QED BY <4>1, <4>2
    <3>3. OutcomeIn(row, m) = "trying"
      BY <2>1, <2>2 DEF IInv, OwnerHoldsRow, Owning
    <3>4. OutcomeIn(row', m) = "sent"
      BY <1>1, <1>2, <1>4, <2>2, OutcomeOfLiveRow DEF IInv, TypeOK, LiveRowIsUnique, LiveStatuses, Fate
    <3> QED BY <1>1, <1>2, <3>2, <3>3, <3>4, ResolveByRow, ConstantsAssumption DEF Promise!Confirm
  <2>3. CASE status = "FAILED"
    <3>1. deliveries[m] = 0
      BY <2>3 DEF IInv, OwnerKnowsOutcome
    <3>2. OutcomeIn(row, m) = "trying"
      BY <2>1, <2>3 DEF IInv, OwnerHoldsRow, Owning
    <3>3. \A e \in Drafts : MessageOf[e] = m => row'[e].status \notin LiveStatuses
      BY <1>1, <1>2, <1>4, <2>3 DEF IInv, LiveRowIsUnique, OneLiveRow, LiveStatuses
    <3>4. OutcomeIn(row', m) = "open"
      BY <3>3, OutcomeWithoutLiveRow
    <3> QED BY <1>1, <1>2, <3>1, <3>2, <3>4, ResolveByRow, ConstantsAssumption DEF Promise!Release
  <2>4. CASE status = "UNCERTAIN"
    <3>1. OutcomeIn(row', m) = "unknown"
      BY <1>1, <1>2, <1>4, <2>4, OutcomeOfLiveRow DEF IInv, TypeOK, LiveRowIsUnique, LiveStatuses, Fate
    <3>2. Promise!Resolve(m, {OutcomeIn(row, m)}, "unknown")
      BY <1>1, <1>2, <3>1, ResolveByRow, ConstantsAssumption
    <3> QED BY <1>1, <2>1, <3>2 DEF Promise!LoseTrack, Promise!Resolve
  <2> QED BY <2>2, <2>3, <2>4
<1> QED BY <1>3, <1>4

LEMMA StepRefines ==
  ASSUME IInv, IInv', [Next]_vars
  PROVE  [Promise!ANext]_(Promise!avars)
<1>1. CASE UNCHANGED <<row, deliveries>>
  BY <1>1, SameRows
<1>2. ASSUME NEW r \in Requests, ClaimSendAttempt(r) \/ RetrySendAttempt(r)
      PROVE  UNCHANGED Promise!avars
  <2>1. CASE UNCHANGED row
    BY <1>2, <2>1, SameRows DEF ClaimSendAttempt, RetrySendAttempt, outside
  <2>2. CASE ~UNCHANGED row
    <3>1. /\ pc[r] # "idle" /\ UNCHANGED deliveries
          /\ row[target[r]].status \in {"NONE", "FAILED"} /\ LiveIndexAdmits(target[r])
          /\ row' = [row EXCEPT ![target[r]] = [status |-> "PENDING", attempted |-> FALSE]]
      BY <1>2, <2>2 DEF ClaimSendAttempt, RetrySendAttempt, RetryMatches, NoRow, outside
    <3> QED BY <3>1, OpenAttemptRefines
  <2> QED BY <2>1, <2>2
<1>3. ASSUME NEW r \in Requests, BeginTransmission(r)
      PROVE  Promise!ANext \/ UNCHANGED Promise!avars
  <2>1. CASE BeginMatches(target[r])
    <3>1. MessageOf[target[r]] \in Messages
      BY <1>3, ConstantsAssumption DEF ConstantsAssumption, BeginTransmission, IInv, RequestIsApproved
    <3> QED BY <1>3, <2>1, <3>1, BeginRefines DEF Promise!ANext
  <2>2. CASE ~BeginMatches(target[r])
    BY <1>3, <2>2, SameRows DEF BeginTransmission, outside
  <2> QED BY <2>1, <2>2
<1>4. ASSUME NEW r \in Requests, NEW reachedWire \in BOOLEAN, NEW confirmed \in BOOLEAN,
             ProviderSend(r, reachedWire, confirmed)
      PROVE  Promise!ANext \/ UNCHANGED Promise!avars
  <2>1. MessageOf[target[r]] \in Messages
    BY <1>4, ConstantsAssumption DEF ConstantsAssumption, ProviderSend, IInv, RequestIsApproved
  <2> QED BY <1>4, <2>1, ProviderSendRefines DEF Promise!ANext
<1>5. ASSUME NEW r \in Requests,
             MarkSendSent(r) \/ MarkSendFailed(r) \/ MarkSendUncertain(r) \/ ReconcileStranded(r)
      PROVE  Promise!ANext \/ UNCHANGED Promise!avars
  <2>1. /\ pc[r] # "idle" /\ UNCHANGED deliveries
        /\ \E status \in {"SENT", "FAILED", "UNCERTAIN"} :
              /\ MarkPending(target[r], status)
              /\ status = "SENT" => pc[r] = "markSent"
              /\ status = "FAILED" => pc[r] = "markFailed"
    BY <1>5 DEF MarkSendSent, MarkSendFailed, MarkSendUncertain, ReconcileStranded, outside
  <2> QED BY <2>1, SettleRefines DEF Promise!ANext
<1>6. CASE Environment \/ UNCHANGED vars
  BY <1>1, <1>6 DEF Environment, Supersede, StoredSenderChanges, GenerateResponseDraft,
     vars, tables, outside
<1>7. ASSUME NEW r \in Requests,
             \/ Decide(r) \/ Crash(r) \/ \E d \in Drafts : SendStart(r, d)
             \/ BuildOutboundMessage(r) \/ RefuseIfOtherRevisionReplied(r)
      PROVE  UNCHANGED <<row, deliveries>>
  BY <1>7 DEF Decide, ApproveCheck, Reject, ApprovePin, ApproveInsert, Crash, SendStart,
     BuildOutboundMessage, RefuseIfOtherRevisionReplied, tables, outside
<1> QED BY <1>1, <1>2, <1>3, <1>4, <1>5, <1>6, <1>7 DEF Next, SendStep

LEMMA InitRefines == Init => Promise!AInit
<1> SUFFICES ASSUME Init PROVE Promise!AInit
  OBVIOUS
<1>1. \A m \in Messages : OutcomeIn(row, m) = "open"
  BY OutcomeWithoutLiveRow DEF Init, NoRow, LiveStatuses
<1> QED BY <1>1 DEF Init, Promise!AInit

\* Replies keep the at-most-once promise, message by message: whatever a step
\* of a request or a crash does is a step of the promise, or invisible to it.
THEOREM Refinement == Spec => KeepsPromise
  BY InitRefines, StepRefines, Invariance, PTL DEF Spec, KeepsPromise, Promise!ASpec

=============================================================================
