------------------------- MODULE ResponseDraftSend -------------------------
(***************************************************************************)
(* Human-approved replies to inbound mail: the decision endpoint, the send *)
(* endpoint and the three tables they share (drafts, approvals, sends).    *)
(*                                                                         *)
(* A message may have several draft revisions; one of them is current.     *)
(* Requests run concurrently (worker threads, several processes); every    *)
(* database statement of a request is one step here, and between two steps *)
(* any other request may run or the process may die.  An UPDATE ... WHERE  *)
(* is one atomic compare-and-swap; an INSERT fails when a unique index     *)
(* refuses it.  Reads that nothing can change any more (a draft row, an    *)
(* approval row: both insert-only) share a step with the next read.        *)
(***************************************************************************)
EXTENDS Naturals

CONSTANTS
    Drafts,       \* draft revisions that may be generated
    Messages,     \* inbound messages
    MessageOf,    \* the message a revision answers
    Requests,     \* concurrently served decision and send requests
    Addresses,    \* reply addresses
    NoDraft,      \* no current revision; no draft in hand
    Unsafe,       \* no address can be derived, or sender not DMARC aligned
    MaxCrashes    \* bound on requests that die in the middle

ASSUME ConstantsAssumption ==
    /\ MessageOf \in [Drafts -> Messages]
    /\ NoDraft \notin Drafts
    /\ Unsafe \notin Addresses
    /\ MaxCrashes \in Nat

VARIABLES
    draftStatus,  \* draftStatus[d]: the row of revision d in response_drafts
    current,      \* current[m]: the revision generated for m's identity now
    sender,       \* sender[m]: what derive_reply_recipient and DMARC give now
    approval,     \* approval[d]: the row of d in response_draft_approvals
    row,          \* row[d]: the row of d in response_draft_sends
    pc,           \* pc[r]: the statement request r executes next
    target,       \* target[r]: the draft r was called for
    seen,         \* seen[r]: the send row r holds in its session, if any
    pinned,       \* pinned[r]: the recipient r carries in a local variable
    deliveries,   \* deliveries[m]: provider calls for m that reached the wire
    mailed,       \* what was handed to the wire: [draft, to]
    crashes       \* requests that died so far

tables == <<draftStatus, current, sender, approval, row>>
locals == <<pc, target, seen, pinned>>
outside == <<deliveries, mailed>>
vars == <<tables, locals, outside, crashes>>

DraftStatuses == {"ABSENT", "PROPOSED", "NO_RESPONSE_RECOMMENDED"}
Decisions == {"NONE", "APPROVED", "REJECTED"}
SendStatuses == {"NONE", "PENDING", "SENT", "FAILED", "UNCERTAIN"}
LiveStatuses == {"PENDING", "SENT", "UNCERTAIN"}
Owning == {"transmit", "markSent", "markFailed", "markUncertain"}
Steps == {"idle", "pin", "decide", "build", "check", "claim", "retry",
          "begin", "reconcile"} \cup Owning

SendRows == [status : SendStatuses, attempted : BOOLEAN]
NoRow == [status |-> "NONE", attempted |-> FALSE]
Approvals == [decision : Decisions, to : Addresses \cup {Unsafe}]
NoApproval == [decision |-> "NONE", to |-> Unsafe]

TypeOK ==
    /\ draftStatus \in [Drafts -> DraftStatuses]
    /\ current \in [Messages -> Drafts \cup {NoDraft}]
    /\ sender \in [Messages -> Addresses \cup {Unsafe}]
    /\ approval \in [Drafts -> Approvals]
    /\ row \in [Drafts -> SendRows]
    /\ pc \in [Requests -> Steps]
    /\ target \in [Requests -> Drafts \cup {NoDraft}]
    /\ seen \in [Requests -> SendRows]
    /\ pinned \in [Requests -> Addresses \cup {Unsafe}]
    /\ deliveries \in [Messages -> Nat]
    /\ mailed \subseteq [draft : Drafts, to : Addresses \cup {Unsafe}]
    /\ crashes \in Nat

Init ==
    /\ draftStatus = [d \in Drafts |-> "ABSENT"]
    /\ current = [m \in Messages |-> NoDraft]
    /\ sender \in [Messages -> Addresses \cup {Unsafe}]
    /\ approval = [d \in Drafts |-> NoApproval]
    /\ row = [d \in Drafts |-> NoRow]
    /\ pc = [r \in Requests |-> "idle"]
    /\ target = [r \in Requests |-> NoDraft]
    /\ seen = [r \in Requests |-> NoRow]
    /\ pinned = [r \in Requests |-> Unsafe]
    /\ deliveries = [m \in Messages |-> 0]
    /\ mailed = {}
    /\ crashes = 0

-----------------------------------------------------------------------------
(* State formulae and steps of a request.                                  *)

Goto(r, step) == pc' = [pc EXCEPT ![r] = step]

\* The request returns or raises: its session and its locals are gone.
Finish(r) ==
    /\ Goto(r, "idle")
    /\ target' = [target EXCEPT ![r] = NoDraft]
    /\ seen' = [seen EXCEPT ![r] = NoRow]
    /\ pinned' = [pinned EXCEPT ![r] = Unsafe]

\* Mutant: a status name that ck_response_draft_sends_status_valid does not know.
SetStatusUnchecked(d, status) ==
    row' = [row EXCEPT ![d].status = IF status = "UNCERTAIN" THEN "UNKNOWN" ELSE status]

SetStatus(d, status) == row' = [row EXCEPT ![d].status = status]

\* A revision of d's message other than d has a PENDING, SENT or UNCERTAIN send.
OtherRevisionHasLiveSend(d) ==
    \E e \in Drafts \ {d} :
        MessageOf[e] = MessageOf[d] /\ row[e].status \in LiveStatuses

-----------------------------------------------------------------------------
(* Where drafts come from: analysis, profile and generator fix the current *)
(* identity of a message; generation inserts the revision of an identity.  *)

\* A newer analysis, a profile edit or a generator upgrade.
Supersede(m) ==
    /\ current[m] # NoDraft
    /\ current' = [current EXCEPT ![m] = NoDraft]
    /\ UNCHANGED <<draftStatus, sender, approval, row, locals, outside, crashes>>

\* Generation inserts the revision of the identity it read.  A slow worker
\* inserts one that is outdated by then: it exists but is never current.
GenerateResponseDraft(d, status, fresh) ==
    /\ draftStatus[d] = "ABSENT"
    /\ fresh => current[MessageOf[d]] = NoDraft
    /\ draftStatus' = [draftStatus EXCEPT ![d] = status]
    /\ current' = IF fresh THEN [current EXCEPT ![MessageOf[d]] = d] ELSE current
    /\ UNCHANGED <<sender, approval, row, locals, outside, crashes>>

\* The stored header is edited by something outside this service.
StoredSenderChanges(m, s) ==
    /\ s # sender[m]
    /\ sender' = [sender EXCEPT ![m] = s]
    /\ UNCHANGED <<draftStatus, current, approval, row, locals, outside, crashes>>

-----------------------------------------------------------------------------
(* The decision endpoint.                                                  *)

MayBeApproved(d) ==
    /\ draftStatus[d] = "PROPOSED"
    /\ approval[d] = NoApproval
    /\ ~OtherRevisionHasLiveSend(d)
    /\ current[MessageOf[d]] = d

\* APPROVED: the checks on decisions, sends and revisions.
ApproveCheck(r, d) ==
    /\ pc[r] = "idle"
    /\ MayBeApproved(d)
    /\ Goto(r, "pin")
    /\ target' = [target EXCEPT ![r] = d]
    /\ UNCHANGED <<tables, seen, pinned, outside, crashes>>

\* APPROVED: the recipient is derived afresh; an unsafe one, or one the caller
\* did not expect, ends the request with nothing written.
ApprovePin(r, expected) ==
    /\ pc[r] = "pin"
    /\ LET s == sender[MessageOf[target[r]]]
       IN  IF s = Unsafe \/ s # expected
           THEN Finish(r)
           ELSE /\ Goto(r, "decide")
                /\ pinned' = [pinned EXCEPT ![r] = s]
                /\ UNCHANGED <<target, seen>>
    /\ UNCHANGED <<tables, outside, crashes>>

\* UNIQUE(response_draft_id): the first decision stays, whatever it was.
CreateApproval(d, decision) ==
    approval' = IF approval[d] = NoApproval
                THEN [approval EXCEPT ![d] = decision]
                ELSE approval

ApproveInsert(r) ==
    /\ pc[r] = "decide"
    /\ CreateApproval(target[r], [decision |-> "APPROVED", to |-> pinned[r]])
    /\ Finish(r)
    /\ UNCHANGED <<draftStatus, current, sender, row, outside, crashes>>

\* REJECTED authorises nothing: any revision with content, one statement.
Reject(r, d) ==
    /\ pc[r] = "idle"
    /\ draftStatus[d] = "PROPOSED"
    /\ CreateApproval(d, [decision |-> "REJECTED", to |-> Unsafe])
    /\ UNCHANGED <<draftStatus, current, sender, row, locals, outside, crashes>>

-----------------------------------------------------------------------------
(* The send endpoint.                                                      *)

\* Where a send row, as the session sees it, leads the request: "idle" refuses.
StepFor(view) ==
    CASE view.status = "PENDING" /\ ~view.attempted -> "begin"
      [] view.status = "PENDING" /\ view.attempted  -> "reconcile"
      [] view.status = "FAILED"                     -> "retry"
      [] OTHER                                      -> "idle"

\* Loads draft, approval and send row.  A settled send is refused here, one
\* whose transmission was attempted goes straight to reconciliation.
SendStart(r, d) ==
    /\ pc[r] = "idle"
    /\ draftStatus[d] = "PROPOSED"
    /\ approval[d].decision = "APPROVED"
    /\ row[d].status \notin {"SENT", "UNCERTAIN"}
    /\ Goto(r, IF StepFor(row[d]) = "reconcile" THEN "reconcile" ELSE "build")
    /\ target' = [target EXCEPT ![r] = d]
    /\ seen' = [seen EXCEPT ![r] = row[d]]
    /\ UNCHANGED <<tables, pinned, outside, crashes>>

\* Mutant: the message is readdressed to whatever the stored header says now.
BuildOutboundMessageFresh(r) ==
    /\ pc[r] = "build"
    /\ Goto(r, "check")
    /\ pinned' = [pinned EXCEPT ![r] = sender[MessageOf[target[r]]]]
    /\ UNCHANGED <<tables, target, seen, outside, crashes>>

\* The outbound message goes to the pinned recipient, and only while the
\* stored message still derives to exactly it.
BuildOutboundMessage(r) ==
    /\ pc[r] = "build"
    /\ LET d == target[r]
       IN  IF sender[MessageOf[d]] = approval[d].to
           THEN /\ Goto(r, "check")
                /\ pinned' = [pinned EXCEPT ![r] = approval[d].to]
                /\ UNCHANGED <<target, seen>>
           ELSE Finish(r)
    /\ UNCHANGED <<tables, outside, crashes>>

\* The friendly pre-check; the index in ClaimSendAttempt is the guarantee.
RefuseIfOtherRevisionReplied(r) ==
    /\ pc[r] = "check"
    /\ LET own == IF seen[r] # NoRow THEN seen[r] ELSE row[target[r]]
       IN  IF own.status \in {"NONE", "FAILED"} /\ OtherRevisionHasLiveSend(target[r])
           THEN Finish(r)
           ELSE Goto(r, "claim") /\ UNCHANGED <<target, seen, pinned>>
    /\ UNCHANGED <<tables, outside, crashes>>

\* Mutant: the schema before that index: one live row per revision only.
LiveIndexAbsent(d) == TRUE

\* uq_response_draft_sends_live_per_message lets d's row become live.
LiveIndexAdmits(d) == ~OtherRevisionHasLiveSend(d)

\* INSERT the first attempt, or dispatch on the row that is already there.  A
\* row loaded earlier is still the session's copy of it, however old.
ClaimSendAttempt(r) ==
    /\ pc[r] = "claim"
    /\ LET d    == target[r]
           view == IF seen[r] # NoRow THEN seen[r] ELSE row[d]
       IN  \/ /\ view = NoRow
              /\ LiveIndexAdmits(d)
              /\ row' = [row EXCEPT ![d] = [status |-> "PENDING", attempted |-> FALSE]]
              /\ Goto(r, "begin")
              /\ UNCHANGED <<target, seen, pinned>>
           \/ /\ view # NoRow /\ StepFor(view) # "idle"
              /\ Goto(r, StepFor(view))
              /\ UNCHANGED <<row, target, seen, pinned>>
           \/ /\ IF view = NoRow THEN ~LiveIndexAdmits(d) ELSE StepFor(view) = "idle"
              /\ Finish(r)
              /\ UNCHANGED row
    /\ UNCHANGED <<draftStatus, current, sender, approval, outside, crashes>>

\* Mutant: the same update without its status predicate's exclusion of UNCERTAIN.
RetryMatchesUncertain(d) == row[d].status \in {"FAILED", "UNCERTAIN"}

\* The WHERE clause of the FAILED -> PENDING update.
RetryMatches(d) == row[d].status = "FAILED"

RetrySendAttempt(r) ==
    /\ pc[r] = "retry"
    /\ LET d == target[r]
       IN  IF RetryMatches(d) /\ LiveIndexAdmits(d)
           THEN /\ row' = [row EXCEPT ![d] = [status |-> "PENDING", attempted |-> FALSE]]
                /\ Goto(r, "begin")
                /\ UNCHANGED <<target, seen, pinned>>
           ELSE Finish(r) /\ UNCHANGED row
    /\ UNCHANGED <<draftStatus, current, sender, approval, outside, crashes>>

\* Mutant: the gate without the send_attempted flag.
BeginMatchesAnyPending(d) == row[d].status = "PENDING"

\* The WHERE clause of begin_transmission, the gate in front of the provider.
BeginMatches(d) == row[d].status = "PENDING" /\ ~row[d].attempted

BeginTransmission(r) ==
    /\ pc[r] = "begin"
    /\ IF BeginMatches(target[r])
       THEN /\ row' = [row EXCEPT ![target[r]].attempted = TRUE]
            /\ Goto(r, "transmit")
            /\ UNCHANGED <<target, seen, pinned>>
       ELSE Finish(r) /\ UNCHANGED row
    /\ UNCHANGED <<draftStatus, current, sender, approval, outside, crashes>>

\* Mutant: an ambiguous outcome treated as a failure.
MarkForUnlessConfirmed(reachedWire, confirmed) ==
    IF confirmed THEN "markSent" ELSE "markFailed"

\* The outcomes of one provider.send call and the mark each one leads to.
\* Only a failure before transmission is reported as definite.
MarkFor(reachedWire, confirmed) ==
    IF ~reachedWire THEN "markFailed"
    ELSE IF confirmed THEN "markSent" ELSE "markUncertain"

ProviderSend(r, reachedWire, confirmed) ==
    /\ pc[r] = "transmit"
    /\ confirmed => reachedWire
    /\ Goto(r, MarkFor(reachedWire, confirmed))
    /\ IF reachedWire
       THEN /\ deliveries' = [deliveries EXCEPT ![MessageOf[target[r]]] = @ + 1]
            /\ mailed' = mailed \cup {[draft |-> target[r], to |-> pinned[r]]}
       ELSE UNCHANGED outside
    /\ UNCHANGED <<tables, target, seen, pinned, crashes>>

\* PENDING -> status, when the row still is PENDING.
MarkPending(d, status) ==
    IF row[d].status = "PENDING" THEN SetStatus(d, status) ELSE UNCHANGED row

MarkSendSent(r) ==
    /\ pc[r] = "markSent"
    /\ MarkPending(target[r], "SENT")
    /\ IF row[target[r]].status = "PENDING"
       THEN Finish(r)
       ELSE Goto(r, "markUncertain") /\ UNCHANGED <<target, seen, pinned>>
    /\ UNCHANGED <<draftStatus, current, sender, approval, outside, crashes>>

MarkSendFailed(r) ==
    /\ pc[r] = "markFailed"
    /\ MarkPending(target[r], "FAILED")
    /\ Finish(r)
    /\ UNCHANGED <<draftStatus, current, sender, approval, outside, crashes>>

MarkSendUncertain(r) ==
    /\ pc[r] = "markUncertain"
    /\ MarkPending(target[r], "UNCERTAIN")
    /\ Finish(r)
    /\ UNCHANGED <<draftStatus, current, sender, approval, outside, crashes>>

\* Mutant: the request is merely told that a send is in progress.
ReconcileNothing(r) ==
    /\ pc[r] = "reconcile"
    /\ Finish(r)
    /\ UNCHANGED <<tables, outside, crashes>>

\* A later request found PENDING with transmission attempted: whatever became
\* of that attempt, it is given up as UNCERTAIN, never retried.
ReconcileStranded(r) ==
    /\ pc[r] = "reconcile"
    /\ MarkPending(target[r], "UNCERTAIN")
    /\ Finish(r)
    /\ UNCHANGED <<draftStatus, current, sender, approval, outside, crashes>>

\* The process is killed, or the statement's connection is lost.
Crash(r) ==
    /\ pc[r] # "idle"
    /\ crashes < MaxCrashes
    /\ crashes' = crashes + 1
    /\ Finish(r)
    /\ UNCHANGED <<tables, outside>>

-----------------------------------------------------------------------------

Decide(r) ==
    \/ \E d \in Drafts : ApproveCheck(r, d) \/ Reject(r, d)
    \/ \E expected \in Addresses : ApprovePin(r, expected)
    \/ ApproveInsert(r)

\* The statements of a send that is under way.
SendStep(r) ==
    \/ BuildOutboundMessage(r)
    \/ RefuseIfOtherRevisionReplied(r)
    \/ ClaimSendAttempt(r)
    \/ RetrySendAttempt(r)
    \/ BeginTransmission(r)
    \/ \E reachedWire, confirmed \in BOOLEAN : ProviderSend(r, reachedWire, confirmed)
    \/ MarkSendSent(r)
    \/ MarkSendFailed(r)
    \/ MarkSendUncertain(r)
    \/ ReconcileStranded(r)

Environment ==
    \/ \E m \in Messages : Supersede(m)
    \/ \E m \in Messages, s \in Addresses \cup {Unsafe} : StoredSenderChanges(m, s)
    \/ \E d \in Drafts, fresh \in BOOLEAN :
           \E status \in DraftStatuses \ {"ABSENT"} : GenerateResponseDraft(d, status, fresh)

Next ==
    \/ Environment
    \/ \E r \in Requests :
           \/ Decide(r)
           \/ \E d \in Drafts : SendStart(r, d)
           \/ SendStep(r)
           \/ Crash(r)

Spec == Init /\ [][Next]_vars

\* A request that is being served executes its next statement, or dies.
FairSpec == Spec /\ \A r \in Requests : WF_vars(SendStep(r))

-----------------------------------------------------------------------------
(* Properties.                                                             *)

\* At most one reply per inbound message reaches the wire, across all its
\* revisions, requests, retries and crashes (the promise of
\* uq_response_draft_sends_live_per_message and begin_transmission together).
AtMostOneReply == \A m \in Messages : deliveries[m] <= 1

\* NO APPROVAL = NO SEND: whatever was handed to the wire is a revision with an
\* APPROVED decision, addressed to exactly the recipient pinned by it.
SentAsApproved ==
    \A x \in mailed : approval[x.draft] = [decision |-> "APPROVED", to |-> x.to]

\* The send rows tell the truth: FAILED, the only state a retry leaves from,
\* means that nothing of this revision ever left; SENT means that it did.
StatusTellsTheTruth ==
    \A d \in Drafts :
        /\ row[d].status = "FAILED" => \A x \in mailed : x.draft # d
        /\ row[d].status = "SENT" => \E x \in mailed : x.draft = d
        /\ (\E x \in mailed : x.draft = d) => row[d].attempted

\* The inductive strengthening: why the three properties above hold.
\* (1) The partial unique index: one live send row per message.
OneLiveRow(rows) ==
    \A d, e \in Drafts :
        (/\ MessageOf[d] = MessageOf[e]
         /\ rows[d].status \in LiveStatuses
         /\ rows[e].status \in LiveStatuses) => d = e

LiveRowIsUnique == OneLiveRow(row)

\* (2) A request past the gate owns the attempt of its draft, alone.
OwnerHoldsRow ==
    \A r \in Requests :
        pc[r] \in Owning => /\ row[target[r]].status \in {"PENDING", "UNCERTAIN"}
                            /\ row[target[r]].attempted

OwnerIsUnique ==
    \A r, s \in Requests :
        (pc[r] \in Owning /\ pc[s] \in Owning /\ target[r] = target[s]) => r = s

\* (3) What left is known by a live row whose transmission was attempted.
MailedIsRecorded ==
    /\ \A x \in mailed : row[x.draft].status \in LiveStatuses /\ row[x.draft].attempted
    /\ \A m \in Messages : deliveries[m] # 0 <=> \E x \in mailed : MessageOf[x.draft] = m
    /\ \A d \in Drafts : row[d].status = "SENT" => \E x \in mailed : x.draft = d

OwnerKnowsOutcome ==
    \A r \in Requests :
        /\ pc[r] \in {"transmit", "markFailed"} => deliveries[MessageOf[target[r]]] = 0
        /\ pc[r] = "markSent" => \E x \in mailed : x.draft = target[r]

\* (4) Only approved drafts are sent, and as they were approved.
Sending == Owning \cup {"build", "check", "claim", "retry", "begin"}

RequestIsApproved ==
    \A r \in Requests :
        /\ pc[r] # "idle" => target[r] \in Drafts
        /\ pc[r] \in Sending => approval[target[r]].decision = "APPROVED"
        /\ pc[r] \in Sending \ {"build"} => approval[target[r]].to = pinned[r]

IInv ==
    /\ TypeOK
    /\ LiveRowIsUnique
    /\ OwnerHoldsRow
    /\ OwnerIsUnique
    /\ AtMostOneReply
    /\ MailedIsRecorded
    /\ OwnerKnowsOutcome
    /\ RequestIsApproved
    /\ SentAsApproved

\* The recorded fate of message m, as one of its revisions' send rows carries it.
OutcomeIn(rows, m) ==
    LET Has(status, attempted) ==
            \E d \in Drafts : /\ MessageOf[d] = m
                              /\ rows[d].status = status
                              /\ rows[d].attempted \in attempted
    IN  CASE Has("SENT", BOOLEAN)      -> "sent"
          [] Has("UNCERTAIN", BOOLEAN) -> "unknown"
          [] Has("PENDING", {TRUE})    -> "trying"
          [] OTHER                     -> "open"

Promise == INSTANCE AtMostOnceSend WITH
    Subjects <- Messages,
    outcome <- [m \in Messages |-> OutcomeIn(row, m)],
    deliveries <- deliveries

\* Replies implement the at-most-once promise, message by message.
KeepsPromise == Promise!ASpec

\* A row left PENDING by an attempt that got as far as the provider (a crash, a
\* lost commit) does not stay so: if requests for it keep arriving, it is
\* resolved and the operator sees a definite or an UNCERTAIN outcome.
Stranded(d) == row[d].status = "PENDING" /\ row[d].attempted

StrandedSendIsResolved ==
    \A d \in Drafts :
        ([]<><<\E r \in Requests : SendStart(r, d)>>_vars) =>
            [](Stranded(d) => <>~Stranded(d))

=============================================================================
