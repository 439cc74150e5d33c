---------------------------- MODULE FollowUpSend ----------------------------
(***************************************************************************)
(* Follow-ups to a mail the candidate sent (the anchor), and the guard of  *)
(* a Gmail thread: a lease in gmail_threads that the follow-up sender      *)
(* holds from its revalidation to the end of the provider call, and that   *)
(* every writer of the mail sync holds while it inserts a message.         *)
(*                                                                         *)
(* One job and its one thread.  Messages are numbered by the arrival time  *)
(* the mail server gave them; the sync stores them in any order.  Requests *)
(* and writers run concurrently and may die; time is Tick, which shortens  *)
(* the lease.  A lease of 0 is still live, of -1 expired.  An anchor that  *)
(* was due when its proposal was built stays due, and its recipient is     *)
(* derived from a row that never changes: neither is part of the state.    *)
(***************************************************************************)
EXTENDS Integers, FiniteSets, FiniteSetsExt

CONSTANTS
    Messages,      \* the thread's messages: numbers in order of arrival
    Outbound,      \* those the candidate sent; the others are replies
    Proposals,     \* follow-up proposals (revisions of one anchor differ)
    AnchorOf,      \* the message a proposal follows up
    Requests,      \* concurrently served requests
    Nobody, NoProposal,
    Ghost,         \* the token of a holder that died
    TTL,           \* length of the guard's lease
    WriterMayStall,\* may an insert outlast the lease it is made under?
    MaxCrashes     \* bound on processes that die in the middle

ASSUME ConstantsAssumption ==
    /\ Messages = 1..Cardinality(Messages) /\ Outbound \subseteq Messages
    /\ 1 \in Outbound
    /\ AnchorOf \in [Proposals -> Outbound]
    /\ {Nobody, Ghost} \cap (Requests \cup Messages) = {} /\ Nobody # Ghost
    /\ Requests \cap Messages = {} /\ NoProposal \notin Proposals
    /\ TTL \in Nat /\ WriterMayStall \in BOOLEAN /\ MaxCrashes \in Nat

VARIABLES
    open,          \* the job is APPLIED and decisively matched to this thread only
    proposed,      \* proposals with a row in follow_up_proposals
    decision,      \* decision[p]: the row of p in follow_up_approvals
    row,           \* row[p]: the row of p in follow_up_sends
    holder, lease, \* lock_holder and what is left until lock_expires_at
    sync,          \* sync[m]: where the writer of message m is
    pc, target,    \* pc[r], target[r]: the next step of request r, its proposal
    beat,          \* beat[r]: the heartbeat thread of r
    deliveries,    \* deliveries[a]: follow-ups to anchor a that reached the wire
    crashes        \* processes that died so far

tables == <<open, proposed, decision, row>>
guard == <<holder, lease>>
vars == <<tables, guard, sync, pc, target, beat, deliveries, crashes>>

SendStatuses == {"NONE", "PENDING", "SENT", "FAILED", "UNCERTAIN"}
LiveStatuses == {"PENDING", "SENT", "UNCERTAIN"}
Guarded == {"revalidate", "recheck", "dispatch", "transmit", "judge", "markSent"}
Marks == {"markFailed", "markUncertain"}
Steps == {"idle", "check", "claim", "retry", "reconcile", "begin", "lock", "release"}
             \cup Guarded \cup Marks
NoRow == [status |-> "NONE", attempted |-> FALSE]

TypeOK ==
    /\ open \in BOOLEAN /\ proposed \subseteq Proposals
    /\ decision \in [Proposals -> {"NONE", "APPROVED", "REJECTED"}]
    /\ row \in [Proposals -> [status : SendStatuses, attempted : BOOLEAN]]
    /\ holder \in Requests \cup Messages \cup {Nobody, Ghost}
    /\ lease \in -1..TTL
    /\ sync \in [Messages -> {"mailbox", "lock", "insert", "unlock", "stored"}]
    /\ pc \in [Requests -> Steps]
    /\ target \in [Requests -> Proposals \cup {NoProposal}]
    /\ beat \in [Requests -> {"off", "on", "lost"}]
    /\ deliveries \in [Outbound -> Nat]
    /\ crashes \in 0..MaxCrashes

\* The first mail of the candidate is stored, nothing else is.
Init ==
    /\ open = TRUE /\ proposed = {}
    /\ decision = [p \in Proposals |-> "NONE"]
    /\ row = [p \in Proposals |-> NoRow]
    /\ holder = Nobody /\ lease = -1
    /\ sync = [m \in Messages |-> IF m = 1 THEN "stored" ELSE "mailbox"]
    /\ pc = [r \in Requests |-> "idle"]
    /\ target = [r \in Requests |-> NoProposal]
    /\ beat = [r \in Requests |-> "off"]
    /\ deliveries = [a \in Outbound |-> 0]
    /\ crashes = 0

-----------------------------------------------------------------------------
(* What is stored, and steps of a request.                                 *)

Stored == {m \in Messages : sync[m] \in {"unlock", "stored"}}
Anchor == Max(Stored \cap Outbound)
Replied == \E m \in Stored \ Outbound : m > Anchor

\* compute_fresh_follow_up_state: eligible, and with which anchor.
StillEligible(p) == open /\ ~Replied /\ Anchor = AnchorOf[p]

\* The check just before the dispatch looks at the thread alone.
NothingRaced(p) == ~Replied /\ Anchor = AnchorOf[p]

Goto(r, step) == pc' = [pc EXCEPT ![r] = step]

Finish(r) == Goto(r, "idle") /\ target' = [target EXCEPT ![r] = NoProposal]

\* uq_follow_up_sends_live_per_anchor: no other proposal's live send.
LiveIndexAdmits(p) ==
    \A q \in Proposals \ {p} :
        AnchorOf[q] = AnchorOf[p] => row[q].status \notin LiveStatuses

\* Mutant: the row is written without send_attempted.
SetRowWithoutFlag(p, status, attempted) == row' = [row EXCEPT ![p] = [status |-> status]]

SetRow(p, status, attempted) ==
    row' = [row EXCEPT ![p] = [status |-> status, attempted |-> attempted]]

-----------------------------------------------------------------------------
(* Proposals and decisions.                                                *)

\* The job is moved on, or a new analysis changes what is matched to it.
JobChanges ==
    /\ open' = ~open
    /\ UNCHANGED <<proposed, decision, row, guard, sync, pc, target, beat, deliveries, crashes>>

Evaluate(p) ==
    /\ StillEligible(p)
    /\ p \notin proposed
    /\ proposed' = proposed \cup {p}
    /\ UNCHANGED <<open, decision, row, guard, sync, pc, target, beat, deliveries, crashes>>

\* A decision is inserted once; APPROVED is refused beside a live send.
Decide(p, d) ==
    /\ p \in proposed /\ decision[p] = "NONE"
    /\ d = "APPROVED" => LiveIndexAdmits(p)
    /\ decision' = [decision EXCEPT ![p] = d]
    /\ UNCHANGED <<open, proposed, row, guard, sync, pc, target, beat, deliveries, crashes>>

-----------------------------------------------------------------------------
(* Winning the row.                                                        *)

SendStart(r, p) ==
    /\ pc[r] = "idle" /\ decision[p] = "APPROVED"
    /\ Goto(r, "check")
    /\ target' = [target EXCEPT ![r] = p]
    /\ UNCHANGED <<tables, guard, sync, beat, deliveries, crashes>>

RefuseIfFollowedUp(r) ==
    /\ pc[r] = "check"
    /\ IF row[target[r]].status \in {"NONE", "FAILED"} /\ ~LiveIndexAdmits(target[r])
         THEN Finish(r)
         ELSE Goto(r, "claim") /\ UNCHANGED target
    /\ UNCHANGED <<tables, guard, sync, beat, deliveries, crashes>>

\* What the row found instead of a free place makes of the request.
StepFor(view) ==
    CASE view.status = "FAILED" -> "retry"
      [] view.status = "PENDING" /\ ~view.attempted -> "begin"
      [] view.status = "PENDING" /\ view.attempted -> "reconcile"
      [] OTHER -> "idle"

ClaimSendAttempt(r) ==
    LET p == target[r]
        next == IF row[p] # NoRow THEN StepFor(row[p])
                ELSE IF LiveIndexAdmits(p) THEN "begin" ELSE "idle"
    IN  /\ pc[r] = "claim"
        /\ IF next = "idle" THEN Finish(r) ELSE Goto(r, next) /\ UNCHANGED target
        /\ IF row[p] = NoRow /\ next = "begin"
             THEN SetRow(p, "PENDING", FALSE) ELSE UNCHANGED row
        /\ UNCHANGED <<open, proposed, decision, guard, sync, beat, deliveries, crashes>>

\* Mutant: an UNCERTAIN attempt is retried as well.
RetryMatchesUncertain(p) == row[p].status \in {"FAILED", "UNCERTAIN"}

RetryMatches(p) == row[p].status = "FAILED"

RetrySendAttempt(r) ==
    LET p == target[r]
    IN  /\ pc[r] = "retry"
        /\ IF RetryMatches(p) /\ LiveIndexAdmits(p)
             THEN SetRow(p, "PENDING", FALSE) /\ Goto(r, "begin") /\ UNCHANGED target
             ELSE Finish(r) /\ UNCHANGED row
        /\ UNCHANGED <<open, proposed, decision, guard, sync, beat, deliveries, crashes>>

\* Mutant: the gate does not look at send_attempted.
BeginMatchesAnyPending(p) == row[p].status = "PENDING"

BeginMatches(p) == row[p] = [status |-> "PENDING", attempted |-> FALSE]

BeginTransmission(r) ==
    LET p == target[r]
    IN  /\ pc[r] = "begin"
        /\ IF BeginMatches(p)
             THEN SetRow(p, "PENDING", TRUE) /\ Goto(r, "lock") /\ UNCHANGED target
             ELSE Finish(r) /\ UNCHANGED row
        /\ UNCHANGED <<open, proposed, decision, guard, sync, beat, deliveries, crashes>>

\* Compare-and-swap on status = PENDING.
MarkPending(p, status) ==
    IF row[p].status = "PENDING" THEN row' = [row EXCEPT ![p].status = status] ELSE UNCHANGED row

\* A row whose attempt may be under way is given up.
ReconcileStranded(r) ==
    /\ pc[r] = "reconcile"
    /\ MarkPending(target[r], "UNCERTAIN")
    /\ Finish(r)
    /\ UNCHANGED <<open, proposed, decision, guard, sync, beat, deliveries, crashes>>

-----------------------------------------------------------------------------
(* The guard of the thread.                                                *)

Live == lease >= 0

\* Mutant: the guard of a dead holder is never taken over.
GuardNeverExpires == holder = Nobody

\* Mutant: a live guard is no obstacle.
GuardAlwaysFree == TRUE

GuardIsFree == holder = Nobody \/ ~Live

Take(h) == GuardIsFree /\ holder' = h /\ lease' = TTL

\* Mutant: whoever ends clears the guard, whosever it is by now.
ReleaseAny(h) == holder' = Nobody /\ lease' = -1

Release(h) ==
    IF holder = h THEN holder' = Nobody /\ lease' = -1 ELSE UNCHANGED guard

AcquireThreadLock(r) ==
    /\ pc[r] = "lock"
    /\ Take(r)
    /\ beat' = [beat EXCEPT ![r] = "on"]
    /\ Goto(r, "revalidate")
    /\ UNCHANGED <<tables, sync, target, deliveries, crashes>>

ThreadLockTimeout(r) ==
    /\ pc[r] = "lock" /\ ~GuardIsFree
    /\ Goto(r, "markFailed")
    /\ UNCHANGED <<tables, guard, sync, target, beat, deliveries, crashes>>

\* Mutant: the heartbeat takes an expired guard again (acquire_thread_lock).
RenewMatchesExpired(r) == holder = r \/ ~Live

RenewMatches(r) == holder = r /\ Live

\* The heartbeat thread: a renewal that is refused or raises ends it.
RenewThreadLock(r, raises) ==
    /\ beat[r] = "on"
    /\ IF RenewMatches(r) /\ ~raises
         THEN holder' = r /\ lease' = TTL /\ UNCHANGED beat
         ELSE beat' = [beat EXCEPT ![r] = "lost"] /\ UNCHANGED guard
    /\ UNCHANGED <<tables, sync, pc, target, deliveries, crashes>>

ReleaseThreadLock(r) ==
    /\ pc[r] = "release"
    /\ Release(r)
    /\ beat' = [beat EXCEPT ![r] = "off"]
    /\ Finish(r)
    /\ UNCHANGED <<tables, sync, deliveries, crashes>>

\* Unless it may stall, an insert is over before its lease is.
Tick ==
    /\ holder # Nobody /\ Live
    /\ WriterMayStall \/ lease > 0 \/ ~\E m \in Messages : holder = m /\ sync[m] = "insert"
    /\ lease' = lease - 1
    /\ UNCHANGED <<tables, holder, sync, pc, target, beat, deliveries, crashes>>

-----------------------------------------------------------------------------
(* The guarded section.                                                    *)

Revalidate(r) ==
    /\ pc[r] = "revalidate"
    /\ Goto(r, IF StillEligible(target[r]) THEN "recheck" ELSE "markFailed")
    /\ UNCHANGED <<tables, guard, sync, target, beat, deliveries, crashes>>

FailClosedIfReplyRaced(r) ==
    /\ pc[r] = "recheck"
    /\ Goto(r, IF NothingRaced(target[r]) THEN "dispatch" ELSE "markFailed")
    /\ UNCHANGED <<tables, guard, sync, target, beat, deliveries, crashes>>

Dispatch(r) ==
    /\ pc[r] = "dispatch"
    /\ Goto(r, IF beat[r] = "lost" THEN "markFailed" ELSE "transmit")
    /\ UNCHANGED <<tables, guard, sync, target, beat, deliveries, crashes>>

\* Mutant: an uncertain outcome is recorded as a failure.
AfterProviderOptimist(left, confirmed) == IF confirmed THEN "judge" ELSE "markFailed"

\* A confirmed send, a definite failure, or an outcome nobody knows.
AfterProvider(left, confirmed) ==
    IF confirmed THEN "judge" ELSE "markUncertain"

Transmit(r, left, confirmed) ==
    /\ pc[r] = "transmit"
    /\ confirmed => left
    /\ deliveries' = IF left THEN [deliveries EXCEPT ![AnchorOf[target[r]]] = @ + 1] ELSE deliveries
    /\ \/ Goto(r, AfterProvider(left, confirmed))
       \/ ~left /\ Goto(r, "markFailed")
    /\ UNCHANGED <<tables, guard, sync, target, beat, crashes>>

\* Success is only trusted while the heartbeat has not lost the guard.
JudgeExclusivity(r) ==
    /\ pc[r] = "judge"
    /\ Goto(r, IF beat[r] = "lost" THEN "markUncertain" ELSE "markSent")
    /\ UNCHANGED <<tables, guard, sync, target, beat, deliveries, crashes>>

MarkFor(step) ==
    CASE step = "markSent" -> "SENT"
      [] step = "markFailed" -> "FAILED"
      [] step = "markUncertain" -> "UNCERTAIN"

\* The verdict is recorded; then the guard is released, if taken.
MarkSend(r) ==
    /\ pc[r] \in Marks \cup {"markSent"}
    /\ MarkPending(target[r], MarkFor(pc[r]))
    /\ IF beat[r] = "off" THEN Finish(r) ELSE Goto(r, "release") /\ UNCHANGED target
    /\ UNCHANGED <<open, proposed, decision, guard, sync, beat, deliveries, crashes>>

\* A statement past the gate raises: the row stays as it is, a guard is released.
Raise(r) ==
    /\ pc[r] \in {"lock"} \cup Guarded \cup Marks
    /\ IF beat[r] = "off" THEN Finish(r) ELSE Goto(r, "release") /\ UNCHANGED target
    /\ UNCHANGED <<tables, guard, sync, beat, deliveries, crashes>>

-----------------------------------------------------------------------------
(* The mail sync, and death.                                               *)

SyncStart(m) ==
    /\ sync[m] = "mailbox"
    /\ sync' = [sync EXCEPT ![m] = "lock"]
    /\ UNCHANGED <<tables, guard, pc, target, beat, deliveries, crashes>>

SyncLocks(m) ==
    /\ sync[m] = "lock"
    /\ Take(m)
    /\ sync' = [sync EXCEPT ![m] = "insert"]
    /\ UNCHANGED <<tables, pc, target, beat, deliveries, crashes>>

\* The wait for the guard times out; the next sync tries again.
SyncTimesOut(m) ==
    /\ sync[m] = "lock" /\ ~GuardIsFree
    /\ sync' = [sync EXCEPT ![m] = "mailbox"]
    /\ UNCHANGED <<tables, guard, pc, target, beat, deliveries, crashes>>

InsertMessage(m) ==
    /\ sync[m] = "insert"
    /\ sync' = [sync EXCEPT ![m] = "unlock"]
    /\ UNCHANGED <<tables, guard, pc, target, beat, deliveries, crashes>>

SyncReleases(m) ==
    /\ sync[m] = "unlock"
    /\ Release(m)
    /\ sync' = [sync EXCEPT ![m] = "stored"]
    /\ UNCHANGED <<tables, pc, target, beat, deliveries, crashes>>

\* A process dies.  Nobody will release or renew the guard it holds.
Dies(h) ==
    /\ crashes < MaxCrashes /\ crashes' = crashes + 1
    /\ holder' = IF holder = h THEN Ghost ELSE holder
    /\ UNCHANGED <<tables, lease, deliveries>>

CrashRequest(r) ==
    /\ pc[r] # "idle" /\ Dies(r)
    /\ Finish(r)
    /\ beat' = [beat EXCEPT ![r] = "off"]
    /\ UNCHANGED sync

CrashSync(m) ==
    /\ sync[m] \in {"insert", "unlock"} /\ Dies(m)
    /\ sync' = [sync EXCEPT ![m] = IF @ = "insert" THEN "mailbox" ELSE "stored"]
    /\ UNCHANGED <<pc, target, beat>>

-----------------------------------------------------------------------------
Contend(r) ==
    RefuseIfFollowedUp(r) \/ ClaimSendAttempt(r) \/ RetrySendAttempt(r)
        \/ ReconcileStranded(r) \/ BeginTransmission(r)

Guard(r) ==
    AcquireThreadLock(r) \/ ThreadLockTimeout(r) \/ Revalidate(r) \/ FailClosedIfReplyRaced(r)
        \/ Dispatch(r) \/ (\E left, confirmed \in BOOLEAN : Transmit(r, left, confirmed))
        \/ JudgeExclusivity(r) \/ MarkSend(r) \/ ReleaseThreadLock(r)

Sync(m) == SyncStart(m) \/ SyncLocks(m) \/ SyncTimesOut(m) \/ InsertMessage(m) \/ SyncReleases(m)

Next ==
    \/ JobChanges \/ Tick
    \/ \E p \in Proposals :
          Evaluate(p) \/ (\E d \in {"APPROVED", "REJECTED"} : Decide(p, d))
              \/ \E r \in Requests : SendStart(r, p)
    \/ \E r \in Requests :
          \/ Contend(r) \/ Guard(r) \/ Raise(r) \/ CrashRequest(r)
          \/ \E raises \in BOOLEAN : RenewThreadLock(r, raises)
    \/ \E m \in Messages : Sync(m) \/ CrashSync(m)

Spec == Init /\ [][Next]_vars

\* Time passes, handlers that are being served go on, and syncs are repeated.
Fairness ==
    /\ WF_vars(Tick)
    /\ \A r \in Requests : WF_vars(Contend(r)) /\ WF_vars(Guard(r))
    /\ \A m \in Messages : WF_vars(Sync(m))

FairSpec == Spec /\ Fairness

-----------------------------------------------------------------------------
(* Properties.                                                             *)

\* At most one follow-up per anchor reaches the wire, whatever proposals,
\* requests, retries and deaths there are.
OneFollowUpPerAnchor == \A a \in Outbound : deliveries[a] <= 1

\* The guard does what it is for: a follow-up never leaves beside a stored
\* reply, or after a newer mail of the candidate, while its sender holds the
\* guard -- also when the lease was lost and a stranger had the guard meanwhile.
NoFollowUpAfterReply ==
    [][\A r \in Requests :
        (pc[r] = "transmit" /\ deliveries' # deliveries /\ pc'[r] # "transmit"
            /\ holder = r /\ Live) => NothingRaced(target[r])]_vars

\* The send rows tell the truth about the anchor: FAILED and not yet tried mean
\* that this proposal's mail never left, SENT that a mail did.
StatusTellsTheTruth ==
    \A p \in Proposals :
        /\ row[p].status = "SENT" => deliveries[AnchorOf[p]] = 1
        /\ (\A q \in Proposals : AnchorOf[q] = AnchorOf[p] => row[q].status \in {"NONE", "FAILED"})
               => deliveries[AnchorOf[p]] = 0

\* The inductive strengthening: why the properties above hold.
\* (1) The partial unique index: one live send row per anchor.
OneLiveRow(rows) ==
    \A p, q \in Proposals :
        (/\ AnchorOf[p] = AnchorOf[q]
         /\ rows[p].status \in LiveStatuses
         /\ rows[q].status \in LiveStatuses) => p = q

LiveRowIsUnique == OneLiveRow(row)

\* (2) A request past the gate owns the attempt of its proposal, alone.
Owning == {"lock"} \cup Guarded \cup Marks

HasTarget == \A r \in Requests : pc[r] # "idle" => target[r] \in Proposals

OwnerHoldsRow ==
    \A r \in Requests :
        pc[r] \in Owning => /\ row[target[r]].status \in {"PENDING", "UNCERTAIN"}
                            /\ row[target[r]].attempted

OwnerIsUnique ==
    \A r, s \in Requests :
        (pc[r] \in Owning /\ pc[s] \in Owning /\ target[r] = target[s]) => r = s

\* (3) What left is known by an attempted live row, and an owner knows whether
\* its own mail left until it no longer can.
DeliveryIsRecorded ==
    /\ \A a \in Outbound : deliveries[a] # 0 =>
          \E p \in Proposals : /\ AnchorOf[p] = a /\ row[p].attempted
                               /\ row[p].status \in LiveStatuses
    /\ \A p \in Proposals : row[p].status = "SENT" => deliveries[AnchorOf[p]] = 1

Answered == {"judge", "markSent", "markUncertain"}

OwnerKnowsOutcome ==
    \A r \in Requests :
        /\ pc[r] \in Owning \ Answered =>
              deliveries[AnchorOf[target[r]]] = 0
        /\ pc[r] \in {"judge", "markSent"} => deliveries[AnchorOf[target[r]]] = 1

IInv ==
    /\ TypeOK
    /\ HasTarget
    /\ LiveRowIsUnique
    /\ OwnerHoldsRow
    /\ OwnerIsUnique
    /\ OneFollowUpPerAnchor
    /\ DeliveryIsRecorded
    /\ OwnerKnowsOutcome

\* (4) A writer that inserts has a live guard, unless it may stall; so what a
\* sender saw under the guard stays true as long as the guard is its own.
WriterHoldsGuard ==
    \A m \in Messages : sync[m] = "insert" => holder = m /\ Live

SenderSeesThread ==
    \A r \in Requests :
        (pc[r] \in {"dispatch", "transmit"} /\ holder = r /\ Live) => NothingRaced(target[r])

GuardInv == ~WriterMayStall => WriterHoldsGuard /\ SenderSeesThread

\* The recorded fate of an anchor, as one of its proposals' rows carries it.
OutcomeIn(rows, a) ==
    LET Has(status, attempted) ==
            \E p \in Proposals : AnchorOf[p] = a /\ rows[p].status = status
                                  /\ rows[p].attempted \in attempted
    IN  CASE Has("SENT", BOOLEAN)      -> "sent"
          [] Has("UNCERTAIN", BOOLEAN) -> "unknown"
          [] Has("PENDING", {TRUE})    -> "trying"
          [] OTHER                     -> "open"

Promise == INSTANCE AtMostOnceSend WITH
    Subjects <- Outbound,
    outcome <- [a \in Outbound |-> OutcomeIn(row, a)],
    deliveries <- deliveries

\* Follow-ups implement the at-most-once promise, anchor by anchor.
KeepsPromise == Promise!ASpec

\* A guard whose holder died does not keep mail out: once nobody is sending any
\* more, every message in the mailbox is stored.
MailIsStored ==
    <>[](\A r \in Requests : pc[r] = "idle") => \A m \in Messages : <>(sync[m] = "stored")

(* A claim of the code's own comments that the run follow_up_stall refutes. *)

\* "cannot commit until the send releases the guard": no message is stored
\* while a send holds a live guard of its thread.
ReplyWaitsForTheSend ==
    [][\A m \in Messages :
        (sync[m] = "insert" /\ sync'[m] = "unlock")
            => ~(holder \in Requests /\ Live)]_vars

=============================================================================
