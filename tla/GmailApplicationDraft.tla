------------------------ MODULE GmailApplicationDraft ------------------------
(***************************************************************************)
(* The Gmail draft of one approved application package.  Presses of "create*)
(* draft" compete for the ledger row of the package's approval link, the   *)
(* winner arms its attempt and hands one APPEND to a worker thread; the    *)
(* operator may withdraw the package (SKIP), and a press of "check status" *)
(* looks an uncertain draft up in the mailbox.                             *)
(*                                                                         *)
(* claim_token is drawn anew whenever attempt_count grows, and the marker  *)
(* whenever an attempt is armed, so the attempt number stands for both.    *)
(* Time is the age of the armed attempt: "young" until its deadline_at,    *)
(* then "late", "stale" when STALE_MARGIN_SECONDS have passed as well; and *)
(* leaseOver, for an unarmed claim older than CLAIM_LEASE_SECONDS.         *)
(***************************************************************************)
EXTENDS Naturals

CONSTANTS
    Ops,           \* presses that are being served
    MaxAttempts,   \* bound: attempts made at the row
    MaxCrashes     \* bound: processes that die while they serve a press

ASSUME ConstantsAssumption == MaxAttempts \in Nat \ {0} /\ MaxCrashes \in Nat

Attempts == 1..MaxAttempts
Kinds == {"CREATED", "FAILED", "UNCERTAIN"}
Steps == {"idle", "claim", "arm", "fence", "await", "finalize", "recover", "lookup", "record"}
MaxRecoveryReads == 3

VARIABLES
    state,         \* state of the ledger row, "NONE" without a row
    attempt,       \* attempt_count
    armed,         \* append_started_at and the marker are set
    leaseOver,     \* claim_started_at is older than the lease
    age,           \* of the armed attempt
    withdrawn,     \* the operator's effective decision on the package is SKIP
    wire,          \* wire[a]: what became of the APPEND of attempt a
    pc,            \* pc[o]: the next step of press o
    mine,          \* mine[o]: the attempt o claimed, or looks up
    worker,        \* worker[o]: the thread of o that calls the provider
    evidence,      \* evidence[o]: the outcome o wants to record
    seen,          \* seen[o]: the state o's next CAS expects
    reads,         \* reads[o]: recovery reads o has left
    crashes

row == <<state, attempt, armed, leaseOver>>
locals == <<mine, evidence, seen, reads>>
vars == <<row, age, withdrawn, wire, pc, worker, locals, crashes>>

TypeOK ==
    /\ state \in {"NONE", "CREATING"} \cup Kinds
    /\ attempt \in 0..MaxAttempts
    /\ armed \in BOOLEAN /\ leaseOver \in BOOLEAN /\ withdrawn \in BOOLEAN
    /\ age \in {"young", "late", "stale"}
    /\ wire \in [Attempts -> {"none", "flying", "stored", "rejected", "lost"}]
    /\ pc \in [Ops -> Steps]
    /\ mine \in [Ops -> 0..MaxAttempts]
    /\ worker \in [Ops -> {"none", "append", "wait"}]
    /\ evidence \in [Ops -> Kinds]
    /\ seen \in [Ops -> {"CREATING", "UNCERTAIN"}]
    /\ reads \in [Ops -> 0..MaxRecoveryReads]
    /\ crashes \in 0..MaxCrashes

Init ==
    /\ state = "NONE" /\ attempt = 0 /\ armed = FALSE /\ leaseOver = FALSE
    /\ age = "young" /\ withdrawn = FALSE
    /\ wire = [a \in Attempts |-> "none"]
    /\ pc = [o \in Ops |-> "idle"]
    /\ mine = [o \in Ops |-> 0]
    /\ worker = [o \in Ops |-> "none"]
    /\ evidence = [o \in Ops |-> "UNCERTAIN"]
    /\ seen = [o \in Ops |-> "CREATING"]
    /\ reads = [o \in Ops |-> 0]
    /\ crashes = 0

Goto(o, step) == pc' = [pc EXCEPT ![o] = step]

-----------------------------------------------------------------------------
(* Time, and the operator's decision.                                      *)

LeaseExpires ==
    /\ state = "CREATING" /\ ~armed /\ ~leaseOver
    /\ leaseOver' = TRUE
    /\ UNCHANGED <<state, attempt, armed, age, withdrawn, wire, pc, worker, locals, crashes>>

AttemptAges ==
    /\ armed /\ age # "stale"
    /\ age' = IF age = "young" THEN "late" ELSE "stale"
    /\ UNCHANGED <<row, withdrawn, wire, pc, worker, locals, crashes>>

\* ~has_armed_attempt_for_review
NothingInFlight == ~(state = "CREATING" /\ armed)

\* A SKIP is written and checked against the ledger under one write lock.
Withdraw ==
    /\ ~withdrawn /\ NothingInFlight
    /\ withdrawn' = TRUE
    /\ UNCHANGED <<row, age, wire, pc, worker, locals, crashes>>

\* An override turns the SKIP into an APPROVE.
Reapprove ==
    /\ withdrawn
    /\ withdrawn' = FALSE
    /\ UNCHANGED <<row, age, wire, pc, worker, locals, crashes>>

-----------------------------------------------------------------------------
(* Claim and arm.  A commit that raises may have succeeded, and grants     *)
(* nothing.                                                                *)

\* A first claim, a retry after a definite failure, or the takeover of an
\* unarmed claim whose lease is over.
Claimable ==
    \/ state \in {"NONE", "FAILED"}
    \/ state = "CREATING" /\ ~armed /\ leaseOver

CanTry == Claimable /\ attempt < MaxAttempts

\* A press that finds the row claimable and the package approved.
Press(o) ==
    /\ pc[o] = "idle" /\ worker[o] = "none"
    /\ CanTry /\ ~withdrawn
    /\ Goto(o, "claim")
    /\ UNCHANGED <<row, age, withdrawn, wire, worker, locals, crashes>>

\* insert_claim, retry_failed or takeover_pre_fence, decided by the row as it
\* is now.
Claim(o) ==
    /\ pc[o] = "claim" /\ CanTry
    /\ state' = "CREATING" /\ attempt' = attempt + 1
    /\ armed' = FALSE /\ leaseOver' = FALSE
    /\ mine' = [mine EXCEPT ![o] = attempt + 1]
    /\ \/ Goto(o, "arm")
       \/ Goto(o, "idle")
    /\ UNCHANGED <<age, withdrawn, wire, worker, evidence, seen, reads, crashes>>

\* Another press owns the row, the package is refused before a claim, or the
\* database fails.
GiveUp(o) ==
    /\ pc[o] \in {"claim", "arm", "fence"}
    /\ Goto(o, "idle")
    /\ UNCHANGED <<row, age, withdrawn, wire, worker, locals, crashes>>

Owns(o) == state = "CREATING" /\ attempt = mine[o]

Revalidate(o) ==
    /\ pc[o] = "arm" /\ ~withdrawn
    /\ Owns(o) /\ ~armed
    /\ Goto(o, "fence")
    /\ UNCHANGED <<row, age, withdrawn, wire, worker, locals, crashes>>

\* Mutant: the decision is not looked at again.
ApprovedWhenRead == TRUE

StillApproved == ~withdrawn

\* _release: a definite refusal of the package gives the unarmed claim up.
Release(o) ==
    /\ pc[o] = "arm" \/ (pc[o] = "fence" /\ ~StillApproved)
    /\ Owns(o) /\ ~armed
    /\ state' = "FAILED"
    /\ Goto(o, "idle")
    /\ UNCHANGED <<attempt, armed, leaseOver, age, withdrawn, wire, worker, locals, crashes>>

\* begin_append: the fence is set and the decision read again under the write
\* lock; only an acknowledged commit lets the worker go.
BeginAppend(o) ==
    /\ pc[o] = "fence" /\ Owns(o) /\ ~armed /\ StillApproved
    /\ armed' = TRUE /\ age' = "young"
    /\ \/ Goto(o, "await") /\ worker' = [worker EXCEPT ![o] = "append"]
       \/ Goto(o, "idle") /\ UNCHANGED worker
    /\ UNCHANGED <<state, attempt, leaseOver, withdrawn, wire, locals, crashes>>

-----------------------------------------------------------------------------
(* The worker thread and the mail server.                                  *)

\* More than APPEND_SAFETY_MARGIN_SECONDS remain; the session is cut at the
\* deadline.
InTime == age = "young"

Append(o) ==
    /\ worker[o] = "append" /\ InTime
    /\ worker' = [worker EXCEPT ![o] = "wait"]
    /\ wire' = [wire EXCEPT ![mine[o]] = "flying"]
    /\ UNCHANGED <<row, age, withdrawn, pc, locals, crashes>>

ServerActs(a) ==
    /\ wire[a] = "flying"
    /\ \E fate \in {"stored", "rejected", "lost"} : wire' = [wire EXCEPT ![a] = fate]
    /\ UNCHANGED <<row, age, withdrawn, pc, worker, locals, crashes>>

\* The press takes kind as its evidence, unless it was cancelled meanwhile.
TakeEvidence(o, kind) ==
    IF pc[o] = "await"
    THEN /\ Goto(o, "finalize")
         /\ evidence' = [evidence EXCEPT ![o] = kind]
         /\ seen' = [seen EXCEPT ![o] = "CREATING"]
         /\ reads' = [reads EXCEPT ![o] = MaxRecoveryReads]
    ELSE UNCHANGED <<pc, evidence, seen, reads>>

\* A DraftCreateDefiniteError before the APPEND: no budget, session or mailbox.
FailBeforeAppend(o) ==
    /\ worker[o] = "append"
    /\ worker' = [worker EXCEPT ![o] = "none"]
    /\ TakeEvidence(o, "FAILED")
    /\ UNCHANGED <<row, age, withdrawn, wire, mine, crashes>>

\* Mutant: a connection that breaks is taken for a refusal.
VerdictsOfBrokenConnection(answer) ==
    CASE answer = "stored" -> {"CREATED", "FAILED"}
      [] OTHER -> {"FAILED"}

\* Only a tagged answer that arrives is definite.
Verdicts(answer) ==
    CASE answer = "stored" -> {"CREATED", "UNCERTAIN"}
      [] answer = "rejected" -> {"FAILED", "UNCERTAIN"}
      [] OTHER -> {"UNCERTAIN"}

AppendReturns(o) ==
    /\ worker[o] = "wait"
    /\ worker' = [worker EXCEPT ![o] = "none"]
    /\ \E kind \in Verdicts(wire[mine[o]]) : TakeEvidence(o, kind)
    /\ UNCHANGED <<row, age, withdrawn, wire, mine, crashes>>

\* The request is cancelled; its thread goes on.
Cancel(o) ==
    /\ pc[o] = "await"
    /\ TakeEvidence(o, "UNCERTAIN")
    /\ UNCHANGED <<row, age, withdrawn, wire, worker, mine, crashes>>

-----------------------------------------------------------------------------
(* Recording the outcome.                                                  *)

\* finalize_* for a CREATING row, retained_ok_created for an UNCERTAIN one.
CasMatches(o) == state = seen[o] /\ attempt = mine[o] /\ armed

\* The CAS is acknowledged, or takes effect without that, or does not.
Finalize(o) ==
    /\ pc[o] = "finalize"
    /\ \/ /\ CasMatches(o)
          /\ state' = evidence[o]
          /\ \/ Goto(o, "idle")
             \/ Goto(o, "recover")
       \/ Goto(o, "recover") /\ UNCHANGED state
    /\ UNCHANGED <<attempt, armed, leaseOver, age, withdrawn, wire, worker, locals, crashes>>

\* Mutant: one read too many.
OneReadMore(o) == reads[o] >= 0

ReadsLeft(o) == reads[o] > 0

\* A fresh read finds the same attempt in a state the evidence may still change.
TriesAgain(o) ==
    /\ attempt = mine[o] /\ armed
    /\ state = "CREATING" \/ (state = "UNCERTAIN" /\ evidence[o] = "CREATED")

Recover(o) ==
    /\ pc[o] = "recover" /\ ReadsLeft(o)
    /\ reads' = [reads EXCEPT ![o] = @ - 1]
    /\ \/ /\ TriesAgain(o)
          /\ Goto(o, "finalize")
          /\ seen' = [seen EXCEPT ![o] = state]
       \/ /\ ~TriesAgain(o)
          /\ Goto(o, "idle")
          /\ UNCHANGED seen
       \/ UNCHANGED <<pc, seen>>        \* the read fails
    /\ UNCHANGED <<row, age, withdrawn, wire, worker, mine, evidence, crashes>>

RecoveryEnds(o) ==
    /\ pc[o] = "recover" /\ ~ReadsLeft(o)
    /\ Goto(o, "idle")
    /\ UNCHANGED <<row, age, withdrawn, wire, worker, locals, crashes>>

\* Mutant: an armed attempt is left to its owner.
StaleNever == FALSE

IsStaleArmed == state = "CREATING" /\ armed /\ age = "stale"

\* Any press, of either kind, that meets an armed attempt past its time.
ClassifyStale ==
    /\ IsStaleArmed
    /\ state' = "UNCERTAIN"
    /\ UNCHANGED <<attempt, armed, leaseOver, age, withdrawn, wire, pc, worker, locals, crashes>>

-----------------------------------------------------------------------------
(* "Check status": a read-only look for the marker of an uncertain attempt.*)

LookUp(o) ==
    /\ pc[o] = "idle" /\ worker[o] = "none"
    /\ state = "UNCERTAIN" /\ age # "young"
    /\ Goto(o, "lookup")
    /\ mine' = [mine EXCEPT ![o] = attempt]
    /\ UNCHANGED <<row, age, withdrawn, wire, worker, evidence, seen, reads, crashes>>

\* Exactly one match; anything else, an error included, changes nothing.
LookUpReturns(o) ==
    /\ pc[o] = "lookup"
    /\ Goto(o, "idle") \/ (wire[mine[o]] = "stored" /\ Goto(o, "record"))
    /\ UNCHANGED <<row, age, withdrawn, wire, worker, locals, crashes>>

RecordFound(o) ==
    /\ pc[o] = "record"
    /\ Goto(o, "idle")
    /\ state' = IF state = "UNCERTAIN" /\ attempt = mine[o] THEN "CREATED" ELSE state
    /\ UNCHANGED <<attempt, armed, leaseOver, age, withdrawn, wire, worker, locals, crashes>>

-----------------------------------------------------------------------------

Crash(o) ==
    /\ crashes < MaxCrashes
    /\ pc[o] # "idle" \/ worker[o] # "none"
    /\ crashes' = crashes + 1
    /\ Goto(o, "idle")
    /\ worker' = [worker EXCEPT ![o] = "none"]
    /\ UNCHANGED <<row, age, withdrawn, wire, locals>>

Serve(o) ==
    \/ Claim(o) \/ GiveUp(o) \/ Revalidate(o) \/ Release(o) \/ BeginAppend(o)
    \/ Finalize(o) \/ Recover(o) \/ RecoveryEnds(o)
    \/ LookUpReturns(o) \/ RecordFound(o)

CallProvider(o) == Append(o) \/ FailBeforeAppend(o) \/ AppendReturns(o)

Next ==
    \/ LeaseExpires \/ AttemptAges \/ Withdraw \/ Reapprove \/ ClassifyStale
    \/ \E o \in Ops : \/ Press(o) \/ LookUp(o) \/ Serve(o)
                      \/ CallProvider(o) \/ Cancel(o) \/ Crash(o)
    \/ \E a \in Attempts : ServerActs(a)

Spec == Init /\ [][Next]_vars

\* Threads run and time passes; the session's deadline ends every provider call.
FairSpec ==
    /\ Spec
    /\ WF_vars(LeaseExpires) /\ WF_vars(AttemptAges)
    /\ \A o \in Ops : WF_vars(Serve(o)) /\ WF_vars(CallProvider(o))

-----------------------------------------------------------------------------
(* Properties.                                                             *)

MayBeStored(a) == wire[a] \in {"flying", "stored"}

\* What may lie in the mailbox is the one draft of the row's armed attempt, and
\* the row does not call it FAILED; a row that is CREATED has its draft there.
\* So no retry, takeover or late verdict ever leads to a second draft.
LedgerTellsTheTruth ==
    /\ \A a \in Attempts :
          MayBeStored(a) => a = attempt /\ armed /\ state \in {"CREATING", "CREATED", "UNCERTAIN"}
    /\ state = "CREATED" => wire[attempt] = "stored"

\* No request appends a draft of a package that the operator has withdrawn.
\* (The thread of a cancelled request may: its attempt is UNCERTAIN at once, and
\* UNCERTAIN does not hold a SKIP up.)
NoAppendAfterWithdrawal ==
    [][\A o \in Ops : Append(o) => ~withdrawn \/ pc[o] # "await"]_vars

\* A press holds its attempt from the claim on, a cancelled one until its thread
\* has ended, and no attempt has two holders.
Holds(o) == pc[o] \in {"arm", "fence", "await", "finalize", "recover"} \/ worker[o] # "none"

AttemptsHaveOneHolder ==
    /\ \A o \in Ops : mine[o] <= attempt /\ (Holds(o) => mine[o] \in Attempts)
    /\ \A o, p \in Ops : o # p /\ Holds(o) /\ Holds(p) => mine[o] # mine[p]

\* An attempt that was not claimed, or not armed, has sent nothing.
NothingSentEarly ==
    /\ \A a \in Attempts : a > attempt => wire[a] = "none"
    /\ \A o \in Ops : pc[o] \in {"arm", "fence"} => wire[mine[o]] = "none"
    /\ \A o \in Ops : pc[o] \in {"claim", "arm", "fence", "lookup", "record"} => worker[o] = "none"

\* A thread that may still append works for the row's armed attempt, which is
\* pending and not withdrawn as long as its request waits and its time lasts.
MayAppend(o) ==
    /\ armed /\ mine[o] = attempt /\ wire[attempt] = "none"
    /\ state \in {"CREATING", "UNCERTAIN"}
    /\ pc[o] = "await" /\ InTime => state = "CREATING" /\ ~withdrawn

AppendsArePermitted == \A o \in Ops : worker[o] = "append" => MayAppend(o)

\* Evidence is what the wire says, and its thread is done if it is definite.
Supports(o) ==
    /\ evidence[o] = "CREATED" => wire[mine[o]] = "stored"
    /\ evidence[o] = "FAILED" => ~MayBeStored(mine[o])
    /\ evidence[o] # "UNCERTAIN" => worker[o] = "none"

EvidenceIsSound ==
    /\ \A o \in Ops : pc[o] \in {"finalize", "recover"} => Supports(o)
    /\ \A o \in Ops : pc[o] = "lookup" => mine[o] \in Attempts
    /\ \A o \in Ops : pc[o] = "record" => mine[o] \in Attempts /\ wire[mine[o]] = "stored"

RowIsInOrder ==
    /\ state = "NONE" <=> attempt = 0
    /\ attempt = 0 => ~armed
    /\ state \in {"CREATED", "UNCERTAIN"} => armed

IInv ==
    /\ TypeOK /\ LedgerTellsTheTruth /\ RowIsInOrder /\ AttemptsHaveOneHolder
    /\ NothingSentEarly /\ AppendsArePermitted /\ EvidenceIsSound

\* An attempt whose press died, lost a commit or could not record its outcome
\* does not stay CREATING, if presses keep coming while the package is approved
\* and the database does not refuse every claim.
PressesKeepComing ==
    /\ WF_vars(ClassifyStale)
    /\ \A o \in Ops : WF_vars(Press(o)) /\ SF_vars(Claim(o))

Pending(a) == state = "CREATING" /\ attempt = a

StrandedAttemptIsResolved ==
    PressesKeepComing =>
        \A a \in 1..(MaxAttempts - 1) : Pending(a) ~> (~Pending(a) \/ withdrawn)

=============================================================================
