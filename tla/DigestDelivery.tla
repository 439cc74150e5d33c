---------------------------- MODULE DigestDelivery ----------------------------
(***************************************************************************)
(* The daily Telegram digest of one account: scheduler workers poll, and   *)
(* the row (account, date) in telegram_digest_deliveries decides who may   *)
(* send the digest of a date, once.                                        *)
(*                                                                         *)
(* A poll takes its time and date at its start.  A PENDING row whose       *)
(* updated_at lies more than TTL before the start of a poll is given up:   *)
(* age[d] is the time since row d became PENDING, and stale[w] the verdict *)
(* updated_at < cutoff of worker w's poll, which a row that is written     *)
(* again after the poll began no longer meets.                             *)
(***************************************************************************)
EXTENDS Naturals

CONSTANTS
    Workers,       \* scheduler processes
    LastDate,      \* the dates are 1..LastDate; the last does not end
    TTL            \* STALE_PENDING_TTL_SECONDS

ASSUME ConstantsAssumption == LastDate \in Nat \ {0} /\ TTL \in Nat

Dates == 1..LastDate

VARIABLES
    today, due,    \* the local date, and whether its digest hour has come
    status,        \* status[d]: the row of date d, "NONE" without a row
    age,           \* age[d]: time since it became PENDING, up to TTL + 1
    pc, date,      \* pc[w], date[w]: the next step of worker w, its poll's date
    stale,         \* stale[w]: w's cutoff is past updated_at of its date's row
    deliveries     \* deliveries[d]: digests of date d that reached the chat

clock == <<today, due>>
rows == <<status, age>>
vars == <<clock, rows, pc, date, stale, deliveries>>

Statuses == {"PENDING", "SENT", "FAILED", "UNCERTAIN"}
Marks == {"markSent", "markFailed", "markUncertain"}
Owning == {"send"} \cup Marks
Steps == {"idle", "claim", "reconcile", "retry"} \cup Owning

TypeOK ==
    /\ today \in Dates /\ due \in BOOLEAN
    /\ status \in [Dates -> {"NONE"} \cup Statuses]
    /\ age \in [Dates -> 0..(TTL + 1)]
    /\ pc \in [Workers -> Steps]
    /\ date \in [Workers -> Dates]
    /\ stale \in [Workers -> BOOLEAN]
    /\ deliveries \in [Dates -> Nat]

Init ==
    /\ today = 1 /\ due = FALSE
    /\ status = [d \in Dates |-> "NONE"]
    /\ age = [d \in Dates |-> 0]
    /\ pc = [w \in Workers |-> "idle"]
    /\ date = [w \in Workers |-> 1]
    /\ stale = [w \in Workers |-> FALSE]
    /\ deliveries = [d \in Dates |-> 0]

-----------------------------------------------------------------------------
(* Time.                                                                   *)

Tick ==
    /\ \E d \in Dates : status[d] = "PENDING" /\ age[d] <= TTL
    /\ age' = [d \in Dates |-> IF status[d] = "PENDING" /\ age[d] <= TTL
                                 THEN age[d] + 1 ELSE age[d]]
    /\ UNCHANGED <<clock, status, pc, date, stale, deliveries>>

DigestHour ==
    /\ ~due /\ due' = TRUE
    /\ UNCHANGED <<today, rows, pc, date, stale, deliveries>>

Midnight ==
    /\ today < LastDate /\ today' = today + 1
    /\ due' = FALSE
    /\ UNCHANGED <<rows, pc, date, stale, deliveries>>

-----------------------------------------------------------------------------
(* One poll: run_due_digest_if_claimed.                                    *)

Goto(w, step) == pc' = [pc EXCEPT ![w] = step]

\* The row of date d becomes PENDING now: no poll under way finds it stale.
StartAttempt(d) ==
    /\ status' = [status EXCEPT ![d] = "PENDING"]
    /\ age' = [age EXCEPT ![d] = 0]
    /\ stale' = [w \in Workers |-> stale[w] /\ date[w] # d]

Poll(w) ==
    /\ pc[w] = "idle" /\ due
    /\ Goto(w, "claim")
    /\ date' = [date EXCEPT ![w] = today]
    /\ stale' = [stale EXCEPT ![w] = age[today] > TTL]
    /\ UNCHANGED <<clock, rows, deliveries>>

\* What the row of the date, if it is there, makes of the poll.
StepFor(found) ==
    CASE found = "NONE" -> "send"
      [] found = "PENDING" -> "reconcile"
      [] found = "FAILED" -> "retry"
      [] found \in {"SENT", "UNCERTAIN"} -> "idle"

ClaimDelivery(w) ==
    LET d == date[w]
    IN  /\ pc[w] = "claim"
        /\ Goto(w, StepFor(status[d]))
        /\ IF status[d] = "NONE" THEN StartAttempt(d) ELSE UNCHANGED <<rows, stale>>
        /\ UNCHANGED <<clock, date, deliveries>>

\* Mutant: a stranded claim is tried again instead of given up.
ReconciledToFailed == "FAILED"

ReconciledTo == "UNCERTAIN"

\* Mutant: a claim is never found stale.
StaleMatchesNever(w) == FALSE

StaleMatches(w) == status[date[w]] = "PENDING" /\ stale[w]

ReconcileStalePending(w) ==
    /\ pc[w] = "reconcile"
    /\ IF StaleMatches(w)
         THEN status' = [status EXCEPT ![date[w]] = ReconciledTo] ELSE UNCHANGED status
    /\ Goto(w, "idle")
    /\ UNCHANGED <<clock, age, date, stale, deliveries>>

\* Mutant: the status is not compared again when the retry is written.
RetryMatchesAny(w) == TRUE

RetryMatches(w) == status[date[w]] = "FAILED"

RetryDelivery(w) ==
    /\ pc[w] = "retry"
    /\ IF RetryMatches(w)
         THEN StartAttempt(date[w]) /\ Goto(w, "send")
         ELSE Goto(w, "idle") /\ UNCHANGED <<rows, stale>>
    /\ UNCHANGED <<clock, date, deliveries>>

\* SENT only for a 2xx; FAILED only for a refused connection or a refusal by
\* Telegram; everything else, an exception included, is UNCERTAIN.
OutcomesOf(left) ==
    IF left THEN {"markSent", "markUncertain"} ELSE {"markFailed", "markUncertain"}

SendTelegramText(w, left) ==
    /\ pc[w] = "send"
    /\ deliveries' = IF left THEN [deliveries EXCEPT ![date[w]] = @ + 1] ELSE deliveries
    /\ \E mark \in OutcomesOf(left) : Goto(w, mark)
    /\ UNCHANGED <<clock, rows, date, stale>>

MarkFor(step) ==
    CASE step = "markSent" -> "SENT"
      [] step = "markFailed" -> "FAILED"
      [] step = "markUncertain" -> "UNCERTAIN"

\* Mutant: the outcome is written whatever the row says by now.
MarkMatchesAny(w) == TRUE

MarkMatches(w) == status[date[w]] = "PENDING"

Mark(w) ==
    /\ pc[w] \in Marks
    /\ IF MarkMatches(w)
         THEN status' = [status EXCEPT ![date[w]] = MarkFor(pc[w])] ELSE UNCHANGED status
    /\ Goto(w, "idle")
    /\ UNCHANGED <<clock, age, date, stale, deliveries>>

\* The worker dies, or a statement raises and the poll loop swallows it.
Abandon(w) ==
    /\ pc[w] # "idle" /\ Goto(w, "idle")
    /\ UNCHANGED <<clock, rows, date, stale, deliveries>>

-----------------------------------------------------------------------------
Work(w) ==
    \/ Poll(w) \/ ClaimDelivery(w) \/ ReconcileStalePending(w) \/ RetryDelivery(w)
    \/ \E left \in BOOLEAN : SendTelegramText(w, left)
    \/ Mark(w)

Next ==
    \/ Tick \/ DigestHour \/ Midnight
    \/ \E w \in Workers : Work(w) \/ Abandon(w)

Spec == Init /\ [][Next]_vars

\* Time passes, workers, restarted whenever they die, keep polling, and not every
\* poll dies before its first statements.
Fairness ==
    /\ WF_vars(Tick) /\ WF_vars(DigestHour)
    /\ \A w \in Workers :
          WF_vars(Work(w)) /\ SF_vars(ClaimDelivery(w)) /\ SF_vars(ReconcileStalePending(w))

FairSpec == Spec /\ Fairness

-----------------------------------------------------------------------------
(* Properties.                                                             *)

\* The chat gets at most one digest of a date, whatever workers, retries and
\* deaths there are.
AtMostOneDigest == \A d \in Dates : deliveries[d] <= 1

\* SENT means the digest is in the chat; no row, or a FAILED one, that it is not.
StatusTellsTheTruth ==
    \A d \in Dates :
        /\ status[d] = "SENT" => deliveries[d] = 1
        /\ status[d] \in {"NONE", "FAILED"} => deliveries[d] = 0

\* At most one worker may be between its claim and its verdict while the row is
\* PENDING; after its row was given up, nobody else gets to send.
OwnerIsUnique ==
    \A v, w \in Workers :
        (v # w /\ date[v] = date[w] /\ pc[v] \in Owning) => pc[w] \notin Owning

OwnerHoldsRow ==
    \A w \in Workers :
        pc[w] \in Owning =>
            /\ status[date[w]] \in {"PENDING", "UNCERTAIN"}
            /\ pc[w] \in {"send", "markFailed"} => deliveries[date[w]] = 0
            /\ pc[w] = "markSent" => deliveries[date[w]] = 1

IInv ==
    TypeOK /\ AtMostOneDigest /\ StatusTellsTheTruth /\ OwnerIsUnique /\ OwnerHoldsRow

Promise == INSTANCE AtMostOnceSend WITH
    Subjects <- Dates,
    outcome <- [d \in Dates |-> CASE status[d] \in {"NONE", "FAILED"} -> "open"
                                  [] status[d] = "PENDING" -> "trying"
                                  [] status[d] = "UNCERTAIN" -> "unknown"
                                  [] status[d] = "SENT" -> "sent"],
    deliveries <- deliveries

\* The digest keeps the at-most-once promise, date by date.
KeepsPromise == Promise!ASpec

\* A claim whose worker died is resolved if its date lasts: it does not block
\* the polls of the day for ever.
StrandedClaimIsResolved ==
    \A d \in Dates : <>[](today = d) => []<>(status[d] # "PENDING")

=============================================================================
