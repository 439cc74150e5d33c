---------------------------- MODULE VacancyFeed ----------------------------
(***************************************************************************)
(* The Telegram cards of newly collected vacancies                          *)
(* (app/services/telegram_vacancy_feed.py,                                  *)
(* app/db/telegram_vacancy_review_repository.py).                           *)
(*                                                                          *)
(* A collector records each job it persisted; sweeps send the cards that    *)
(* are queued, and the operator's /review sends the card of one job that    *)
(* was not queued.  The row of a job carries the claim of its one sender.   *)
(* Sweeps of a lost lease, sweeps of its successor and /review commands run *)
(* at the same time, and each may be slower than the age at which a claim   *)
(* is taken for abandoned, or die.                                          *)
(***************************************************************************)
EXTENDS Naturals, Sequences

CONSTANTS
    Jobs,         \* vacancies
    Sweeps,       \* deliveries of queued cards
    Manuals,      \* /review commands
    MaxAttempts,  \* MAX_DELIVERY_ATTEMPTS
    MaxSends,     \* bound: requests to Telegram for one job
    Nobody        \* no claim

VARIABLES
    job,      \* job[j]: what the record of j says now
    row,      \* row[j]: the review row; state "none" before it is inserted
    sender,   \* sender[s]: where a sweep or a command is
    sends     \* history: sends[j], the requests made for the card of j

vars == <<job, row, sender, sends>>

Senders == Sweeps \cup Manuals
Idle == [pc |-> "idle"]
DecisionStates == {"SAVED", "SKIPPED"}
DecidableStates == {"TELEGRAM_SENT", "DELIVERY_UNCERTAIN"} \cup DecisionStates
ClaimableStates == {"QUEUED_FOR_REVIEW", "DISCOVERED"}

Rows ==
    [state : {"none", "SENDING", "DELIVERY_FAILED"} \cup DecidableStates \cup ClaimableStates,
     claim : Senders \cup {Nobody}, old : BOOLEAN, attempts : 0..MaxAttempts, held : BOOLEAN]

Init ==
    /\ job = [j \in Jobs |-> "MAYBE"]
    /\ row = [j \in Jobs |-> [state |-> "none", claim |-> Nobody, old |-> FALSE,
                              attempts |-> 0, held |-> FALSE]]
    /\ sender = [s \in Senders |-> Idle]
    /\ sends = [j \in Jobs |-> <<>>]

Becomes(s, record) == sender' = [sender EXCEPT ![s] = record]
Ends(s) == Becomes(s, Idle)

-----------------------------------------------------------------------------
(* Jobs and the collector                                                   *)

\* APPLY with enough score and NEW; MAYBE and NEW; or of no further interest:
\* skipped by the scorer, applied for, or moved on.
Eligible(j) == job[j] = "APPLY"
MayReview(j) == job[j] \in {"APPLY", "MAYBE"}

Rescore(j) ==
    /\ \E what \in {"APPLY", "MAYBE", "GONE"} \ {job[j]} : job' = [job EXCEPT ![j] = what]
    /\ UNCHANGED <<row, sender, sends>>

\* The first sight inserts the row; a later one queues a discovered row that is not held.
EnsureReview(j, eligible) ==
    CASE row[j].state = "none" ->
             [row EXCEPT ![j].state = IF eligible THEN "QUEUED_FOR_REVIEW" ELSE "DISCOVERED"]
      [] row[j].state = "DISCOVERED" /\ eligible /\ ~row[j].held ->
             [row EXCEPT ![j].state = "QUEUED_FOR_REVIEW"]
      [] OTHER -> row

Collect(j) ==
    /\ row' = EnsureReview(j, Eligible(j))
    /\ UNCHANGED <<job, sender, sends>>

ClaimAges(j) ==
    /\ row[j].state = "SENDING" /\ ~row[j].old
    /\ row' = [row EXCEPT ![j].old = TRUE]
    /\ UNCHANGED <<job, sender, sends>>

-----------------------------------------------------------------------------
(* The row's transitions                                                    *)

OwnsClaim(s, j) == row[j].state = "SENDING" /\ row[j].claim = s

Free(r, state) == [r EXCEPT !.state = state, !.claim = Nobody, !.old = FALSE]

\* Where a card goes that is known to be unsent: the queue, or the operator's hold.
Retry(r, s) ==
    IF s \in Manuals THEN [Free(r, "DISCOVERED") EXCEPT !.held = TRUE]
    ELSE [Free(r, "QUEUED_FOR_REVIEW") EXCEPT !.held = FALSE]

Released(r, s) == [Retry(r, s) EXCEPT !.attempts = @ - 1]

SendFailed(r, s) ==
    IF r.attempts >= MaxAttempts THEN [Retry(r, s) EXCEPT !.state = "DELIVERY_FAILED"]
    ELSE Retry(r, s)

Resolved(r, s, outcome) ==
    CASE outcome = "SENT" -> [Free(r, "TELEGRAM_SENT") EXCEPT !.held = FALSE]
      [] outcome = "FAILED" -> SendFailed(r, s)
      [] outcome = "UNCERTAIN" -> [Free(r, "DELIVERY_UNCERTAIN") EXCEPT !.held = FALSE]

\* Every write of a claim's outcome presents the claim.
Settle(s, j, settled) == row' = IF OwnsClaim(s, j) THEN [row EXCEPT ![j] = settled] ELSE row

\* Mutant: a card whose sender is silent is sent again.
ReconcileStaleToQueue ==
    [j \in Jobs |-> IF row[j].state = "SENDING" /\ row[j].old
                    THEN Free(row[j], "QUEUED_FOR_REVIEW") ELSE row[j]]

ReconcileStale ==
    [j \in Jobs |-> IF row[j].state = "SENDING" /\ row[j].old
                    THEN [Free(row[j], "DELIVERY_UNCERTAIN") EXCEPT !.held = FALSE] ELSE row[j]]

\* A sweep goes on with its next card, a command ends.
NextOf(s) == IF s \in Sweeps THEN [sender[s] EXCEPT !.pc = "next"] ELSE Idle

ClaimForSending(s, j, from) ==
    IF row[j].state = from
    THEN /\ row' = [row EXCEPT ![j].state = "SENDING", ![j].claim = s, ![j].old = FALSE,
                               ![j].attempts = @ + 1]
         /\ Becomes(s, [sender[s] EXCEPT !.pc = "render", !.job = j])
    ELSE Becomes(s, NextOf(s)) /\ UNCHANGED row

-----------------------------------------------------------------------------
(* A sweep                                                                  *)

Sweep(s) ==
    /\ sender[s].pc = "idle"
    /\ row' = ReconcileStale
    /\ LET queued == {j \in Jobs : row[j].state = "QUEUED_FOR_REVIEW"} IN
       IF queued = {} THEN UNCHANGED sender
       ELSE Becomes(s, [pc |-> "next", todo |-> queued, job |-> CHOOSE j \in queued : TRUE])
    /\ UNCHANGED <<job, sends>>

\* Eligibility is looked up again for each row of the list; a lost lease ends the sweep.
Check(s) ==
    /\ sender[s].pc = "next"
    /\ \E j \in sender[s].todo :
           LET rest == [sender[s] EXCEPT !.todo = @ \ {j}, !.job = j] IN
           \/ /\ ~Eligible(j)
              /\ row' = IF row[j].state = "QUEUED_FOR_REVIEW"
                        THEN [row EXCEPT ![j].state = "DISCOVERED"] ELSE row
              /\ Becomes(s, rest)
           \/ /\ Eligible(j)
              /\ Becomes(s, [rest EXCEPT !.pc = "claim"])
              /\ UNCHANGED row
    /\ UNCHANGED <<job, sends>>

SweepEnds(s) ==
    /\ \/ sender[s].pc = "next" /\ sender[s].todo = {}
       \/ sender[s].pc = "claim" /\ s \in Sweeps  \* the lease was lost
    /\ Ends(s)
    /\ UNCHANGED <<job, row, sends>>

Claim(s) ==
    /\ sender[s].pc = "claim"
    /\ ClaimForSending(s, sender[s].job, IF s \in Sweeps THEN "QUEUED_FOR_REVIEW" ELSE sender[s].from)
    /\ UNCHANGED <<job, sends>>

-----------------------------------------------------------------------------
(* The operator's /review                                                   *)

\* Only a card that was never under way, or is known to be unsent, is claimed.
Review(m, j) ==
    /\ sender[m].pc = "idle"
    /\ MayReview(j)
    /\ row' = EnsureReview(j, FALSE)
    /\ IF row'[j].state \in ClaimableStates
       THEN Becomes(m, [pc |-> "claim", todo |-> {}, job |-> j, from |-> row'[j].state])
       ELSE UNCHANGED sender
    /\ UNCHANGED <<job, sends>>

-----------------------------------------------------------------------------
(* One claimed card                                                         *)

\* Rendering, or reading the skills, fails: a sweep counts an attempt, a command does not.
Unrenderable(s) ==
    LET j == sender[s].job IN
    /\ sender[s].pc = "render"
    /\ Settle(s, j, IF s \in Manuals THEN Released(row[j], s) ELSE SendFailed(row[j], s))
    /\ Becomes(s, NextOf(s))
    /\ UNCHANGED <<job, sends>>

LeaseLost(s) ==
    LET j == sender[s].job IN
    /\ sender[s].pc = "render" /\ s \in Sweeps
    /\ Settle(s, j, Released(row[j], s))
    /\ Ends(s)
    /\ UNCHANGED <<job, sends>>

\* Telegram takes the card, refuses it, or its answer is lost and the card may be there.
Send(s) ==
    LET j == sender[s].job IN
    /\ sender[s].pc = "render"
    /\ Len(sends[j]) < MaxSends
    /\ \E outcome \in {"SENT", "FAILED", "UNCERTAIN"}, arrived \in BOOLEAN :
           /\ outcome = "SENT" => arrived
           /\ outcome = "FAILED" => ~arrived
           /\ sends' = [sends EXCEPT ![j] = Append(@, [by |-> s, outcome |-> outcome, arrived |-> arrived])]
           /\ Becomes(s, [sender[s] EXCEPT !.pc = outcome])
    /\ UNCHANGED <<job, row>>

Resolve(s) ==
    LET j == sender[s].job
        outcome == sender[s].pc IN
    /\ outcome \in {"SENT", "FAILED", "UNCERTAIN"}
    /\ Settle(s, j, Resolved(row[j], s, outcome))
    /\ Becomes(s, NextOf(s))
    /\ UNCHANGED <<job, sends>>

Dies(s) ==
    /\ sender[s].pc # "idle"
    /\ Ends(s)
    /\ UNCHANGED <<job, row, sends>>

-----------------------------------------------------------------------------
(* Save and Skip on the card                                                *)

Arrived(j) == \E k \in DOMAIN sends[j] : sends[j][k].arrived

RecordDecision(j) ==
    /\ Arrived(j)
    /\ row[j].state \in DecidableStates
    /\ \E decision \in DecisionStates \ {row[j].state} : row' = [row EXCEPT ![j].state = decision]
    /\ UNCHANGED <<job, sender, sends>>

Next ==
    \/ \E j \in Jobs : Rescore(j) \/ Collect(j) \/ ClaimAges(j) \/ RecordDecision(j)
    \/ \E s \in Sweeps : Sweep(s) \/ Check(s) \/ SweepEnds(s) \/ LeaseLost(s)
    \/ \E m \in Manuals, j \in Jobs : Review(m, j)
    \/ \E s \in Senders : Claim(s) \/ Unrenderable(s) \/ Send(s) \/ Resolve(s) \/ Dies(s)

Spec == Init /\ [][Next]_vars

-----------------------------------------------------------------------------
(* Properties                                                               *)

Refused(send) == send.outcome = "FAILED"
MayBeThere(j) == {k \in DOMAIN sends[j] : ~Refused(sends[j][k])}

\* At most one card per vacancy may be in the chat, and none while its row says
\* that it is still to be sent, or was given up; a card that is there was sent
\* by the sender whose outcome the row records (telegram_vacancy_feed.py,
\* _send_claimed_card; reconcile_stale_sending).
OneCardPerJob ==
    \A j \in Jobs :
        /\ \A k, l \in MayBeThere(j) : k = l
        /\ MayBeThere(j) # {} => row[j].state \in {"SENDING"} \cup DecidableStates
        /\ row[j].state \in {"TELEGRAM_SENT"} \cup DecisionStates => Arrived(j)

\* Once the operator's own card failed, only the operator sends it again: no
\* sweep does, whatever is collected or rescored in between (_not_manual_hold).
HeldForOperator ==
    \A j \in Jobs : \A k, l \in DOMAIN sends[j] :
        k < l /\ sends[j][k].by \in Manuals => sends[j][l].by \in Manuals

\* What the feed promises of each card.
FeedIsSound == row \in [Jobs -> Rows] /\ OneCardPerJob /\ HeldForOperator

-----------------------------------------------------------------------------
(* Why it holds                                                             *)

\* A card may be tried at least once, and a sweep is no command.
ConstantsAreSane ==
    /\ MaxAttempts \in Nat \ {0}
    /\ Sweeps \cap Manuals = {} /\ Nobody \notin Senders

Steps == {"next", "claim", "render", "SENT", "FAILED", "UNCERTAIN"}
Sends == [by : Senders, outcome : {"SENT", "FAILED", "UNCERTAIN"}, arrived : BOOLEAN]

TypeOK ==
    /\ job \in [Jobs -> {"APPLY", "MAYBE", "GONE"}]
    /\ row \in [Jobs -> Rows]
    /\ sender \in [Senders -> {Idle} \cup [pc : Steps, todo : SUBSET Jobs, job : Jobs]
                             \cup [pc : Steps, todo : SUBSET Jobs, job : Jobs, from : ClaimableStates]]
    /\ \A m \in Manuals : sender[m].pc = "claim" => sender[m].from \in ClaimableStates
    /\ sends \in [Jobs -> Seq(Sends)]

\* Whoever may claim a card has an attempt left; whoever claimed it has used one.
BudgetHolds ==
    \A j \in Jobs :
        /\ row[j].state \in {"none"} \cup ClaimableStates => row[j].attempts < MaxAttempts
        /\ row[j].state = "SENDING" => row[j].attempts > 0

\* s has claimed the card of j and has not yet written what became of it.
Holds(s, j) ==
    sender[s].pc \in {"render", "SENT", "FAILED", "UNCERTAIN"} /\ sender[s].job = j

\* A sender that lost its claim lost it for good: the card waits for nobody else.
ClaimIsAlone ==
    \A s \in Senders, j \in Jobs : Holds(s, j) =>
        /\ OwnsClaim(s, j) \/ row[j].state \in DecidableStates
        /\ \A t \in Senders : Holds(t, j) => t = s

SentByOperator(j) == \E k \in DOMAIN sends[j] : sends[j][k].by \in Manuals

\* What the one sender knows of its card.
SenderKnows ==
    \A s \in Senders, j \in Jobs : Holds(s, j) =>
        /\ sender[s].pc \in {"render", "FAILED"} => MayBeThere(j) = {}
        /\ sender[s].pc = "SENT" => Arrived(j)
        /\ sender[s].pc = "render" /\ s \in Sweeps => ~SentByOperator(j)

\* A card the operator sent is out, is the operator's, or is held.
OperatorHolds ==
    \A j \in Jobs : SentByOperator(j) =>
        \/ row[j].state \in DecidableStates
        \/ row[j].state = "SENDING" /\ row[j].claim \in Manuals
        \/ row[j].held /\ row[j].state \in {"DISCOVERED", "DELIVERY_FAILED"}

IInv ==
    /\ TypeOK /\ BudgetHolds /\ ClaimIsAlone /\ SenderKnows /\ OneCardPerJob
    /\ OperatorHolds /\ HeldForOperator
=============================================================================
