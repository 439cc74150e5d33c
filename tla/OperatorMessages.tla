-------------------------- MODULE OperatorMessages --------------------------
(***************************************************************************)
(* The two kinds of messages that the operator's command line sends to     *)
(* Telegram: the card of an application package                             *)
(* (telegram_operator_control.py, send_card) and the notice of a change     *)
(* that an employer's answer made (telegram_operator_notifications.py).     *)
(*                                                                          *)
(* Each message has one ledger row (telegram_operator_repository.py), and   *)
(* the row carries no claim token: whoever inserts it or takes a failed one *)
(* up again sends, and writes the outcome if the row still says SENDING.    *)
(* Commands run at the same time, may be slow, and may die.                 *)
(***************************************************************************)
EXTENDS Naturals, FiniteSets

CONSTANTS
    Cards,        \* targets: an application with its review package
    Events,       \* recorded lifecycle events, numbered in the order of their ids
    Commands,     \* invocations of the command line
    MaxAttempts,  \* MAX_DELIVERY_ATTEMPTS
    Scan          \* how many of the oldest events a sweep looks at

VARIABLES
    row,      \* row[t]: the ledger row of a card or an event
    events,   \* the events recorded so far
    command,  \* command[c]: where an invocation is
    arrived   \* history: arrived[t], requests for t that Telegram did not refuse

vars == <<row, events, command, arrived>>

Messages == Cards \cup Events
Idle == [pc |-> "idle"]
Rows == [state : {"none", "SENDING", "SENT", "FAILED", "UNCERTAIN"},
         attempts : 0..MaxAttempts, old : BOOLEAN]

Init ==
    /\ row = [t \in Messages |-> [state |-> "none", attempts |-> 0, old |-> FALSE]]
    /\ events = {}
    /\ command = [c \in Commands |-> Idle]
    /\ arrived = [t \in Messages |-> 0]

Becomes(c, record) == command' = [command EXCEPT ![c] = record]
Ends(c) == Becomes(c, Idle)

RecordEvent(e) ==
    /\ events' = events \cup {e}
    /\ \A f \in Events : f < e => f \in events
    /\ UNCHANGED <<row, command, arrived>>

Ages(t) ==
    /\ row[t].state = "SENDING" /\ ~row[t].old
    /\ row' = [row EXCEPT ![t].old = TRUE]
    /\ UNCHANGED <<events, command, arrived>>

Retryable(t) == row[t].state = "FAILED" /\ row[t].attempts < MaxAttempts

\* UNIQUE(target) lets one insert through, the compare-and-swap one retry.
MayClaim(t, seen) == IF seen = "none" THEN row[t].state = "none" ELSE Retryable(t)

-----------------------------------------------------------------------------
(* A card                                                                   *)

Reads(c, t, todo) == Becomes(c, [pc |-> "claim", target |-> t, seen |-> row'[t].state, todo |-> todo])

\* Mutant: a claim that is too old counts as a failed send.
ReconcileStaleCardAsFailed(t) ==
    IF row[t].state = "SENDING" /\ row[t].old
    THEN [row EXCEPT ![t].state = "FAILED", ![t].old = FALSE] ELSE row

\* A claim that is too old is never taken for a failure.
ReconcileStaleCard(t) ==
    IF row[t].state = "SENDING" /\ row[t].old
    THEN [row EXCEPT ![t].state = "UNCERTAIN", ![t].old = FALSE] ELSE row

SendCard(c, t) ==
    /\ command[c].pc = "idle"
    /\ row' = ReconcileStaleCard(t)
    /\ IF row'[t].state \in {"none", "FAILED"} THEN Reads(c, t, {}) ELSE UNCHANGED command
    /\ UNCHANGED <<events, arrived>>

-----------------------------------------------------------------------------
(* Notifications                                                            *)

Oldest == {e \in events : Cardinality({f \in events : f < e}) < Scan}

FindPending(c) ==
    LET pending == {e \in Oldest : row[e].state = "none" \/ Retryable(e)} IN
    /\ command[c].pc = "idle"
    /\ pending # {}
    /\ Becomes(c, [pc |-> "next", todo |-> pending])
    /\ UNCHANGED <<row, events, arrived>>

\* The row is read again when the event's turn comes.
DeliverNotification(c) ==
    /\ command[c].pc = "next"
    /\ UNCHANGED row
    /\ \E e \in command[c].todo : Reads(c, e, command[c].todo \ {e})
    /\ UNCHANGED <<events, arrived>>

-----------------------------------------------------------------------------
(* Claim, send, resolve                                                     *)

Goes(c) == IF command[c].todo = {} THEN Ends(c) ELSE Becomes(c, [pc |-> "next", todo |-> command[c].todo])

Claim(c) ==
    LET t == command[c].target IN
    /\ command[c].pc = "claim"
    /\ IF MayClaim(t, command[c].seen)
       THEN /\ row' = [row EXCEPT ![t].state = "SENDING", ![t].attempts = @ + 1, ![t].old = FALSE]
            /\ Becomes(c, [command[c] EXCEPT !.pc = "send"])
       ELSE Goes(c) /\ UNCHANGED row
    /\ UNCHANGED <<events, arrived>>

\* A message that cannot be sent raises before any request: FAILED as well.
Send(c) ==
    LET t == command[c].target IN
    /\ command[c].pc = "send"
    /\ \E outcome \in {"SENT", "FAILED", "UNCERTAIN"} :
           /\ Becomes(c, [command[c] EXCEPT !.pc = "resolve", !.seen = outcome])
           /\ arrived' = IF outcome = "FAILED" THEN arrived ELSE [arrived EXCEPT ![t] = @ + 1]
    /\ UNCHANGED <<row, events>>

Resolve(c) ==
    LET t == command[c].target IN
    /\ command[c].pc = "resolve"
    /\ row' = IF row[t].state = "SENDING"
              THEN [row EXCEPT ![t].state = command[c].seen, ![t].old = FALSE] ELSE row
    /\ Goes(c)
    /\ UNCHANGED <<events, arrived>>

Dies(c) ==
    /\ command[c].pc # "idle"
    /\ Ends(c)
    /\ UNCHANGED <<row, events, arrived>>

Next ==
    \/ \E e \in Events : RecordEvent(e)
    \/ \E t \in Messages : Ages(t)
    \/ \E c \in Commands :
           \/ \E t \in Cards : SendCard(c, t)
           \/ FindPending(c) \/ DeliverNotification(c)
           \/ Claim(c) \/ Send(c) \/ Resolve(c) \/ Dies(c)

Spec == Init /\ [][Next]_vars

-----------------------------------------------------------------------------
(* Properties                                                               *)

\* At most one request per card or event may have reached the chat, although no
\* claim names its owner: a row that may be claimed has no sender left, and what
\* it says of the message is what became of it (telegram_operator_repository.py,
\* reclaim_failed_card, resolve_card, reconcile_stale_card).
OneMessagePerTarget ==
    /\ row \in [Messages -> Rows]
    /\ \A t \in Messages :
        /\ arrived[t] <= 1
        /\ arrived[t] = 1 => row[t].state \in {"SENDING", "SENT", "UNCERTAIN"}
        /\ row[t].state = "SENT" => arrived[t] = 1
        /\ \A c, d \in Commands :
               command[c].pc = "send" /\ command[c].target = t
                 /\ command[d].pc = "send" /\ command[d].target = t => c = d

Promise == INSTANCE AtMostOnceSend WITH
    Subjects <- Messages,
    outcome <- [t \in Messages |-> CASE row[t].state \in {"none", "FAILED"} -> "open"
                                     [] row[t].state = "SENDING" -> "trying"
                                     [] row[t].state = "UNCERTAIN" -> "unknown"
                                     [] row[t].state = "SENT" -> "sent"],
    deliveries <- arrived

\* Card by card and notice by notice, the at-most-once promise is kept: what is
\* not known to be unsent is not sent again.
KeepsPromise == Promise!ASpec

-----------------------------------------------------------------------------
(* Why it holds                                                             *)

\* A message may be tried at least once.
ConstantsAreSane == MaxAttempts \in Nat \ {0}

\* c has claimed t and has not yet written what became of it.
HasClaimed(c, t) == command[c].pc \in {"send", "resolve"} /\ command[c].target = t

CommandStates ==
    {Idle} \cup [pc : {"next"}, todo : SUBSET Events]
    \cup [pc : {"claim", "send"}, target : Messages, seen : {"none", "SENDING", "SENT", "FAILED", "UNCERTAIN"},
          todo : SUBSET Events]
    \cup [pc : {"resolve"}, target : Messages, seen : {"SENT", "FAILED", "UNCERTAIN"}, todo : SUBSET Events]

TypeOK ==
    /\ row \in [Messages -> Rows]
    /\ events \subseteq Events
    /\ command \in [Commands -> CommandStates]
    /\ arrived \in [Messages -> {0, 1}]

\* A row that was never claimed, or failed, has no sender: nothing else keeps a
\* second command from taking it up.
ClaimIsAlone ==
    \A c \in Commands, t \in Messages : HasClaimed(c, t) =>
        /\ row[t].state \in {"SENDING", "UNCERTAIN"}
        /\ \A d \in Commands : HasClaimed(d, t) => d = c

\* What the one sender knows of its request, and the row of all of them.
OutcomeIsTrue ==
    \A t \in Messages :
        /\ row[t].state \in {"none", "FAILED"} => arrived[t] = 0
        /\ row[t].state = "SENT" => arrived[t] = 1
        /\ row[t].state = "none" => row[t].attempts = 0
        /\ \A c \in Commands : HasClaimed(c, t) =>
               /\ command[c].pc = "send" \/ command[c].seen = "FAILED" => arrived[t] = 0
               /\ command[c].pc = "resolve" /\ command[c].seen = "SENT" => arrived[t] = 1

IInv == TypeOK /\ ClaimIsAlone /\ OutcomeIsTrue
=============================================================================
