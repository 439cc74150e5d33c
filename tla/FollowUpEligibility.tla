------------------------- MODULE FollowUpEligibility -------------------------
(***************************************************************************)
(* Whether a job's last mail is still unanswered: the rule that every      *)
(* follow-up is proposed and sent by, over the rows the mail sync stored.  *)
(*                                                                         *)
(* Mail arrives at the provider in one order and is stored here in any     *)
(* other: INBOX is persisted before Sent, a sync may fetch a backlog, and  *)
(* a message may be stored long after it arrived.  A row is stamped with   *)
(* the INTERNALDATE of the message, which counts in seconds, or, where the *)
(* server's answer cannot be parsed, with the time of persisting, and then *)
(* it is not trusted.  The clocks of the provider and of the service are   *)
(* taken to agree.                                                         *)
(***************************************************************************)
EXTENDS Naturals

CONSTANTS
    Mails,         \* messages of the matched thread
    Outbound,      \* those the candidate sent; the others are replies
    Delay,         \* follow_up_delay_days
    Second(_),     \* an instant as INTERNALDATE gives it
    NoMail,
    MaxNow         \* bound on the time the model runs

ASSUME ConstantsAssumption ==
    /\ Outbound \subseteq Mails /\ NoMail \notin Mails
    /\ Delay \in Nat /\ MaxNow \in Nat

ASSUME SecondAssumption ==
    \A t \in 0..MaxNow : Second(t) \in Nat /\ Second(t) <= t

VARIABLES
    now,
    atProvider,           \* the mails that have arrived at the provider
    arrived,              \* arrived[m]: when
    id,                   \* id[m]: primary key of m's row, 0 before it is stored
    lastId,
    stamp, trusted,       \* provider_arrival_at, provider_arrival_is_trusted
    pc, checkedAt, anchor,  \* one evaluation: next step, its now, the anchor it read
    verdict               \* what the last evaluation returned

mailbox == <<atProvider, arrived>>
rows == <<id, lastId, stamp, trusted>>
evaluation == <<pc, checkedAt, anchor, verdict>>
vars == <<now, mailbox, rows, evaluation>>

Inbound == Mails \ Outbound
Times == 0..MaxNow
Stored(direction) == {m \in direction : id[m] # 0}

TypeOK ==
    /\ now \in Times
    /\ atProvider \subseteq Mails /\ arrived \in [Mails -> Times]
    /\ id \in [Mails -> Nat] /\ lastId \in Nat
    /\ stamp \in [Mails -> Times] /\ trusted \in [Mails -> BOOLEAN]
    /\ pc \in {"idle", "outbound", "inbound"} /\ checkedAt \in Times
    /\ anchor \in Outbound \cup {NoMail}
    /\ verdict \in {"none", "ELIGIBLE", "NOT_ELIGIBLE"}

Init ==
    /\ now = 0
    /\ atProvider = {} /\ arrived = [m \in Mails |-> 0]
    /\ id = [m \in Mails |-> 0] /\ lastId = 0
    /\ stamp = [m \in Mails |-> 0] /\ trusted = [m \in Mails |-> FALSE]
    /\ pc = "idle" /\ checkedAt = 0
    /\ anchor = NoMail /\ verdict = "none"

-----------------------------------------------------------------------------
(* Mail arrives, and the sync stores it.                                   *)

Tick ==
    /\ now < MaxNow /\ now' = now + 1
    /\ UNCHANGED <<mailbox, rows, evaluation>>

Arrive(m) ==
    /\ m \notin atProvider
    /\ atProvider' = atProvider \cup {m}
    /\ arrived' = [arrived EXCEPT ![m] = now]
    /\ UNCHANGED <<now, rows, evaluation>>

\* Mutant: the fallback is trusted like an INTERNALDATE.
TrustedAlways(parsed) == TRUE

Trusted(parsed) == parsed

\* Mutant: nothing is written where there is no INTERNALDATE.
StampMissing(m, parsed) == IF parsed THEN Second(arrived[m]) ELSE NoMail

Stamp(m, parsed) == IF parsed THEN Second(arrived[m]) ELSE now

UpsertMessage(m, parsed) ==
    /\ m \in atProvider /\ id[m] = 0
    /\ lastId' = lastId + 1
    /\ id' = [id EXCEPT ![m] = lastId']
    /\ stamp' = [stamp EXCEPT ![m] = Stamp(m, parsed)]
    /\ trusted' = [trusted EXCEPT ![m] = Trusted(parsed)]
    /\ UNCHANGED <<now, mailbox, evaluation>>

-----------------------------------------------------------------------------
(* One evaluation: compute_fresh_follow_up_state.                          *)

\* Mutant: the latest message is the one that was stored last.
LatestById(m, direction) ==
    m \in Stored(direction) /\ \A n \in Stored(direction) : id[n] <= id[m]

\* ORDER BY provider_arrival_at DESC, id DESC LIMIT 1.
Latest(m, direction) ==
    /\ m \in Stored(direction)
    /\ \A n \in Stored(direction) :
          stamp[n] < stamp[m] \/ (stamp[n] = stamp[m] /\ id[n] <= id[m])

\* What one of the two queries returns.
Reads(m, direction) ==
    IF Stored(direction) = {} THEN m = NoMail ELSE Latest(m, direction)

\* APPLIED, with one thread that is matched to no other job.
BeginEvaluation(status, threads, jobs) ==
    /\ pc = "idle" /\ checkedAt' = now
    /\ IF status = "APPLIED" /\ threads = 1 /\ jobs = 1
         THEN pc' = "outbound" /\ verdict' = "none"
         ELSE pc' = pc /\ verdict' = "NOT_ELIGIBLE"
    /\ UNCHANGED <<now, mailbox, rows, anchor>>

ReadLatestOutbound ==
    /\ pc = "outbound" /\ pc' = "inbound"
    /\ \E m \in Outbound \cup {NoMail} : Reads(m, Outbound) /\ anchor' = m
    /\ UNCHANGED <<now, mailbox, rows, checkedAt, verdict>>

\* Mutant: the reply is compared by the order of the rows.
RepliedById(reply) == id[reply] > id[anchor]

Replied(reply) == stamp[reply] > stamp[anchor]

Eligible(reply) ==
    /\ anchor # NoMail /\ trusted[anchor]
    /\ reply # NoMail => trusted[reply] /\ ~Replied(reply)
    /\ checkedAt >= stamp[anchor] + Delay

ReadLatestInbound ==
    /\ pc = "inbound" /\ pc' = "idle"
    /\ \E m \in Inbound \cup {NoMail} :
          /\ Reads(m, Inbound)
          /\ verdict' = IF Eligible(m) THEN "ELIGIBLE" ELSE "NOT_ELIGIBLE"
    /\ UNCHANGED <<now, mailbox, rows, checkedAt, anchor>>

Next ==
    \/ Tick
    \/ \E m \in Mails : Arrive(m) \/ \E parsed \in BOOLEAN : UpsertMessage(m, parsed)
    \/ \E status \in {"APPLIED", "INTERVIEW"}, threads \in 0..2, jobs \in 0..2 :
          BeginEvaluation(status, threads, jobs)
    \/ ReadLatestOutbound \/ ReadLatestInbound

Spec == Init /\ [][Next]_vars

-----------------------------------------------------------------------------
(* Properties.                                                             *)

\* Arrived strictly later, as far as the provider can tell.
After(m, n) == Second(arrived[m]) > Second(arrived[n])

BecomesEligible == verdict # "ELIGIBLE" /\ verdict' = "ELIGIBLE"

\* ELIGIBLE means unanswered: of all replies that are stored, however many, in
\* whatever order they were stored, none came after the anchor, although the rule
\* looks at one inbound row only and some rows have the wrong stamp.
NoReplyIsOverlooked ==
    [][BecomesEligible => \A m \in Stored(Inbound) : ~After(m, anchor)]_vars

\* No later mail of the candidate was stored when the anchor was read.
AnchorIsLastMail ==
    [][pc = "outbound" /\ pc' = "inbound" /\ anchor' # NoMail /\ trusted[anchor'] =>
          \A m \in Stored(Outbound) : ~After(m, anchor')]_vars

\* What they rest on: a stamp may be late but is never early, and a trusted one is
\* exact.
StampsAreNotEarly ==
    /\ checkedAt <= now
    /\ anchor # NoMail => id[anchor] # 0
    /\ \A m \in Mails :
          id[m] # 0 =>
              /\ stamp[m] >= Second(arrived[m])
              /\ trusted[m] => stamp[m] = Second(arrived[m])
    /\ \A m \in Mails : arrived[m] <= now /\ (id[m] # 0 => m \in atProvider)

=============================================================================
