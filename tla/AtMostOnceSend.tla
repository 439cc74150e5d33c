--------------------------- MODULE AtMostOnceSend ---------------------------
(***************************************************************************)
(* What every outbound channel of the service promises about one subject   *)
(* (an inbound message that may be answered, a follow-up anchor, the       *)
(* digest of one day): whatever requests race, crash or are repeated, the  *)
(* outside world hears at most one transmission, and the recorded outcome  *)
(* never claims more than is known.  "open" means nothing has left and a   *)
(* later attempt is allowed, "trying" that one attempt owns the subject,   *)
(* "sent" that the provider confirmed, "unknown" that nobody can tell and  *)
(* nothing will ever be retried.  The machinery (rows, approvals, CAS      *)
(* updates, requests) is left to the modules that implement this one.      *)
(***************************************************************************)
EXTENDS Naturals

CONSTANT Subjects

VARIABLES
    outcome,      \* outcome[s]: the recorded fate of subject s
    deliveries    \* deliveries[s]: transmissions of s that reached the wire

avars == <<outcome, deliveries>>

Outcomes == {"open", "trying", "sent", "unknown"}

AInit ==
    /\ outcome = [s \in Subjects |-> "open"]
    /\ deliveries = [s \in Subjects |-> 0]

Resolve(s, from, to) ==
    /\ outcome[s] \in from
    /\ outcome' = [outcome EXCEPT ![s] = to]
    /\ UNCHANGED deliveries

\* One attempt becomes the owner of a subject nothing was ever sent for.
Begin(s) == deliveries[s] = 0 /\ Resolve(s, {"open"}, "trying")

\* The owner's message leaves; its row may already have been given up on.
Deliver(s) ==
    /\ outcome[s] \in {"trying", "unknown"}
    /\ deliveries[s] = 0
    /\ deliveries' = [deliveries EXCEPT ![s] = 1]
    /\ UNCHANGED outcome

Confirm(s) == deliveries[s] = 1 /\ Resolve(s, {"trying"}, "sent")

\* A definite failure: nothing left, so the subject may be tried again.
Release(s) == deliveries[s] = 0 /\ Resolve(s, {"trying"}, "open")

\* The outcome is given up as unknowable, for good.
LoseTrack(s) == Resolve(s, {"open", "trying"}, "unknown")

ANext ==
    \E s \in Subjects :
        Begin(s) \/ Deliver(s) \/ Confirm(s) \/ Release(s) \/ LoseTrack(s)

ASpec == AInit /\ [][ANext]_avars

=============================================================================
