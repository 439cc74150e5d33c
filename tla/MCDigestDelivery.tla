--------------------------- MODULE MCDigestDelivery ---------------------------
(***************************************************************************)
(* What the operator is told each day, for TLC: the daily digest           *)
(* (scheduler processes, two dates, a time to live short enough for claims *)
(* to become stale) and the mail that is synchronised and prepared.  A     *)
(* behaviour runs one of the two under its fairness; the other does not    *)
(* start.                                                                  *)
(***************************************************************************)
EXTENDS DigestDelivery

CONSTANTS w1, w2,                                                       \* digest
          Mails, Ids, Boxes, Syncs, Runs, Batch, Limit, Contexts, Nobody, \* mail
          Off

VARIABLES part,
          mail, arrived, claim, stored, thread, skipped, sync, context, work, run

digestVars == vars
mailVars == <<mail, arrived, claim, stored, thread, skipped, sync, context, work, run>>

G == INSTANCE GmailSync

\* Where the mailbox starts when the digest runs.
QuietMailbox ==
    /\ mail = [m \in Mails |-> [box |-> "INBOX", kind |-> "alone", id |-> CHOOSE i \in Ids : TRUE]]
    /\ context = [m \in Mails |-> 0]

MCInit ==
    /\ part \in {"digest", "mail"}
    /\ Init /\ G!Init
    /\ part # "mail" => QuietMailbox

MCNext ==
    /\ UNCHANGED part
    /\ \/ part = "digest" /\ Next /\ UNCHANGED mailVars
       \/ part = "mail" /\ G!Next /\ UNCHANGED digestVars

\* The Fairness of DigestDelivery and of GmailSync, each where its system runs.
MCFairness ==
    /\ WF_digestVars(part = "digest" /\ Tick)
    /\ WF_digestVars(part = "digest" /\ DigestHour)
    /\ \A w \in Workers :
          /\ WF_digestVars(part = "digest" /\ Work(w))
          /\ SF_digestVars(part = "digest" /\ ClaimDelivery(w))
          /\ SF_digestVars(part = "digest" /\ ReconcileStalePending(w))
    /\ \A s \in Syncs :
          /\ WF_mailVars(part = "mail" /\ G!SyncStep(s))
          /\ \A m \in Mails : SF_mailVars(part = "mail" /\ G!HandsOut(s, m))
    /\ \A r \in Runs : WF_mailVars(part = "mail" /\ (G!ListUnprocessed(r) \/ G!RunStep(r)))
    /\ <>[][part = "mail" => ~G!Fault]_mailVars

MCSpec == MCInit /\ [][MCNext]_<<part, digestVars, mailVars>> /\ MCFairness

\* A mail that arrives is in the end processed, or known never to be; and what is
\* processed was prepared (GmailSync).
EveryMailIsHandled == G!EveryMailIsHandled /\ []G!MailIsSound

===============================================================================
