------------------------------ MODULE MCSmtpSend ------------------------------
(***************************************************************************)
(* What must end although a thread or a process does not, for TLC: one     *)
(* call of the SMTP provider (the whole system, without any bound), the    *)
(* slot of a run that died, and an IMAP session.  A behaviour runs one of  *)
(* the three; the others stay where they start.                            *)
(***************************************************************************)
EXTENDS SmtpSend, TLC

CONSTANTS restCycle, restCycle2, key, TTL, Extension, Deadline, MaxLag, MaxCrashes, Nobody,
          Mails, Addresses, NoSocket

VARIABLES part,
          status, lease, heartbeat, pc, held, finished, tries, inHand, result,
          proven, orphan, extended, overtaken, crashes,
          kind, step, addresses, live, severed, bound, fired, timer, captured,
          left, got, draft, ending, flagged

smtpVars == vars
leaseVars == <<status, lease, heartbeat, pc, held, finished, tries, inHand, result,
               proven, orphan, extended, overtaken, crashes>>
imapVars == <<kind, step, addresses, live, severed, bound, fired, timer, captured,
              left, got, draft, ending, flagged>>

\* Two cycles of one key.
Cycles == {restCycle, restCycle2}
L == INSTANCE AutomationLease WITH
        Procs <- Cycles, KeysOf <- [p \in Cycles |-> <<key>>], Manual <- {}, Keys <- {key},
        done <- finished, worker <- orphan

I == INSTANCE ImapSession WITH pc <- step, verdict <- ending

ASSUME SessionConstants == I!ConstantsAreSane

MCInit ==
    /\ part \in {"smtp", "lease", "imap"}
    /\ Init
    /\ L!Init
    /\ I!Init /\ (part # "imap" => kind = "inbox")

MCNext ==
    /\ UNCHANGED part
    /\ \/ part = "smtp" /\ Next /\ UNCHANGED <<leaseVars, imapVars>>
       \/ part = "lease" /\ L!Next /\ UNCHANGED <<smtpVars, imapVars>>
       \/ part = "imap" /\ I!Next /\ UNCHANGED <<smtpVars, leaseVars>>

\* The Fairness of each module, where its system runs.
MCFairness ==
    /\ WF_smtpVars(part = "smtp" /\ Caller)
    /\ WF_smtpVars(part = "smtp" /\ sock = "aborted" /\ Worker)
    /\ WF_leaseVars(part = "lease" /\ L!Tick)
    /\ \A p \in Cycles :
          /\ WF_leaseVars(part = "lease" /\ L!Claim(p))
          /\ WF_leaseVars(part = "lease" /\ L!Execute(p))
          /\ WF_leaseVars(part = "lease" /\ L!HeartbeatEnds(p, key))
    /\ WF_imapVars(part = "imap" /\ I!Timer)
    /\ WF_imapVars(part = "imap" /\ I!Ready /\ I!Thread)

MCSpec == MCInit /\ [][MCNext]_<<part, smtpVars, leaseVars, imapVars>> /\ MCFairness

\* The slot of a cycle that died is freed (AutomationLease).
AbandonedSlotIsFreed == L!AbandonedSlotIsFreed

\* An IMAP session ends, what it reports is so, and how it fails (ImapSession).
SessionEnds == part = "imap" => I!SessionEnds
SessionIsHonest == part = "imap" => I!IsHonest
FailuresAreClassified == part = "imap" => I!FailuresAreClassified

===============================================================================
