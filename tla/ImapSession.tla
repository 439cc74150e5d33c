----------------------------- MODULE ImapSession -----------------------------
(***************************************************************************)
(* One IMAP session: a worker thread dials, logs in and talks to a server  *)
(* that may trickle bytes for ever, and the watchdog's timer thread closes *)
(* the socket under it once the session's budget is used up.               *)
(*                                                                         *)
(* Four clients share this: the inbox sync, the XING digests, the creation *)
(* of a draft and the look-up of one.  A blocking call ends by an answer,  *)
(* by an OSError, by imaplib's abort (the peer is gone) or by its error (a *)
(* refusal), and need not end at all while the socket is open.  A reply    *)
(* that was read ahead may still be answered after the socket was closed.  *)
(***************************************************************************)
EXTENDS Naturals

CONSTANTS
    Mails,        \* how many UIDs a search returns
    Addresses,    \* how many addresses a host may resolve to
    NoSocket

VARIABLES
    kind,         \* rigid: "inbox", "digest", "create" or "find"
    pc,           \* the thread's next step
    addresses,    \* the addresses that are still to be tried
    live,         \* the object that owns the connection's descriptor
    severed,      \* that descriptor was closed by force
    bound,        \* the object the watchdog would close
    fired,        \* deadline.exceeded
    timer,        \* the timer thread
    captured,     \* the object it read under the lock
    left, got,    \* UIDs still to be fetched, and what became of each UID
    draft,        \* the APPEND: "none", "sent", "appended" or "refused"
    verdict,      \* what the call returned or raised
    flagged       \* the result's deadline_exceeded

connection == <<addresses, live, severed, bound>>
watchdog == <<fired, timer, captured>>
fetched == <<left, got, flagged>>
vars == <<kind, pc, connection, watchdog, fetched, draft, verdict>>

Raw == "raw socket"    \* of the current address; each one is an object of its own
Tls == "tls socket"
Dialing == {"resolve", "dial", "bindRaw", "connect", "wrap", "bindTls", "handshake", "greeting"}
Blocking == {"connect", "handshake", "greeting", "login", "list", "select", "status",
             "search", "body", "appending", "logout"}
Failures == {"os", "abort", "error"}
IsFetch == kind \in {"inbox", "digest"}

Init ==
    /\ kind \in {"inbox", "digest", "create", "find"}
    /\ pc = "start" /\ addresses = 0
    /\ live = NoSocket /\ severed = FALSE /\ bound = NoSocket
    /\ fired = FALSE /\ timer = "off" /\ captured = NoSocket
    /\ left = Mails /\ got = [u \in 1..Mails |-> "unasked"] /\ flagged = FALSE
    /\ draft = "none" /\ verdict = "none"

-----------------------------------------------------------------------------
(* The watchdog: _on_fire, in the three steps of its locking.              *)

Fire ==
    /\ timer = "armed" /\ timer' = "capture"
    /\ fired' = TRUE
    /\ UNCHANGED <<kind, pc, connection, captured, fetched, draft, verdict>>

Capture ==
    /\ timer = "capture" /\ timer' = "close"
    /\ captured' = bound
    /\ UNCHANGED <<kind, pc, connection, fired, fetched, draft, verdict>>

\* A raw socket whose descriptor went into a TLS socket closes nothing.
ForceClose ==
    /\ timer = "close" /\ timer' = "done"
    /\ severed' = (severed \/ (captured # NoSocket /\ captured = live))
    /\ UNCHANGED <<kind, pc, addresses, live, bound, fired, captured, fetched, draft, verdict>>

Timer == Fire \/ Capture \/ ForceClose

-----------------------------------------------------------------------------
(* What the calls raise.                                                   *)

Ends(what) == verdict' = what
Goto(step) == pc' = step

\* The exception a failure of the current step becomes.
Raised(failure) ==
    CASE kind = "create" -> "definite"
      [] kind = "find" -> "lookupError"
      [] pc \in Dialing -> "connectionError"
      [] pc = "login" -> IF failure = "os" THEN "other" ELSE "authError"
      [] failure = "os" \/ (failure = "abort" /\ kind = "digest") -> "connectionError"
      [] OTHER -> "other"

\* A session that could log in is logged out; so is one of the drafts that could not.
Fail(failure) ==
    /\ Ends(Raised(failure))
    /\ Goto(IF pc \in Dialing \/ (pc = "login" /\ IsFetch) THEN "exit" ELSE "logout")

\* An answer that cannot be used.
Refusal == IF IsFetch THEN "connectionError" ELSE Raised("error")

-----------------------------------------------------------------------------
(* Dialing: DeadlineIMAP4SSL.                                              *)

\* Credentials, switches, the pinned account, the mailbox, the budget.
Start ==
    /\ pc = "start"
    /\ \/ Goto("resolve") /\ timer' = "armed" /\ UNCHANGED verdict
       \/ Goto("ended") /\ UNCHANGED timer
          /\ Ends(CASE kind = "create" -> "definite" [] kind = "find" -> "lookupError"
                    [] OTHER -> "authError")
    /\ UNCHANGED <<kind, connection, fired, captured, fetched, draft>>

\* A child process resolves the host.  The wait for it is bounded by the budget;
\* at its end the child is killed and the session counts as exceeded.
Resolve ==
    /\ pc = "resolve"
    /\ \/ \E n \in 0..Addresses : addresses' = n /\ Goto("dial") /\ UNCHANGED <<fired, verdict>>
       \/ Fail("os") /\ UNCHANGED <<addresses, fired>>
       \/ fired' = TRUE /\ Fail("os") /\ UNCHANGED addresses
    /\ UNCHANGED <<kind, live, severed, bound, timer, captured, fetched, draft>>

Dial ==
    /\ pc = "dial"
    /\ IF fired \/ addresses = 0
       THEN Fail("os") /\ UNCHANGED <<addresses, live, severed, bound>>
       ELSE /\ Goto("bindRaw")
            /\ addresses' = addresses - 1
            /\ live' = <<Raw, addresses>>
            /\ severed' = FALSE
            /\ UNCHANGED <<bound, verdict>>
    /\ UNCHANGED <<kind, watchdog, fetched, draft>>

\* Mutant: a socket that is bound late is left to the timer.
ClosesAtOnceNever == FALSE

\* The timer has fired: it may have missed the socket that is bound only now.
ClosesAtOnce == fired

BindSocket ==
    /\ pc \in {"bindRaw", "bindTls"}
    /\ bound' = live
    /\ severed' = (severed \/ ClosesAtOnce)
    /\ Goto(IF pc = "bindRaw" THEN "connect" ELSE "handshake")
    /\ UNCHANGED <<kind, addresses, live, watchdog, fetched, draft, verdict>>

\* The next address follows one that cannot be connected to.
Connect ==
    /\ pc = "connect"
    /\ \/ ~severed /\ Goto("wrap") /\ UNCHANGED live
       \/ Goto("dial") /\ live' = NoSocket
    /\ UNCHANGED <<kind, addresses, severed, bound, watchdog, fetched, draft, verdict>>

\* The TLS object takes the descriptor over.
WrapSocket ==
    /\ pc = "wrap"
    /\ IF severed THEN Fail("os") /\ UNCHANGED live
       ELSE Goto("bindTls") /\ live' = <<Tls, addresses>> /\ UNCHANGED verdict
    /\ UNCHANGED <<kind, addresses, severed, bound, watchdog, fetched, draft>>

-----------------------------------------------------------------------------
(* Commands.                                                               *)

Following ==
    CASE pc = "handshake" -> "greeting"
      [] pc = "greeting" -> "login"
      [] pc = "login" -> IF IsFetch THEN "select" ELSE "list"
      [] pc = "list" -> IF kind = "create" THEN "append" ELSE "select"
      [] pc = "select" -> IF IsFetch THEN "status" ELSE "search"
      [] pc = "status" -> "search"
      [] pc = "search" -> IF IsFetch THEN "fetch" ELSE "logout"

\* A search that is answered completely is the result of a look-up.
Answered ==
    /\ pc \in Blocking \ {"connect", "body", "appending", "logout"}
    /\ pc = "handshake" => ~severed
    /\ Goto(Following)
    /\ IF pc = "search" /\ kind = "find" THEN Ends("result") ELSE UNCHANGED verdict
    /\ UNCHANGED <<kind, connection, watchdog, fetched, draft>>

\* NO, a mailbox that is not the Drafts mailbox, no usable UIDVALIDITY (which the
\* digests do without), a budget that is used up.
Refused ==
    /\ pc \in {"list", "select", "status", "search"} /\ ~(pc = "status" /\ kind = "digest")
    /\ Goto("logout") /\ Ends(Refusal)
    /\ UNCHANGED <<kind, connection, watchdog, fetched, draft>>

CommandFails ==
    /\ pc \in Blocking \ {"connect", "body", "appending", "logout"}
    /\ \E failure \in Failures : Fail(failure)
    /\ UNCHANGED <<kind, connection, watchdog, fetched, draft>>

-----------------------------------------------------------------------------
(* Fetching one UID after the other.                                       *)

\* The loop ends with the last UID or with the deadline.
FetchEnds ==
    /\ pc = "fetch" /\ (fired \/ left = 0)
    /\ Goto("logout") /\ Ends("result") /\ flagged' = fired
    /\ UNCHANGED <<kind, connection, watchdog, left, got, draft>>

Fetch ==
    /\ pc = "fetch" /\ ~fired /\ left > 0
    /\ Goto("body")
    /\ UNCHANGED <<kind, connection, watchdog, fetched, draft, verdict>>

Became(what) ==
    /\ got' = [got EXCEPT ![left] = what] /\ left' = left - 1
    /\ Goto("fetch") /\ UNCHANGED <<flagged, verdict>>

\* A mail, nothing, or a mail that will never be more than skipped.
Fetched ==
    /\ pc = "body"
    /\ \/ Became("answered") \/ Became("nothing")
       \/ kind = "inbox" /\ Became("permanent")
    /\ UNCHANGED <<kind, connection, watchdog, draft>>

\* The inbox sync skips the mail unless the failure is an OSError.
Skips(failure) == kind = "inbox" /\ failure # "os"

\* What either sync takes for the end of the connection.
Lost(failure) == failure = "os" \/ (kind = "digest" /\ failure = "abort")

FetchFails ==
    /\ pc = "body"
    /\ \E failure \in Failures :
          \/ Skips(failure) /\ Became(IF severed THEN "cut" ELSE "lost")
          \/ Lost(failure) /\ fired /\ Goto("fetch") /\ UNCHANGED <<fetched, verdict>>
          \/ ~Skips(failure) /\ ~(Lost(failure) /\ fired) /\ Fail(failure) /\ UNCHANGED fetched
    /\ UNCHANGED <<kind, connection, watchdog, draft>>

-----------------------------------------------------------------------------
(* APPEND: sent once; the server may act on it at any time, or never.      *)

SendAppend ==
    /\ pc = "append" /\ Goto("appending") /\ draft' = "sent"
    /\ UNCHANGED <<kind, connection, watchdog, fetched, verdict>>

ServerAppends ==
    /\ draft = "sent" /\ draft' = "appended"
    /\ UNCHANGED <<kind, pc, connection, watchdog, fetched, verdict>>

\* Mutant: a failure of APPEND is taken for one before it.
AppendFailureIsDefinite == "definite"

AppendFailure == "unknown"

AppendEnds ==
    /\ pc = "appending" /\ Goto("logout")
    /\ \/ draft = "appended" /\ Ends("result") /\ UNCHANGED draft
       \/ draft = "sent" /\ draft' = "refused" /\ Ends("definite")
       \/ Ends(AppendFailure) /\ UNCHANGED draft
    /\ UNCHANGED <<kind, connection, watchdog, fetched>>

-----------------------------------------------------------------------------
(* CLOSE and LOGOUT may block too; what they raise is swallowed.           *)

Logout ==
    /\ pc = "logout" /\ Goto("exit")
    /\ UNCHANGED <<kind, connection, watchdog, fetched, draft, verdict>>

\* A timer that has fired is not stopped any more.
Exit ==
    /\ pc = "exit" /\ Goto("ended")
    /\ timer' = IF timer = "armed" THEN "cancelled" ELSE timer
    /\ UNCHANGED <<kind, connection, fired, captured, fetched, draft, verdict>>

Thread ==
    \/ Start \/ Resolve \/ Dial \/ BindSocket \/ Connect \/ WrapSocket
    \/ Answered \/ Refused \/ CommandFails \/ FetchEnds \/ Fetch \/ Fetched \/ FetchFails
    \/ SendAppend \/ AppendEnds \/ Logout \/ Exit

Next == Thread \/ Timer \/ ServerAppends

\* The timer thread runs.  The session's thread does too, but the end of a blocking
\* call is certain only when its socket has been closed.
Ready == pc \notin Blocking \/ severed

Fairness == WF_vars(Timer) /\ WF_vars(Ready /\ Thread)

Spec == Init /\ [][Next]_vars
FairSpec == Spec /\ Fairness

-----------------------------------------------------------------------------
(* Properties.                                                             *)

\* Whatever the server does, and whenever the timer fires between the birth of
\* a socket and its registration, no session outlives its budget for ever.
SessionEnds == <>(pc = "ended")

\* After a failure that may be retried the server has no draft, and gets none.
DefiniteMeansNoDraft == verdict = "definite" => draft \in {"none", "refused"}

\* A fetch that does not say it was cut short was not: every UID was answered,
\* or the server had nothing to hand out.  (The inbox sync also counts mails as
\* skipped when the connection is lost without an OSError.)
UnflaggedIsWhole ==
    (IsFetch /\ verdict = "result" /\ ~flagged) =>
        \A u \in 1..Mails :
            got[u] \in {"answered", "permanent", "nothing"}
                       \cup (IF kind = "inbox" THEN {"lost"} ELSE {})

\* DefiniteMeansNoDraft also holds of what the server does afterwards.
IsHonest == DefiniteMeansNoDraft /\ UnflaggedIsWhole

\* "Callers catch this single type" (base.py): every failure of the inbox sync is
\* one of the provider's errors.
FailuresAreClassified == kind = "inbox" => verdict # "other"

-----------------------------------------------------------------------------
(* Why the session is honest.                                              *)

ConstantsAreSane == Mails \in Nat

Parting == {"logout", "exit", "ended"}

TypeOK ==
    /\ kind \in {"inbox", "digest", "create", "find"}
    /\ pc \in {"start", "dial", "fetch", "append"} \cup Dialing \cup Blocking \cup Parting
    /\ left \in 0..Mails
    /\ got \in [1..Mails -> {"unasked", "answered", "nothing", "permanent", "lost", "cut"}]
    /\ fired \in BOOLEAN /\ severed \in BOOLEAN /\ flagged \in BOOLEAN
    /\ draft \in {"none", "sent", "appended", "refused"}

\* Only the timer closes, and it closes after it said so.
ClosedByTheTimer ==
    /\ severed => fired
    /\ timer \in {"capture", "close"} => fired

\* A draft is sent once, by the thread that then waits for the answer, and the
\* verdict is spoken once.
SentOnce ==
    /\ pc \notin Parting => verdict = "none"
    /\ pc \in {"append", "appending"} => kind = "create"
    /\ pc \notin {"appending"} \cup Parting => draft = "none"
    /\ pc = "appending" => draft \in {"sent", "appended"}
    /\ draft \in {"sent", "appended"} /\ pc # "appending" => verdict \in {"unknown", "result"}

\* What has been asked for is answered, or the session is over its budget.
AskedIsAnswered ==
    /\ pc = "body" => left > 0
    /\ ~fired => \A u \in left + 1 .. Mails :
           got[u] \in {"answered", "permanent", "nothing"} \cup (IF kind = "inbox" THEN {"lost"} ELSE {})

IInv == TypeOK /\ ClosedByTheTimer /\ SentOnce /\ AskedIsAnswered /\ UnflaggedIsWhole
=============================================================================
