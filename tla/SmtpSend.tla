------------------------------ MODULE SmtpSend ------------------------------
(***************************************************************************)
(* One call of GmailSmtpProvider.send: a worker thread does the blocking   *)
(* SMTP work, the calling thread waits for it up to a total deadline, and  *)
(* the two meet under gate_lock.  The sends of replies and follow-ups rest *)
(* on what the verdict of this call says about the wire: a definite        *)
(* failure is retried, an unknown outcome never is.                        *)
(*                                                                         *)
(* Every socket operation may hang, fail or succeed.  The deadline may     *)
(* fire at any moment of the wait.  A section under gate_lock is one step. *)
(***************************************************************************)

VARIABLES
    phase,           \* state["phase"]
    client,          \* whether state["client"] is set
    sock,            \* the client's socket: "none", "open" or "aborted"
    done, outcome,   \* the event and what the worker left for the caller
    caller, worker,  \* the next step of each thread
    alreadySending,  \* the caller's reading of the phase at the deadline
    attempted,       \* send_message was called
    accepted,        \* the server has the message
    verdict          \* what send returned or raised

shared == <<phase, client, done, outcome>>
wire == <<attempted, accepted>>
ofCaller == <<caller, alreadySending, verdict>>
vars == <<shared, sock, worker, wire, ofCaller>>

Phases == {"before_send", "sending", "cancelled"}
Verdicts == {"result", "definite", "unknown", "other"}
Connecting == {"connect", "greeting", "login"}
Quitting == {"quit", "quitSent", "quitRaised"}
PastGate == {"send", "transmit", "ended"} \cup Quitting
Resolved == {"close", "join", "raise"}

TypeOK ==
    /\ phase \in Phases /\ client \in BOOLEAN
    /\ sock \in {"none", "open", "aborted"}
    /\ done \in BOOLEAN /\ outcome \in Verdicts \cup {"none"}
    /\ caller \in {"called", "wait", "deadline", "returned"} \cup Resolved
    /\ worker \in {"none", "register", "gate"} \cup Connecting \cup PastGate
    /\ alreadySending \in BOOLEAN
    /\ attempted \in BOOLEAN /\ accepted \in BOOLEAN
    /\ verdict \in Verdicts \cup {"none"}

Init ==
    /\ phase = "before_send" /\ client = FALSE
    /\ sock = "none"
    /\ done = FALSE /\ outcome = "none"
    /\ caller = "called" /\ worker = "none"
    /\ alreadySending = FALSE
    /\ attempted = FALSE /\ accepted = FALSE
    /\ verdict = "none"

-----------------------------------------------------------------------------
(* The worker thread: _do_send.                                            *)

\* smtplib.SMTP_SSL without a host: an idle client, known before any I/O.
RegisterClient ==
    /\ worker = "register" /\ worker' = "connect"
    /\ client' = TRUE
    /\ UNCHANGED <<phase, done, outcome, sock, wire, ofCaller>>

\* TCP and TLS are up; the greeting is still to be read.
SocketOpens ==
    /\ worker = "connect" /\ worker' = "greeting"
    /\ sock' = "open"
    /\ UNCHANGED <<shared, wire, ofCaller>>

Answered ==
    /\ \/ worker = "greeting" /\ worker' = "login"
       \/ worker = "login" /\ worker' = "gate"
    /\ UNCHANGED <<shared, sock, wire, ofCaller>>

End(left) == worker' = "ended" /\ done' = TRUE /\ outcome' = left

\* Refused, timed out, aborted; or an exception that _connect does not translate.
ConnectionFails ==
    /\ worker \in Connecting
    /\ \E left \in {"definite", "other"} : End(left)
    /\ UNCHANGED <<phase, client, sock, wire, ofCaller>>

\* Mutant: the worker does not ask whether the deadline came first.
GateAlwaysOpen == TRUE

GateOpen == phase # "cancelled"

PassGate ==
    /\ worker = "gate"
    /\ IF GateOpen
         THEN phase' = "sending" /\ worker' = "send"
         ELSE phase' = phase /\ worker' = "quit"
    /\ UNCHANGED <<client, done, outcome, sock, wire, ofCaller>>

CallSendMessage ==
    /\ worker = "send" /\ worker' = "transmit"
    /\ attempted' = TRUE
    /\ UNCHANGED <<shared, sock, accepted, ofCaller>>

ServerAccepts ==
    /\ worker = "transmit" /\ ~accepted
    /\ accepted' = TRUE
    /\ UNCHANGED <<shared, sock, worker, attempted, ofCaller>>

SendMessageReturns ==
    /\ worker = "transmit" /\ accepted
    /\ worker' = "quitSent"
    /\ UNCHANGED <<shared, sock, wire, ofCaller>>

LeftBySendError == "unknown"

\* Mutant: the failure is logged, and the worker goes on as after a success.
AfterSendErrorGoesOn == "quitSent"

AfterSendError == "quit"

\* SMTPException or OSError leaves its outcome before the connection is closed;
\* any other exception is left on the way out.
SendMessageRaises ==
    /\ worker = "transmit"
    /\ \/ worker' = AfterSendError /\ outcome' = LeftBySendError
       \/ worker' = "quitRaised" /\ outcome' = outcome
    /\ UNCHANGED <<phase, client, done, sock, wire, ofCaller>>

\* _disconnect may block, swallows what quit raises, and _do_send ends.
Disconnect ==
    /\ worker \in Quitting
    /\ End(CASE worker = "quitSent" -> "result"
             [] worker = "quitRaised" -> "other"
             [] worker = "quit" -> outcome)
    /\ UNCHANGED <<phase, client, sock, wire, ofCaller>>

Worker ==
    \/ RegisterClient \/ SocketOpens \/ Answered \/ ConnectionFails \/ PassGate
    \/ CallSendMessage \/ ServerAccepts \/ SendMessageReturns \/ SendMessageRaises
    \/ Disconnect

-----------------------------------------------------------------------------
(* The calling thread: send.                                               *)

Return(result) == caller' = "returned" /\ verdict' = result

\* The kill switch, missing credentials, or a message that cannot be built.
Refuse ==
    /\ caller = "called" /\ Return("definite")
    /\ UNCHANGED <<shared, sock, worker, wire, alreadySending>>

StartWorker ==
    /\ caller = "called" /\ caller' = "wait"
    /\ worker' = "register"
    /\ UNCHANGED <<shared, sock, wire, alreadySending, verdict>>

TakeOutcome ==
    /\ caller = "wait" /\ done
    /\ Return(outcome)
    /\ UNCHANGED <<shared, sock, worker, wire, alreadySending>>

DeadlineFires ==
    /\ caller = "wait" /\ ~done
    /\ caller' = "deadline"
    /\ UNCHANGED <<shared, sock, worker, wire, alreadySending, verdict>>

\* Mutant: the deadline leaves another word than the one the worker looks for.
PhaseAtDeadlineAborted == IF phase = "before_send" THEN "aborted" ELSE phase

PhaseAtDeadline == IF phase = "before_send" THEN "cancelled" ELSE phase

\* Mutant: only a connection that has not begun to send is closed.
AbortsBeforeSendOnly == client /\ phase = "before_send"

Aborts == client

ResolveRace ==
    /\ caller = "deadline"
    /\ alreadySending' = (phase # "before_send")
    /\ phase' = PhaseAtDeadline
    /\ caller' = IF Aborts THEN "close" ELSE "raise"
    /\ UNCHANGED <<client, done, outcome, sock, worker, wire, verdict>>

\* A client without a socket yet is left alone.
ForceClose ==
    /\ caller = "close" /\ caller' = "join"
    /\ sock' = IF sock = "open" THEN "aborted" ELSE sock
    /\ UNCHANGED <<shared, worker, wire, alreadySending, verdict>>

\* Mutant: the caller waits for the worker however long it takes.
JoinEndsWithWorker == worker = "ended"

\* The join is given a second.
JoinEnds == TRUE

JoinWorker ==
    /\ caller = "join" /\ JoinEnds /\ caller' = "raise"
    /\ UNCHANGED <<shared, sock, worker, wire, alreadySending, verdict>>

RaiseDeadline ==
    /\ caller = "raise"
    /\ Return(IF alreadySending THEN "unknown" ELSE "definite")
    /\ UNCHANGED <<shared, sock, worker, wire, alreadySending>>

Caller ==
    \/ Refuse \/ StartWorker \/ TakeOutcome \/ DeadlineFires
    \/ ResolveRace \/ ForceClose \/ JoinWorker \/ RaiseDeadline

-----------------------------------------------------------------------------
Next == Caller \/ Worker

Spec == Init /\ [][Next]_vars

\* The caller is never blocked for long.  The worker may hang for ever, unless its
\* socket was aborted: then each of its operations comes back.
Fairness == WF_vars(Caller) /\ WF_vars(sock = "aborted" /\ Worker)

FairSpec == Spec /\ Fairness

-----------------------------------------------------------------------------
(* Properties.                                                             *)

\* A definite failure is retried by the callers: the message was never handed to
\* the server, and a worker that is still alive never will hand it over.
DefiniteIsFinal == verdict = "definite" => ~attempted

\* A result means that the server has the message.
ResultIsAccepted == verdict = "result" => accepted

\* Whenever the event is set in time, the caller finds an outcome to return or raise.
OutcomeIsThere == caller = "wait" /\ done => outcome # "none"

\* What these rest on.
PhaseIsShared ==
    /\ attempted => phase = "sending"
    /\ phase = "sending" => worker \in PastGate
    /\ phase = "cancelled" => caller \in Resolved \cup {"returned"} /\ ~alreadySending
    /\ caller \in Resolved /\ ~alreadySending => phase = "cancelled"
    /\ worker \in {"send", "transmit", "quitSent", "quitRaised"} => phase = "sending"

OutcomeIsOfWorker ==
    /\ caller = "called" => worker = "none"
    /\ worker = "none" => phase = "before_send" /\ ~done /\ caller \in {"called", "returned"}
    /\ worker = "quitSent" => accepted
    /\ worker = "quit" => outcome = "unknown" \/ phase = "cancelled"
    /\ done => worker = "ended"
    /\ outcome = "definite" => done /\ phase # "sending"
    /\ outcome = "result" => accepted
    /\ verdict # "none" => caller = "returned"
    /\ verdict = "definite" => phase = "cancelled" \/ worker \in {"none", "ended"}

IInv ==
    /\ TypeOK /\ DefiniteIsFinal /\ ResultIsAccepted /\ OutcomeIsThere
    /\ PhaseIsShared /\ OutcomeIsOfWorker

\* The call returns although its worker may hang in any operation.
CallerReturns == <>(caller = "returned")

\* A worker that has a socket when the deadline fires does not outlive the call for
\* ever, whether it was sending or not.
WorkerIsInterrupted == (caller = "deadline" /\ sock = "open") ~> worker = "ended"

=============================================================================
