--------------------------- MODULE SmtpSend_proofs ---------------------------
(***************************************************************************)
(* Proofs of what MCSmtpSend checks.                                       *)
(*                                                                         *)
(* What the verdict of a send says about the wire: the invariant IInv of   *)
(* SmtpSend, and from it the properties the callers rely on.               *)
(*                                                                         *)
(* What an IMAP session says of its mails and its draft: only the timer    *)
(* closes a socket, and it has said so before, so what is cut off is       *)
(* flagged; a draft is sent once, and the verdict of a session that sent   *)
(* one is definite only if the server refused it.                          *)
(***************************************************************************)
EXTENDS MCSmtpSend, Naturals, TLAPS

-----------------------------------------------------------------------------
(* The call of the SMTP provider                                           *)

\* A call that has not begun has no worker, and nothing has been handed over.
LEMMA InitHolds == Init => IInv
  BY DEF Init, IInv, TypeOK, DefiniteIsFinal, ResultIsAccepted, OutcomeIsThere,
         PhaseIsShared, OutcomeIsOfWorker, Phases, Verdicts, Connecting, PastGate,
         Quitting, Resolved

\* A step of the worker keeps the invariant: past the gate the phase is "sending"
\* for good, and a closed gate leads to the end without a transmission.
LEMMA WorkerKeeps == ASSUME IInv, Worker PROVE IInv'
<1> USE DEF IInv, TypeOK, DefiniteIsFinal, ResultIsAccepted, OutcomeIsThere,
            PhaseIsShared, OutcomeIsOfWorker, Phases, Verdicts, Connecting, PastGate,
            Quitting, Resolved, shared, wire, ofCaller, End
<1>1. CASE RegisterClient
  BY <1>1 DEF RegisterClient
<1>2. CASE SocketOpens
  BY <1>2 DEF SocketOpens
<1>3. CASE Answered
  BY <1>3 DEF Answered
<1>4. CASE ConnectionFails
  BY <1>4 DEF ConnectionFails
<1>5. CASE PassGate
  BY <1>5 DEF PassGate, GateOpen
<1>6. CASE CallSendMessage
  BY <1>6 DEF CallSendMessage
<1>7. CASE ServerAccepts
  BY <1>7 DEF ServerAccepts
<1>8. CASE SendMessageReturns
  BY <1>8 DEF SendMessageReturns
<1>9. CASE SendMessageRaises
  BY <1>9 DEF SendMessageRaises, LeftBySendError, AfterSendError
<1>10. CASE Disconnect
  BY <1>10 DEF Disconnect
<1> QED
  BY <1>1, <1>2, <1>3, <1>4, <1>5, <1>6, <1>7, <1>8, <1>9, <1>10 DEF Worker

\* A step of the caller keeps it: whoever takes gate_lock first decides the phase.
LEMMA CallerKeeps == ASSUME IInv, Caller PROVE IInv'
<1> USE DEF IInv, TypeOK, DefiniteIsFinal, ResultIsAccepted, OutcomeIsThere,
            PhaseIsShared, OutcomeIsOfWorker, Phases, Verdicts, Connecting, PastGate,
            Quitting, Resolved, shared, wire, ofCaller, Return
<1>1. CASE Refuse
  BY <1>1 DEF Refuse
<1>2. CASE StartWorker
  BY <1>2 DEF StartWorker
<1>3. CASE TakeOutcome
  BY <1>3 DEF TakeOutcome
<1>4. CASE DeadlineFires
  BY <1>4 DEF DeadlineFires
<1>5. CASE ResolveRace
  <2>1. CASE phase = "before_send"
    <3>1. alreadySending' = FALSE /\ phase' = "cancelled"
      BY <1>5, <2>1 DEF ResolveRace, PhaseAtDeadline
    <3> QED
      BY <1>5, <2>1, <3>1 DEF ResolveRace, Aborts
  <2>2. CASE phase = "sending"
    <3>1. alreadySending' = TRUE /\ phase' = "sending"
      BY <1>5, <2>2 DEF ResolveRace, PhaseAtDeadline
    <3> QED
      BY <1>5, <2>2, <3>1 DEF ResolveRace, Aborts
  <2> QED
    BY <1>5, <2>1, <2>2 DEF ResolveRace
<1>6. CASE ForceClose
  BY <1>6 DEF ForceClose
<1>7. CASE JoinWorker
  BY <1>7 DEF JoinWorker, JoinEnds
<1>8. CASE RaiseDeadline
  BY <1>8 DEF RaiseDeadline
<1> QED
  BY <1>1, <1>2, <1>3, <1>4, <1>5, <1>6, <1>7, <1>8 DEF Caller

\* The invariant holds throughout.
THEOREM Invariance == Spec => []IInv
<1>1. ASSUME IInv, UNCHANGED vars PROVE IInv'
  BY <1>1 DEF IInv, TypeOK, DefiniteIsFinal, ResultIsAccepted, OutcomeIsThere,
              PhaseIsShared, OutcomeIsOfWorker, Phases, Verdicts, Connecting, PastGate,
              Quitting, Resolved, shared, wire, ofCaller, vars
<1>2. IInv /\ [Next]_vars => IInv'
  BY <1>1, WorkerKeeps, CallerKeeps DEF Next
<1> QED
  BY InitHolds, <1>2, PTL DEF Spec

\* A definite failure is final: nothing was handed to the server when send raised
\* it, and nothing is afterwards, so that the row may be tried again.
THEOREM DefiniteFailure == Spec => []DefiniteIsFinal
  BY Invariance, PTL DEF IInv

\* A result is positive proof: the server has the message.
THEOREM Result == Spec => []ResultIsAccepted
  BY Invariance, PTL DEF IInv

-----------------------------------------------------------------------------
(* The IMAP session                                                        *)

\* Before a session nothing has been asked, sent or closed.
LEMMA SessionStarts ==
  ASSUME I!ConstantsAreSane, I!Init
  PROVE  I!IInv
<1> USE DEF I!ConstantsAreSane, I!Init
<1>1. I!TypeOK
  <2>1. got \in [1..Mails -> {"unasked", "answered", "nothing", "permanent", "lost", "cut"}]
    OBVIOUS
  <2>2. left \in 0..Mails
    OBVIOUS
  <2> QED BY <2>1, <2>2 DEF I!TypeOK
<1>2. I!ClosedByTheTimer /\ I!SentOnce /\ I!UnflaggedIsWhole
  BY DEF I!ClosedByTheTimer, I!SentOnce, I!UnflaggedIsWhole, I!Parting
<1>3. I!AskedIsAnswered
  BY DEF I!AskedIsAnswered
<1> QED BY <1>1, <1>2, <1>3 DEF I!IInv

\* The timer says so before it closes, and touches nothing else.
LEMMA TimerKeeps ==
  ASSUME I!IInv, I!Timer
  PROVE  I!IInv'
<1> USE DEF I!IInv, I!TypeOK, I!ClosedByTheTimer, I!SentOnce, I!AskedIsAnswered, I!UnflaggedIsWhole, I!IsFetch,
            I!connection, I!fetched, I!Dialing, I!Blocking, I!Parting
<1>1. CASE I!Fire
  BY <1>1 DEF I!Fire
<1>2. CASE I!Capture
  BY <1>2 DEF I!Capture
<1>3. CASE I!ForceClose
  BY <1>3 DEF I!ForceClose
<1> QED BY <1>1, <1>2, <1>3 DEF I!Timer

\* The thread takes a step that asks for no mail and sends no draft.
LEMMA CommandKeeps ==
  ASSUME I!IInv,
         \/ I!Start \/ I!Resolve \/ I!Dial \/ I!BindSocket \/ I!Connect \/ I!WrapSocket
         \/ I!Answered \/ I!Refused \/ I!CommandFails
  PROVE  I!IInv'
<1>1. UNCHANGED <<kind, left, got, flagged, draft>>
  BY DEF I!Start, I!Resolve, I!Dial, I!BindSocket, I!Connect, I!WrapSocket, I!Answered, I!Refused, I!CommandFails,
         I!fetched
<1>2. step \notin {"append", "appending", "fetch", "body"} \cup I!Parting
  BY DEF I!Start, I!Resolve, I!Dial, I!BindSocket, I!Connect, I!WrapSocket, I!Answered, I!Refused, I!CommandFails,
         I!Blocking, I!Parting
<1>3. ending = "none" /\ draft = "none"
  BY <1>2 DEF I!IInv, I!SentOnce
<1>4. /\ fired => fired'
      /\ fired' \in BOOLEAN /\ severed' \in BOOLEAN
      /\ severed' => fired'
      /\ timer' \in {"capture", "close"} => fired'
  <2> USE DEF I!IInv, I!TypeOK, I!ClosedByTheTimer, I!connection, I!watchdog, I!ClosesAtOnce
  <2>1. CASE I!Start
    BY <2>1 DEF I!Start
  <2>2. CASE I!Resolve
    BY <2>2 DEF I!Resolve
  <2>3. CASE I!Dial
    BY <2>3 DEF I!Dial
  <2>4. CASE I!BindSocket
    BY <2>4 DEF I!BindSocket
  <2>5. CASE I!Connect
    BY <2>5 DEF I!Connect
  <2>6. CASE I!WrapSocket
    BY <2>6 DEF I!WrapSocket
  <2>7. CASE I!Answered
    BY <2>7 DEF I!Answered
  <2>8. CASE I!Refused
    BY <2>8 DEF I!Refused
  <2>9. CASE I!CommandFails
    BY <2>9 DEF I!CommandFails
  <2> QED BY <2>1, <2>2, <2>3, <2>4, <2>5, <2>6, <2>7, <2>8, <2>9
<1>5. /\ step' # "body"
      /\ step' \in {"start", "dial", "fetch", "append"} \cup I!Dialing \cup I!Blocking \cup I!Parting
      /\ step' # "appending" /\ (step' = "append" => kind = "create")
      /\ \/ step' \notin I!Parting /\ ending' = "none"
         \/ step' \in I!Parting
      /\ I!IsFetch => ending' # "result"
  <2> USE DEF I!Goto, I!Fail, I!Ends, I!Dialing, I!Blocking, I!Parting, I!Raised, I!Refusal, I!IsFetch
  <2>1. CASE I!Start
    BY <1>3, <2>1 DEF I!Start
  <2>2. CASE I!Resolve
    BY <1>3, <2>2 DEF I!Resolve
  <2>3. CASE I!Dial
    BY <1>3, <2>3 DEF I!Dial
  <2>4. CASE I!BindSocket \/ I!Connect
    BY <1>3, <2>4 DEF I!BindSocket, I!Connect
  <2>5. CASE I!WrapSocket
    BY <1>3, <2>5 DEF I!WrapSocket
  <2>6. CASE I!Answered
    BY <1>3, <2>6 DEF I!Answered, I!Following
  <2>7. CASE I!Refused
    BY <1>3, <2>7 DEF I!Refused
  <2>8. CASE I!CommandFails
    BY <1>3, <2>8 DEF I!CommandFails
  <2> QED BY <2>1, <2>2, <2>3, <2>4, <2>5, <2>6, <2>7, <2>8
<1>6. I!TypeOK' /\ I!ClosedByTheTimer'
  BY <1>1, <1>4, <1>5 DEF I!IInv, I!TypeOK, I!ClosedByTheTimer
<1>7. I!SentOnce'
  BY <1>1, <1>3, <1>5 DEF I!SentOnce, I!Parting
<1>8. I!AskedIsAnswered' /\ I!UnflaggedIsWhole'
  BY <1>1, <1>4, <1>5 DEF I!IInv, I!TypeOK, I!AskedIsAnswered, I!UnflaggedIsWhole, I!IsFetch
<1> QED BY <1>6, <1>7, <1>8 DEF I!IInv

\* The thread asks for the mails.
LEMMA FetchKeeps ==
  ASSUME I!ConstantsAreSane, I!IInv, I!FetchEnds \/ I!Fetch \/ I!Fetched \/ I!FetchFails
  PROVE  I!IInv'
<1> USE DEF I!IInv, I!TypeOK, I!ClosedByTheTimer, I!SentOnce, I!AskedIsAnswered, I!UnflaggedIsWhole, I!IsFetch,
            I!connection, I!watchdog, I!fetched, I!Dialing, I!Blocking, I!Parting, I!Goto, I!Ends, I!ConstantsAreSane
<1>1. CASE I!FetchEnds
  BY <1>1 DEF I!FetchEnds
<1>2. CASE I!Fetch
  BY <1>2 DEF I!Fetch
<1>3. ASSUME NEW what \in {"answered", "nothing", "permanent", "lost", "cut"}, step = "body", left > 0, I!Became(what),
             what = "permanent" \/ what = "lost" => kind = "inbox",
             what = "cut" => fired,
             UNCHANGED <<kind, I!connection, I!watchdog, draft>>
      PROVE  I!IInv'
  BY <1>3 DEF I!Became
<1>4. CASE I!Fetched
  <2>1. step = "body" /\ left > 0 /\ UNCHANGED <<kind, I!connection, I!watchdog, draft>>
    BY <1>4 DEF I!Fetched
  <2>2. I!Became("answered") \/ I!Became("nothing") \/ (kind = "inbox" /\ I!Became("permanent"))
    BY <1>4 DEF I!Fetched
  <2> QED BY <1>3, <2>1, <2>2
<1>5. CASE I!FetchFails
  <2>1. step = "body" /\ left > 0 /\ UNCHANGED <<kind, I!connection, I!watchdog, draft>>
    BY <1>5 DEF I!FetchFails
  <2>2. PICK failure \in I!Failures :
          \/ I!Skips(failure) /\ I!Became(IF severed THEN "cut" ELSE "lost")
          \/ I!Lost(failure) /\ fired /\ step' = "fetch" /\ UNCHANGED <<I!fetched, ending>>
          \/ I!Fail(failure) /\ UNCHANGED I!fetched
    BY <1>5 DEF I!FetchFails
  <2>3. CASE I!Skips(failure) /\ I!Became(IF severed THEN "cut" ELSE "lost")
    <3>1. kind = "inbox" /\ (severed => fired)
      BY <2>3 DEF I!Skips
    <3>2. CASE severed
      <4>1. I!Became("cut")
        BY <2>3, <3>2
      <4> QED BY <1>3, <2>1, <3>1, <3>2, <4>1
    <3>3. CASE ~severed
      <4>1. I!Became("lost")
        BY <2>3, <3>3
      <4> QED BY <1>3, <2>1, <3>1, <4>1
    <3> QED BY <3>2, <3>3
  <2>4. CASE I!Lost(failure) /\ fired /\ step' = "fetch" /\ UNCHANGED <<I!fetched, ending>>
    BY <2>1, <2>4
  <2>5. CASE I!Fail(failure) /\ UNCHANGED I!fetched
    <3>1. ending' # "result" /\ step' \in I!Parting
      BY <2>1, <2>5 DEF I!Fail, I!Raised
    <3> QED BY <2>1, <2>5, <3>1
  <2> QED BY <2>2, <2>3, <2>4, <2>5
<1> QED BY <1>1, <1>2, <1>4, <1>5

\* The thread sends the draft, waits for the answer, and leaves.
LEMMA DraftKeeps ==
  ASSUME I!IInv, I!SendAppend \/ I!AppendEnds \/ I!ServerAppends \/ I!Logout \/ I!Exit \/ UNCHANGED I!vars
  PROVE  I!IInv'
<1> USE DEF I!IInv, I!TypeOK, I!ClosedByTheTimer, I!SentOnce, I!AskedIsAnswered, I!UnflaggedIsWhole, I!IsFetch,
            I!connection, I!watchdog, I!fetched, I!Dialing, I!Blocking, I!Parting, I!Goto, I!Ends
<1>1. CASE I!SendAppend
  BY <1>1 DEF I!SendAppend
<1>2. CASE I!AppendEnds
  BY <1>2 DEF I!AppendEnds, I!AppendFailure
<1>3. CASE I!ServerAppends
  BY <1>3 DEF I!ServerAppends
<1>4. CASE I!Logout
  BY <1>4 DEF I!Logout
<1>5. CASE I!Exit
  BY <1>5 DEF I!Exit
<1>6. CASE UNCHANGED I!vars
  BY <1>6 DEF I!vars
<1> QED BY <1>1, <1>2, <1>3, <1>4, <1>5, <1>6

\* The invariant is inductive, and says what the session promises.
LEMMA SessionInductive ==
  ASSUME I!ConstantsAreSane
  PROVE  /\ I!Init => I!IInv
         /\ I!IInv /\ [I!Next]_(I!vars) => I!IInv'
  BY SessionStarts, TimerKeeps, CommandKeeps, FetchKeeps, DraftKeeps DEF I!Next, I!Thread

LEMMA SessionSays == I!IInv => I!IsHonest
  BY DEF I!IInv, I!TypeOK, I!SentOnce, I!Parting, I!IsHonest, I!DefiniteMeansNoDraft

\* In every state of a session: only the timer closes, a draft is sent once, and
\* what was asked for is answered or the budget is used up (imap_deadline.py,
\* imap.py, imap_draft.py).
THEOREM SessionInvariance == ASSUME I!ConstantsAreSane PROVE I!Spec => []I!IInv
  BY SessionInductive, PTL DEF I!Spec

-----------------------------------------------------------------------------
(* The specification that runs one of the parts                            *)

\* Where another part runs, the call has not begun, and rests.
THEOREM SendOfRun == MCSpec => []DefiniteIsFinal /\ []ResultIsAccepted
<1>1. MCInit => Init
  BY DEF MCInit
<1>2. [MCNext]_<<part, smtpVars, leaseVars, imapVars>> => [Next]_vars
  BY DEF MCNext, smtpVars
<1> QED BY <1>1, <1>2, DefiniteFailure, Result, PTL DEF MCSpec, Spec

\* A session says of its drafts and its mails what is so, whatever the server does
\* and whenever the timer fires.
THEOREM SessionOfRun == MCSpec => []SessionIsHonest
<1> DEFINE Inv == part = "imap" => I!IInv
<1>1. MCInit => Inv
  BY SessionConstants, SessionInductive DEF MCInit
<1>2. Inv /\ [MCNext]_<<part, smtpVars, leaseVars, imapVars>> => Inv'
  <2> SUFFICES ASSUME Inv, [MCNext]_<<part, smtpVars, leaseVars, imapVars>>
               PROVE  Inv'
    OBVIOUS
  <2>1. CASE part # "imap"
    BY <2>1 DEF MCNext
  <2>2. CASE part = "imap"
    <3>1. [I!Next]_(I!vars)
      BY <2>2 DEF MCNext, imapVars, I!vars, I!connection, I!watchdog, I!fetched
    <3> QED BY <2>2, <3>1, SessionConstants, SessionInductive
  <2> QED BY <2>1, <2>2
<1>3. Inv => SessionIsHonest
  BY SessionSays DEF SessionIsHonest
<1> QED BY <1>1, <1>2, <1>3, PTL DEF MCSpec

=============================================================================
