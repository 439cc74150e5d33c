------------------------- MODULE ApplicationTracker -------------------------
(***************************************************************************)
(* One job application, its history, and the mails of the employer that    *)
(* move it (app/services/application_tracker.py,                            *)
(* application_response_processor.py, app/db/application_repository.py,     *)
(* app/domain/application_lifecycle.py, application_response_policy.py).    *)
(*                                                                          *)
(* Every change is one unit of work: an event is inserted and the row that  *)
(* projects the history is updated by a compare-and-swap, or neither is.    *)
(* Operators and scans of the mailboxes run at the same time.  A scan first *)
(* looks for the mail and decides on the status it read; the unit of work   *)
(* reads the row again.                                                     *)
(***************************************************************************)
EXTENDS Naturals, Sequences, FiniteSets, SequencesExt

CONSTANTS
    Scans,      \* scans of a mailbox under way
    Operators,  \* tracker commands under way
    Mails,      \* Message-IDs of the employer's mails about this application
    Accounts,   \* the applicant's mailboxes; a mail may be in several
    Targets,    \* bound: the statuses that commands ask for
    Classes,    \* bound: what the mails say
    MaxTime,    \* bound: instants
    MaxEvents,  \* bound: events of the application
    Never       \* a time that is not set

VARIABLES
    app,      \* the application row
    events,   \* its history, oldest first
    mail,     \* mail[m]: what it says, when it arrived; never changes
    worker,   \* worker[w]: what a scan or a command has read and is about to write
    now,      \* the clock
    refused   \* history: the mails whose unit of work a constraint refused

vars == <<app, events, mail, worker, now, refused>>

Workers == Scans \cup Operators
Idle == [pc |-> "idle"]
Times == 0..MaxTime

PreparationSequence == <<"DISCOVERED", "MATCHED", "PACKAGE_READY", "APPROVED", "SUBMITTED">>
ResponseSequence ==
    <<"SUBMITTED", "RECEIVED", "UNDER_REVIEW", "INTERVIEW", "TECHNICAL_INTERVIEW", "OFFER">>
Terminal == {"OFFER", "REJECTED", "WITHDRAWN"}
Waiting == {"SUBMITTED", "RECEIVED", "UNDER_REVIEW"}
Statuses == ToSet(PreparationSequence) \cup ToSet(ResponseSequence) \cup Terminal

\* Preparation goes step by step, the answers may skip steps, none goes back.
AllowedTransitions(current) ==
    {PreparationSequence[k + 1] : k \in {k \in 1..4 : PreparationSequence[k] = current}}
    \cup {ResponseSequence[l] : l \in {l \in 1..6 : \E k \in 1..(l - 1) : ResponseSequence[k] = current}}
    \cup IF current \in Terminal THEN {} ELSE {"REJECTED", "WITHDRAWN"}

\* What a mail applies by itself; a rejection, like an offer, it only reports.
EmailTargetStatus(class) ==
    CASE class = "RECEIPT_CONFIRMATION" -> "RECEIVED"
      [] class = "UNDER_REVIEW_NOTICE" -> "UNDER_REVIEW"
      [] class = "INTERVIEW_INVITATION" -> "INTERVIEW"
      [] OTHER -> "none"
Reports == {"REJECTION"}

Event(work) ==
    [old |-> IF work.target = "none" THEN "none" ELSE app.status, new |-> work.target,
     type |-> work.type, origin |-> work.origin, key |-> work.key]

\* A mail that belongs to no key: the operator's own events carry none.
NoKey == [mail |-> Never, account |-> Never]

Init ==
    /\ mail \in [Mails -> [class : Classes, at : {0, MaxTime}]]
    /\ now = 0
    /\ \E status \in {"APPROVED", "SUBMITTED"} :
           /\ app = [status |-> status, version |-> 1, changed |-> 0,
                     submitted |-> IF status = "SUBMITTED" THEN 0 ELSE Never, received |-> Never,
                     contact |-> Never, followUp |-> FALSE,
                     anchor |-> IF status = "SUBMITTED" THEN 0 ELSE Never]
           /\ events = <<[type |-> "CREATED", old |-> "none", new |-> status,
                          origin |-> "OPERATOR", key |-> NoKey]>>
    /\ worker = [w \in Workers |-> Idle]
    /\ refused = {}

Becomes(w, record) == worker' = [worker EXCEPT ![w] = record]
Ends(w) == Becomes(w, Idle)

Tick ==
    /\ now < MaxTime
    /\ now' = now + 1
    /\ UNCHANGED <<app, events, mail, worker, refused>>

-----------------------------------------------------------------------------
(* What is to be written                                                    *)

Recorded(keys) == \E k \in DOMAIN events : events[k].key \in keys

\* A mail is known by its Message-ID and the account it lies in; whichever
\* account it was recorded under, it is a duplicate.
CorrelationKeysAcross(m) == [mail : {m}, account : Accounts]

DecideResponse(status, class) ==
    LET target == EmailTargetStatus(class) IN
    IF target \in AllowedTransitions(status)
    THEN [type |-> "STATUS_CHANGED", target |-> target, flag |-> FALSE]
    ELSE [type |-> "INBOUND_MESSAGE", target |-> "none",
          flag |-> class = "REQUEST_FOR_INFORMATION" \/ (class \in Reports /\ status \notin Terminal)]

Process(s, m, account) ==
    LET decision == DecideResponse(app.status, mail[m].class) IN
    /\ worker[s].pc = "idle"
    /\ mail[m].at <= now
    /\ ~Recorded(CorrelationKeysAcross(m))
    /\ Becomes(s, [pc |-> "begin", work |->
           [type |-> decision.type, target |-> decision.target, flag |-> decision.flag,
            origin |-> "GMAIL", key |-> [mail |-> m, account |-> account],
            at |-> mail[m].at, chronological |-> FALSE]])
    /\ UNCHANGED <<app, events, mail, now, refused>>

-----------------------------------------------------------------------------
(* The unit of work                                                         *)

\* What the transition table, the origin and the order of time permit.
MayWrite(work) ==
    /\ work.type = "STATUS_CHANGED" => work.target \in AllowedTransitions(app.status)
    /\ work.type = "STATUS_OVERRIDDEN" => work.target # app.status
    /\ work.target \in Terminal => work.origin = "OPERATOR"
    /\ work.chronological => work.at >= app.changed

Reads(w, work) == Becomes(w, [pc |-> "write", work |-> work, version |-> app.version])

\* An operator moves the application, now or at a time in the past; outside the
\* transition table with an override.  A past time is to be in order.
Command(o) ==
    /\ worker[o].pc = "idle"
    /\ \E type \in {"STATUS_CHANGED", "STATUS_OVERRIDDEN"}, target \in Targets, at \in {now, 0} :
           LET work == [type |-> type, target |-> target, origin |-> "OPERATOR", key |-> NoKey,
                        at |-> at, chronological |-> at # now, flag |-> FALSE] IN
           MayWrite(work) /\ Reads(o, work)
    /\ UNCHANGED <<app, events, mail, now, refused>>

Begin(s) ==
    LET work == worker[s].work IN
    /\ worker[s].pc = "begin"
    /\ IF MayWrite(work) /\ ~Recorded({work.key}) THEN Reads(s, work) ELSE Ends(s)
    /\ UNCHANGED <<app, events, mail, now, refused>>

Later(a, b) == IF b = Never THEN a ELSE IF a = Never \/ b > a THEN b ELSE a
FirstTime(old, at) == IF old = Never THEN at ELSE old

\* A receipt is never dated before the submission it confirms.
ReceivedAt(work, submitted) == Later(work.at, submitted)

\* The row as it projects the history with the new event.
Project(work, row) ==
    LET moves == work.target # "none"
        status == IF moves THEN work.target ELSE row.status
        submitted == IF work.target = "SUBMITTED" THEN FirstTime(row.submitted, work.at) ELSE row.submitted
        contact == IF work.origin = "GMAIL" THEN Later(work.at, row.contact) ELSE row.contact IN
    [status |-> status, version |-> row.version + 1,
     changed |-> IF moves THEN work.at ELSE row.changed,
     submitted |-> submitted,
     received |-> IF work.target = "RECEIVED" THEN FirstTime(row.received, ReceivedAt(work, submitted))
                  ELSE row.received,
     contact |-> contact,
     followUp |-> IF moves THEN FALSE ELSE row.followUp \/ work.flag,
     \* the submission as the row had it before this change
     anchor |-> IF status \in Waiting THEN IF contact # Never THEN contact ELSE row.submitted ELSE Never]

\* CHECK constraints of the table.
Lawful(row) == row.received # Never => row.submitted # Never /\ row.received >= row.submitted

\* Mutant: the UPDATE without the version.
CasMatchesAlways(w) == TRUE

\* The row is still the one that was read; its version tells.
CasMatches(w) == app.version = worker[w].version

\* Event and row are committed together; a concurrent change, a key that exists
\* by now or a constraint rolls both back.
Commit(w) ==
    LET work == worker[w].work
        row == Project(work, app) IN
    /\ worker[w].pc = "write"
    /\ IF CasMatches(w) /\ (work.key # NoKey => ~Recorded({work.key})) /\ Lawful(row)
       THEN /\ Len(events) < MaxEvents
            /\ events' = Append(events, Event(work))
            /\ app' = row
            /\ UNCHANGED refused
       ELSE /\ refused' = refused \cup IF Lawful(row) \/ ~CasMatches(w) THEN {} ELSE {work.key.mail} \ {Never}
            /\ UNCHANGED <<app, events>>
    /\ Ends(w)
    /\ UNCHANGED <<mail, now>>

Dies(w) ==
    /\ worker[w].pc # "idle"
    /\ Ends(w)
    /\ UNCHANGED <<app, events, mail, now, refused>>

Next ==
    \/ Tick
    \/ \E o \in Operators : Command(o)
    \/ \E s \in Scans :
           \/ \E m \in Mails, account \in Accounts : Process(s, m, account)
           \/ Begin(s)
    \/ \E w \in Workers : Commit(w) \/ Dies(w)

Spec == Init /\ [][Next]_vars

-----------------------------------------------------------------------------
(* Properties                                                               *)

Moves(k) == events[k].new # "none"

\* The row is the projection of its history: every status event leaves the
\* status the one before it set, the last one is the status now, and no unit of
\* work was counted twice or lost (application_tracker.py, _write).
HistoryExplainsTheRow ==
    /\ app.version = Len(events)
    /\ \E k \in DOMAIN events :
           /\ Moves(k) /\ app.status = events[k].new
           /\ \A l \in DOMAIN events : l > k => ~Moves(l)
    /\ \A k, l \in DOMAIN events :
           k < l /\ Moves(k) /\ Moves(l) /\ (\A i \in (k + 1)..(l - 1) : ~Moves(i))
           => events[l].old = events[k].new

\* No mail ends the application, none brings an ended one back, and a receipt
\* that a mail confirms is never lost to the constraint on its date
\* (application_response_policy.py; _write).
MailNeverDecides ==
    /\ \A k \in 2..Len(events) : events[k].origin = "GMAIL" =>
           /\ events[k].new \notin Terminal
           /\ events[k].new # "none" => events[k].old \notin Terminal
    /\ refused = {}

\* A follow-up is due only while the employer's answer is awaited, and then
\* counts from a contact or submission that happened.
TrackerIsSound ==
    /\ HistoryExplainsTheRow
    /\ MailNeverDecides
    /\ app.anchor # Never => app.status \in Waiting /\ app.anchor \in {app.contact, app.submitted}

\* "Each SUBMITTED application gets `next_followup_at` (+14 days)"
\* (docs/DAILY_OPERATIONS.md, section 10).
SubmittedIsDated == app.status = "SUBMITTED" => app.anchor # Never

-----------------------------------------------------------------------------
(* Why it holds                                                             *)

\* Commands ask for statuses, and "not set" is no time.
ConstantsAreSane == Targets \subseteq Statuses /\ MaxTime \in Nat /\ Never \notin Nat

\* What a scan may ask for, and what an operator may.
MailWork ==
    [type : {"STATUS_CHANGED"}, target : {"RECEIVED", "UNDER_REVIEW", "INTERVIEW"}, flag : {FALSE},
     origin : {"GMAIL"}, key : [mail : Mails, account : Accounts], at : Times, chronological : {FALSE}]
    \cup [type : {"INBOUND_MESSAGE"}, target : {"none"}, flag : BOOLEAN,
          origin : {"GMAIL"}, key : [mail : Mails, account : Accounts], at : Times, chronological : {FALSE}]
OperatorWork ==
    [type : {"STATUS_CHANGED", "STATUS_OVERRIDDEN"}, target : Targets, flag : {FALSE},
     origin : {"OPERATOR"}, key : {NoKey}, at : Times, chronological : BOOLEAN]
Work == MailWork \cup OperatorWork

EventTypes == {"CREATED", "STATUS_CHANGED", "STATUS_OVERRIDDEN", "INBOUND_MESSAGE"}

TypeOK ==
    /\ now \in Times
    /\ mail \in [Mails -> [class : Classes, at : Times]]
    /\ worker \in [Workers -> {Idle} \cup [pc : {"begin"}, work : Work]
                              \cup [pc : {"write"}, work : Work, version : Nat]]
    /\ app.version \in Nat /\ app.status \in Statuses
    /\ \A time \in {app.submitted, app.received, app.contact, app.anchor} : time \in Times \cup {Never}
    /\ events \in Seq([old : Statuses \cup {"none"}, new : Statuses \cup {"none"}, type : EventTypes,
                       origin : {"GMAIL", "OPERATOR"}, key : {NoKey} \cup [mail : Mails, account : Accounts]])

\* The constraints of the table hold, and a submission has its date.
RowIsLawful == Lawful(app) /\ (app.status = "SUBMITTED" => app.submitted # Never)

\* Whoever still has the version of the row has what the row permits.
WorkIsPermitted ==
    \A w \in Workers : worker[w].pc = "write" =>
        /\ worker[w].version <= app.version
        /\ CasMatches(w) => MayWrite(worker[w].work)

IInv == TypeOK /\ TrackerIsSound /\ RowIsLawful /\ WorkIsPermitted
=============================================================================
