---------------------- MODULE FollowUpEligibility_proofs ----------------------
(***************************************************************************)
(* Proofs of what MCFollowUpEligibility checks, for every value of the     *)
(* constants.                                                              *)
(*                                                                         *)
(* Eligibility: why two rows are enough to tell that nobody has answered,  *)
(* for any number of mails, any delay and any resolution of INTERNALDATE.  *)
(* The latest inbound row has the largest stamp, no stamp is early, and    *)
(* the anchor's is exact: a reply that came after the anchor would make    *)
(* the stamp of that one row larger than the anchor's.                     *)
(*                                                                         *)
(* The tracker: who still has the version of the row has what the row      *)
(* permits, so the event that a unit of work adds continues the history.   *)
(*                                                                         *)
(* The ledgers of Telegram messages (packages, cards, the feed) rest on    *)
(* one argument: a claim that is under way is drawn by one actor only, it  *)
(* is counted when it is drawn, and what the row says of it was written by *)
(* that actor, or by nobody.  For the cards, that is AtMostOnceSend.       *)
(*                                                                         *)
(* The mailboxes: who opens a conversation and did not get its id has said *)
(* so before it is stored, and an owner stays, so of two such one has;     *)
(* what a run prepared for a mail is there when it marks it, and stays.    *)
(*                                                                         *)
(* The reviews: a decision is added only after the last one, so there is   *)
(* one head, and a review that it approves leaves that state no more.      *)
(*                                                                         *)
(* Each part has an inductive invariant of its own, IInv of its module; at *)
(* the end they are put together for the specification that runs one part. *)
(***************************************************************************)
EXTENDS MCFollowUpEligibility, Sequences, FiniteSetTheorems, WellFoundedInduction, TLAPS

-----------------------------------------------------------------------------
(* Eligibility of a follow-up                                              *)

USE DEF Times, Inbound, Stored

\* Types.
LEMMA TypeCorrect == Spec => []TypeOK
<1>1. Init => TypeOK
  BY ConstantsAssumption DEF Init, TypeOK
<1>2. TypeOK /\ [Next]_vars => TypeOK'
  <2> SUFFICES ASSUME TypeOK, [Next]_vars PROVE TypeOK'
    OBVIOUS
  <2> USE ConstantsAssumption DEF TypeOK, mailbox, rows, evaluation
  <2>1. CASE Tick
    BY <2>1 DEF Tick
  <2>2. ASSUME NEW m \in Mails, Arrive(m) PROVE TypeOK'
    BY <2>2 DEF Arrive
  <2>3. ASSUME NEW m \in Mails, NEW parsed \in BOOLEAN, UpsertMessage(m, parsed)
        PROVE TypeOK'
    <3>1. Stamp(m, parsed) \in Times
      BY SecondAssumption DEF Stamp
    <3> QED
      BY <2>3, <3>1 DEF UpsertMessage, Trusted
  <2>4. ASSUME NEW status, NEW threads, NEW jobs, BeginEvaluation(status, threads, jobs)
        PROVE TypeOK'
    BY <2>4 DEF BeginEvaluation
  <2>5. CASE ReadLatestOutbound
    BY <2>5 DEF ReadLatestOutbound
  <2>6. CASE ReadLatestInbound
    BY <2>6 DEF ReadLatestInbound
  <2>7. CASE UNCHANGED vars
    BY <2>7 DEF vars
  <2> QED
    BY <2>1, <2>2, <2>3, <2>4, <2>5, <2>6, <2>7 DEF Next
<1> QED
  BY <1>1, <1>2, PTL DEF Spec

\* The stamps: exact when trusted, otherwise the time of persisting, which is not
\* before the arrival.
LEMMA StampsKept == ASSUME TypeOK, TypeOK', StampsAreNotEarly, [Next]_vars
                    PROVE StampsAreNotEarly'
<1> USE ConstantsAssumption DEF TypeOK, StampsAreNotEarly, mailbox, rows, evaluation
<1>1. CASE Tick
  BY <1>1 DEF Tick
<1>2. ASSUME NEW m \in Mails, Arrive(m) PROVE StampsAreNotEarly'
  BY <1>2 DEF Arrive
<1>3. ASSUME NEW m \in Mails, NEW parsed \in BOOLEAN, UpsertMessage(m, parsed)
      PROVE StampsAreNotEarly'
  <2>1. Second(arrived[m]) \in Nat /\ Second(arrived[m]) <= now
    BY SecondAssumption
  <2>2. stamp'[m] >= Second(arrived'[m])
        /\ (trusted'[m] => stamp'[m] = Second(arrived'[m]))
    BY <1>3, <2>1 DEF UpsertMessage, Stamp, Trusted
  <2>3. \A n \in Mails \ {m} : stamp'[n] = stamp[n] /\ trusted'[n] = trusted[n]
                                /\ id'[n] = id[n] /\ arrived'[n] = arrived[n]
    BY <1>3 DEF UpsertMessage
  <2>4. id'[m] # 0 /\ m \in atProvider' /\ arrived'[m] <= now'
    BY <1>3 DEF UpsertMessage
  <2>5. now' = now /\ checkedAt' = checkedAt /\ anchor' = anchor
        /\ atProvider' = atProvider
    BY <1>3 DEF UpsertMessage
  <2> QED
    BY <2>2, <2>3, <2>4, <2>5
<1>4. ASSUME NEW status, NEW threads, NEW jobs, BeginEvaluation(status, threads, jobs)
      PROVE StampsAreNotEarly'
  BY <1>4 DEF BeginEvaluation
<1>5. CASE ReadLatestOutbound
  BY <1>5 DEF ReadLatestOutbound, Reads, Latest
<1>6. CASE ReadLatestInbound
  BY <1>6 DEF ReadLatestInbound
<1>7. CASE UNCHANGED vars
  BY <1>7 DEF vars
<1> QED
  BY <1>1, <1>2, <1>3, <1>4, <1>5, <1>6, <1>7 DEF Next

\* No row is stamped before its message arrived.
THEOREM Stamps == Spec => []StampsAreNotEarly
<1>1. Init => StampsAreNotEarly
  BY DEF Init, StampsAreNotEarly
<1>2. TypeOK /\ TypeOK' /\ StampsAreNotEarly /\ [Next]_vars => StampsAreNotEarly'
  BY StampsKept
<1> QED
  BY <1>1, <1>2, TypeCorrect, PTL DEF Spec

\* The second read of an evaluation decides; only it makes a job eligible.
LEMMA ReadDecides ==
  ASSUME TypeOK, StampsAreNotEarly, [Next]_vars, BecomesEligible
  PROVE  \A m \in Stored(Inbound) : ~After(m, anchor)
<1> USE ConstantsAssumption DEF TypeOK, StampsAreNotEarly, mailbox, rows, evaluation
<1>1. ReadLatestInbound
  BY DEF BecomesEligible, Next, Tick, Arrive, UpsertMessage, BeginEvaluation,
         ReadLatestOutbound, vars
<1>2. PICK r \in Inbound \cup {NoMail} : Reads(r, Inbound) /\ Eligible(r)
  BY <1>1 DEF ReadLatestInbound, BecomesEligible
<1>3. stamp[anchor] = Second(arrived[anchor]) /\ anchor \in Mails
  BY <1>2 DEF Eligible
<1>4. SUFFICES ASSUME NEW m \in Stored(Inbound) PROVE ~After(m, anchor)
  OBVIOUS
<1>5. r \in Mails /\ stamp[m] <= stamp[r]
  BY <1>2, <1>4 DEF Reads, Latest
<1>6. stamp[r] <= stamp[anchor]
  BY <1>2, <1>3, <1>5 DEF Eligible, Replied
<1>7. Second(arrived[m]) <= stamp[m] /\ Second(arrived[m]) \in Nat
      /\ Second(arrived[anchor]) \in Nat
  BY <1>3, <1>4, SecondAssumption
<1> QED
  BY <1>3, <1>5, <1>6, <1>7 DEF After

\* A job becomes eligible only while none of the stored replies came after the anchor.
THEOREM Unanswered == Spec => NoReplyIsOverlooked
<1>1. TypeOK /\ StampsAreNotEarly /\ [Next]_vars =>
        [BecomesEligible => \A m \in Stored(Inbound) : ~After(m, anchor)]_vars
  BY ReadDecides
<1> QED
  BY <1>1, TypeCorrect, Stamps, PTL DEF Spec, NoReplyIsOverlooked

\* The anchor is the candidate's last mail of those stored when it was read.
LEMMA AnchorIsLast ==
  ASSUME TypeOK, StampsAreNotEarly, [Next]_vars, pc = "outbound", pc' = "inbound",
         anchor' # NoMail, trusted[anchor']
  PROVE  \A m \in Stored(Outbound) : ~After(m, anchor')
<1> USE ConstantsAssumption DEF TypeOK, StampsAreNotEarly, mailbox, rows, evaluation
<1>1. ReadLatestOutbound
  BY DEF Next, Tick, Arrive, UpsertMessage, BeginEvaluation, ReadLatestInbound, vars
<1>2. anchor' \in Outbound /\ Reads(anchor', Outbound)
  BY <1>1 DEF ReadLatestOutbound
<1>3. SUFFICES ASSUME NEW m \in Stored(Outbound) PROVE ~After(m, anchor')
  OBVIOUS
<1>4. anchor' \in Mails /\ id[anchor'] # 0 /\ stamp[m] <= stamp[anchor']
  BY <1>2, <1>3 DEF Reads, Latest
<1>5. stamp[anchor'] = Second(arrived[anchor'])
  BY <1>4
<1>6. Second(arrived[m]) <= stamp[m] /\ Second(arrived[m]) \in Nat
      /\ Second(arrived[anchor']) \in Nat
  BY <1>3, <1>4, SecondAssumption
<1> QED
  BY <1>4, <1>5, <1>6 DEF After

\* Whatever order the mails were stored in, the anchor is the last of them.
THEOREM LastMail == Spec => AnchorIsLastMail
<1>1. TypeOK /\ StampsAreNotEarly /\ [Next]_vars =>
        [pc = "outbound" /\ pc' = "inbound" /\ anchor' # NoMail /\ trusted[anchor'] =>
            \A m \in Stored(Outbound) : ~After(m, anchor')]_vars
  BY AnchorIsLast
<1> QED
  BY <1>1, TypeCorrect, Stamps, PTL DEF Spec, AnchorIsLastMail

HIDE DEF Times, Inbound, Stored

-----------------------------------------------------------------------------
(* Tracker: the row and its history                                        *)

\* The transition table: a receipt is for a submission, and what has ended stays so.
LEMMA Transitions ==
  /\ \A status \in T!Statuses : "RECEIVED" \in T!AllowedTransitions(status) => status = "SUBMITTED"
  /\ \A status \in T!Terminal : T!AllowedTransitions(status) = {}
  /\ T!Waiting \subseteq T!Statuses /\ T!Terminal \subseteq T!Statuses
  /\ {"RECEIVED", "UNDER_REVIEW", "INTERVIEW", "SUBMITTED", "APPROVED"} \subseteq T!Statuses \ T!Terminal
  /\ "none" \notin T!Statuses
<1>1. /\ "RECEIVED" \notin {T!PreparationSequence[k] : k \in 1..5}
      /\ \A k \in 1..6 : T!ResponseSequence[k] = "RECEIVED" => k = 2
      /\ T!ResponseSequence[1] = "SUBMITTED"
  BY DEF T!PreparationSequence, T!ResponseSequence
<1>2. \A status \in T!Statuses : "RECEIVED" \in T!AllowedTransitions(status) => status = "SUBMITTED"
  BY <1>1 DEF T!AllowedTransitions, T!Terminal
<1>3. \A status \in T!Terminal : T!AllowedTransitions(status) = {}
  <2>1. \A status \in T!Terminal, k \in 1..4 : T!PreparationSequence[k] # status
    BY DEF T!PreparationSequence, T!Terminal
  <2>2. \A status \in T!Terminal, k \in 1..5 : T!ResponseSequence[k] # status
    BY DEF T!ResponseSequence, T!Terminal
  <2> QED BY <2>1, <2>2 DEF T!AllowedTransitions
<1>4. T!Statuses = {"DISCOVERED", "MATCHED", "PACKAGE_READY", "APPROVED", "SUBMITTED", "RECEIVED", "UNDER_REVIEW",
                    "INTERVIEW", "TECHNICAL_INTERVIEW", "OFFER", "REJECTED", "WITHDRAWN"}
  <2>1. T!ToSet(T!PreparationSequence) = {"DISCOVERED", "MATCHED", "PACKAGE_READY", "APPROVED", "SUBMITTED"}
    BY DEF T!ToSet, T!PreparationSequence
  <2>2. T!ToSet(T!ResponseSequence)
        = {"SUBMITTED", "RECEIVED", "UNDER_REVIEW", "INTERVIEW", "TECHNICAL_INTERVIEW", "OFFER"}
    BY DEF T!ToSet, T!ResponseSequence
  <2> QED BY <2>1, <2>2 DEF T!Statuses, T!Terminal
<1> QED BY <1>2, <1>3, <1>4 DEF T!Waiting, T!Terminal

\* The entry that projects one more event is typed, dates a submission, and is
\* lawful when a mail asked for it.
LEMMA Projection ==
  ASSUME T!ConstantsAreSane, T!TypeOK, T!RowIsLawful, NEW unit \in T!Work, NEW entry, entry = T!Project(unit, app)
  PROVE  /\ entry.version = app.version + 1
         /\ entry.status = IF unit.target # "none" THEN unit.target ELSE app.status
         /\ entry.status \in T!Statuses
         /\ \A time \in {entry.submitted, entry.received, entry.contact, entry.anchor} : time \in T!Times \cup {Never}
         /\ entry.status = "SUBMITTED" => entry.submitted # Never
         /\ entry.anchor # Never => entry.status \in T!Waiting /\ entry.anchor \in {entry.contact, entry.submitted}
         /\ unit \in T!MailWork /\ T!MayWrite(unit) => T!Lawful(entry)
<1>1. /\ unit.target \in T!Statuses \cup {"none"} /\ unit.at \in T!Times /\ unit.at # Never
      /\ T!Times \subseteq Nat /\ Never \notin T!Times
  <2>1. T!Times \subseteq Nat /\ Never \notin T!Times
    BY DEF T!ConstantsAreSane, T!Times
  <2>2. unit.at \in T!Times
    BY DEF T!Work, T!MailWork, T!OperatorWork
  <2>3. unit.target \in T!Statuses \cup {"none"}
    BY Transitions DEF T!Work, T!MailWork, T!OperatorWork, T!ConstantsAreSane
  <2> QED BY <2>1, <2>2, <2>3
<1>2. /\ app.version \in Nat /\ app.status \in T!Statuses
      /\ app.submitted \in T!Times \cup {Never} /\ app.received \in T!Times \cup {Never}
      /\ app.contact \in T!Times \cup {Never} /\ app.anchor \in T!Times \cup {Never}
      /\ app.received # Never => app.submitted # Never /\ app.received >= app.submitted
      /\ app.status = "SUBMITTED" => app.submitted # Never
  BY DEF T!TypeOK, T!RowIsLawful, T!Lawful
<1>3. /\ entry.version = app.version + 1
      /\ entry.status = IF unit.target # "none" THEN unit.target ELSE app.status
      /\ entry.submitted = IF unit.target = "SUBMITTED" THEN T!FirstTime(app.submitted, unit.at) ELSE app.submitted
      /\ entry.received = IF unit.target = "RECEIVED"
                        THEN T!FirstTime(app.received, T!ReceivedAt(unit, entry.submitted)) ELSE app.received
      /\ entry.contact = IF unit.origin = "GMAIL" THEN T!Later(unit.at, app.contact) ELSE app.contact
      /\ entry.anchor = IF entry.status \in T!Waiting
                      THEN IF entry.contact # Never THEN entry.contact ELSE app.submitted ELSE Never
  BY DEF T!Project
<1>4. /\ entry.submitted \in T!Times \cup {Never}
      /\ app.submitted # Never => entry.submitted = app.submitted
      /\ unit.target = "SUBMITTED" => entry.submitted # Never
  BY <1>1, <1>2, <1>3 DEF T!FirstTime
<1>5. entry.contact \in T!Times \cup {Never}
  BY <1>1, <1>2, <1>3 DEF T!Later
<1>6. /\ entry.received \in T!Times \cup {Never}
      /\ unit.target # "RECEIVED" => entry.received = app.received
      /\ entry.received # app.received /\ entry.submitted # Never => entry.received >= entry.submitted
  <2>1. /\ T!ReceivedAt(unit, entry.submitted) \in T!Times
        /\ entry.submitted # Never => T!ReceivedAt(unit, entry.submitted) >= entry.submitted
    <3>1. T!ReceivedAt(unit, entry.submitted)
          = IF entry.submitted = Never THEN unit.at
            ELSE IF unit.at = Never \/ entry.submitted > unit.at THEN entry.submitted ELSE unit.at
      BY DEF T!ReceivedAt, T!Later
    <3>2. CASE entry.submitted = Never
      BY <1>1, <3>1, <3>2
    <3>3. CASE entry.submitted # Never
      <4>1. entry.submitted \in Nat /\ unit.at \in Nat /\ entry.submitted \in T!Times
        BY <1>1, <1>4, <3>3
      <4> QED BY <1>1, <3>1, <3>3, <4>1
    <3> QED BY <3>2, <3>3
  <2> QED BY <1>2, <1>3, <2>1 DEF T!FirstTime
<1>7. entry.status \in T!Statuses
  BY <1>1, <1>2, <1>3
<1>8. entry.anchor \in T!Times \cup {Never}
  BY <1>2, <1>3, <1>5
<1>9. entry.anchor # Never => entry.status \in T!Waiting /\ entry.anchor \in {entry.contact, entry.submitted}
  BY <1>3, <1>4
<1>10. entry.status = "SUBMITTED" => entry.submitted # Never
  BY <1>2, <1>3, <1>4
<1>11. ASSUME unit \in T!MailWork, T!MayWrite(unit) PROVE T!Lawful(entry)
  <2>1. unit.target = "RECEIVED" => app.status = "SUBMITTED"
    BY <1>2, <1>11, Transitions DEF T!MayWrite, T!MailWork
  <2>2. unit.target # "SUBMITTED"
    BY <1>11 DEF T!MailWork
  <2> QED BY <1>2, <1>3, <1>6, <2>1, <2>2 DEF T!Lawful
<1> QED BY <1>3, <1>4, <1>5, <1>6, <1>7, <1>8, <1>9, <1>10, <1>11

\* One event more, which leaves the status that the last one before it set.
LEMMA HistoryGrows ==
  ASSUME T!HistoryExplainsTheRow, NEW S, events \in Seq(S), NEW e \in S, events' = Append(events, e),
         app'.version = app.version + 1,
         e.new = "none" => app'.status = app.status,
         e.new # "none" => app'.status = e.new /\ e.old = app.status
  PROVE  T!HistoryExplainsTheRow'
<1>1. PICK n \in Nat : n = Len(events)
  OBVIOUS
<1>2. /\ DOMAIN events = 1..n /\ DOMAIN events' = 1..(n + 1) /\ Len(events') = n + 1
      /\ \A k \in 1..n : events'[k] = events[k]
      /\ events'[n + 1] = e
  BY <1>1
<1>3. app'.version = Len(events')
  BY <1>1, <1>2 DEF T!HistoryExplainsTheRow
<1>4. PICK last \in 1..n : /\ events[last].new # "none" /\ app.status = events[last].new
                           /\ \A l \in 1..n : l > last => events[l].new = "none"
  BY <1>2 DEF T!HistoryExplainsTheRow, T!Moves
<1>5. \E k \in DOMAIN events' : /\ T!Moves(k)' /\ app'.status = events'[k].new
                                /\ \A l \in DOMAIN events' : l > k => ~T!Moves(l)'
  <2>1. CASE e.new = "none"
    <3>1. \A l \in 1..(n + 1) : l > last => events'[l].new = "none"
      BY <1>2, <1>4, <2>1
    <3> QED BY <1>2, <1>4, <2>1, <3>1 DEF T!Moves
  <2>2. CASE e.new # "none"
    <3>1. \A l \in 1..(n + 1) : ~(l > n + 1)
      OBVIOUS
    <3> QED BY <1>2, <2>2, <3>1 DEF T!Moves
  <2> QED BY <2>1, <2>2
<1>6. ASSUME NEW k \in DOMAIN events', NEW l \in DOMAIN events', k < l, T!Moves(k)', T!Moves(l)',
             \A i \in (k + 1)..(l - 1) : ~T!Moves(i)'
      PROVE  events'[l].old = events'[k].new
  <2>1. k \in 1..n /\ l \in 1..(n + 1)
    BY <1>2, <1>6
  <2>2. \A i \in (k + 1)..(l - 1) : i \in 1..n /\ events[i].new = "none"
    BY <1>2, <1>6, <2>1 DEF T!Moves
  <2>3. CASE l \in 1..n
    BY <1>2, <1>6, <2>1, <2>2, <2>3 DEF T!HistoryExplainsTheRow, T!Moves
  <2>4. CASE l = n + 1
    <3>1. k = last
      BY <1>2, <1>4, <1>6, <2>1, <2>2, <2>4 DEF T!Moves
    <3> QED BY <1>2, <1>4, <1>6, <2>1, <2>4, <3>1 DEF T!Moves
  <2> QED BY <2>1, <2>3, <2>4
<1> QED BY <1>3, <1>5, <1>6 DEF T!HistoryExplainsTheRow

WorkerStates ==
    {T!Idle} \cup [pc : {"begin"}, work : T!Work] \cup [pc : {"write"}, work : T!Work, version : Nat]

TrackerInv == T!TypeOK /\ T!TrackerIsSound /\ T!RowIsLawful /\ T!WorkIsPermitted

\* One worker goes on and nothing is written.
LEMMA WorkerMoves ==
  ASSUME TrackerInv, NEW w \in T!Workers, NEW new \in WorkerStates,
         scanner' = [scanner EXCEPT ![w] = new],
         new.pc = "write" => new.version = app.version /\ T!MayWrite(new.work),
         UNCHANGED <<app, events, employerMail, clock, refused>>
  PROVE  TrackerInv'
<1>1. T!TypeOK'
  BY DEF TrackerInv, T!TypeOK, WorkerStates
<1>2. scanner'[w] = new /\ \A v \in T!Workers \ {w} : scanner'[v] = scanner[v]
  BY DEF TrackerInv, T!TypeOK
<1>3. T!TrackerIsSound' /\ T!RowIsLawful'
  BY DEF TrackerInv, T!TrackerIsSound, T!RowIsLawful, T!HistoryExplainsTheRow, T!Moves, T!MailNeverDecides, T!Lawful
<1>4. T!WorkIsPermitted'
  <2>1. ASSUME NEW v \in T!Workers, scanner'[v].pc = "write"
        PROVE  scanner'[v].version <= app.version
               /\ (app.version = scanner'[v].version => T!MayWrite(scanner'[v].work))
    <3>1. CASE v = w
      BY <1>2, <2>1, <3>1 DEF TrackerInv, T!TypeOK
    <3>2. CASE v # w
      BY <1>2, <2>1, <3>2 DEF TrackerInv, T!WorkIsPermitted, T!CasMatches
    <3> QED BY <3>1, <3>2
  <2>2. \A unit : T!MayWrite(unit)' <=> T!MayWrite(unit)
    BY DEF T!MayWrite
  <2> QED BY <2>1 DEF T!WorkIsPermitted, T!CasMatches, T!MayWrite
<1> QED BY <1>1, <1>3, <1>4 DEF TrackerInv

\* A worker reads, decides, gives up or dies.
LEMMA TrackerReads ==
  ASSUME T!ConstantsAreSane, TrackerInv, NEW w \in T!Workers,
         \/ w \in Operators /\ T!Command(w)
         \/ w \in Scans /\ T!Begin(w)
         \/ w \in Scans /\ \E m \in TrackedMails, account \in Accounts : T!Process(w, m, account)
         \/ T!Dies(w)
  PROVE  TrackerInv'
<1>1. scanner[w] \in WorkerStates /\ app.version \in Nat /\ clock \in T!Times /\ 0 \in T!Times
  BY DEF TrackerInv, T!TypeOK, WorkerStates, T!Times, T!ConstantsAreSane
<1>2. T!Idle \in WorkerStates /\ T!Idle.pc # "write"
  BY DEF WorkerStates, T!Idle
<1>3. ASSUME NEW unit \in T!Work, T!MayWrite(unit), T!Reads(w, unit), UNCHANGED <<app, events, employerMail, clock, refused>>
      PROVE  TrackerInv'
  <2> DEFINE new == [pc |-> "write", work |-> unit, version |-> app.version]
  <2>1. new \in WorkerStates /\ new.version = app.version /\ new.work = unit
    BY <1>1 DEF WorkerStates
  <2>2. scanner' = [scanner EXCEPT ![w] = new]
    BY <1>3 DEF T!Reads, T!Becomes
  <2> HIDE DEF new
  <2> QED BY <1>3, <2>1, <2>2, WorkerMoves
<1>4. CASE w \in Operators /\ T!Command(w)
  <2>1. PICK type \in {"STATUS_CHANGED", "STATUS_OVERRIDDEN"}, target \in Targets, at \in {clock, 0} :
           LET unit == [type |-> type, target |-> target, origin |-> "OPERATOR", key |-> T!NoKey,
                        at |-> at, chronological |-> at # clock, flag |-> FALSE] IN
           T!MayWrite(unit) /\ T!Reads(w, unit)
    BY <1>4 DEF T!Command
  <2> DEFINE unit == [type |-> type, target |-> target, origin |-> "OPERATOR", key |-> T!NoKey,
                      at |-> at, chronological |-> at # clock, flag |-> FALSE]
  <2>2. unit \in T!Work
    BY <1>1 DEF T!Work, T!OperatorWork
  <2> QED BY <1>3, <1>4, <2>1, <2>2 DEF T!Command
<1>5. CASE w \in Scans /\ T!Begin(w)
  <2>1. /\ scanner[w].work \in T!Work /\ UNCHANGED <<app, events, employerMail, clock, refused>>
        /\ \/ T!MayWrite(scanner[w].work) /\ T!Reads(w, scanner[w].work)
           \/ scanner' = [scanner EXCEPT ![w] = T!Idle]
    BY <1>1, <1>5 DEF T!Begin, WorkerStates, T!Idle, T!Ends, T!Becomes
  <2> QED BY <1>2, <1>3, <2>1, WorkerMoves
<1>6. ASSUME w \in Scans, NEW m \in TrackedMails, NEW account \in Accounts, T!Process(w, m, account)
      PROVE  TrackerInv'
  <2>1. PICK decision : decision = T!DecideResponse(app.status, employerMail[m].class)
    OBVIOUS
  <2> DEFINE unit == [type |-> decision.type, target |-> decision.target, flag |-> decision.flag,
                      origin |-> "GMAIL", key |-> [mail |-> m, account |-> account],
                      at |-> employerMail[m].at, chronological |-> FALSE]
             new == [pc |-> "begin", work |-> unit]
  <2>2. scanner' = [scanner EXCEPT ![w] = new] /\ UNCHANGED <<app, events, employerMail, clock, refused>>
    BY <1>6, <2>1 DEF T!Process, T!Becomes
  <2>3. employerMail[m].at \in T!Times
    BY DEF TrackerInv, T!TypeOK
  <2>4. \/ /\ decision.type = "STATUS_CHANGED" /\ decision.flag = FALSE
           /\ decision.target \in {"RECEIVED", "UNDER_REVIEW", "INTERVIEW"}
        \/ decision.type = "INBOUND_MESSAGE" /\ decision.target = "none" /\ decision.flag \in BOOLEAN
    <3>1. "none" \notin T!AllowedTransitions(app.status)
      BY DEF T!AllowedTransitions, T!PreparationSequence, T!ResponseSequence
    <3> QED BY <2>1, <3>1 DEF T!DecideResponse, T!EmailTargetStatus
  <2>5. unit \in T!MailWork
    BY <2>3, <2>4 DEF T!MailWork
  <2>6. new \in WorkerStates /\ new.pc # "write"
    BY <2>5 DEF WorkerStates, T!Work
  <2> HIDE DEF new
  <2> QED BY <2>2, <2>6, WorkerMoves
<1>7. CASE T!Dies(w)
  BY <1>2, <1>7, WorkerMoves DEF T!Dies, T!Ends, T!Becomes
<1> QED BY <1>4, <1>5, <1>6, <1>7

\* The unit of unit.
LEMMA TrackerCommits ==
  ASSUME T!ConstantsAreSane, TrackerInv, NEW w \in T!Workers, T!Commit(w)
  PROVE  TrackerInv'
<1>1. /\ scanner[w] \in WorkerStates /\ scanner[w].pc = "write" /\ app.version \in Nat
      /\ UNCHANGED <<employerMail, clock>> /\ scanner' = [scanner EXCEPT ![w] = T!Idle]
  BY DEF TrackerInv, T!TypeOK, WorkerStates, T!Commit, T!Ends, T!Becomes
<1>2. T!Idle \in WorkerStates /\ T!Idle.pc # "write"
  BY DEF WorkerStates, T!Idle
<1>3. PICK unit : unit = scanner[w].work
  OBVIOUS
<1>4. unit \in T!Work
  BY <1>1, <1>3 DEF WorkerStates, T!Idle
<1>5. PICK entry : entry = T!Project(unit, app)
  OBVIOUS
<1>6. /\ entry.version = app.version + 1
      /\ entry.status = IF unit.target # "none" THEN unit.target ELSE app.status
      /\ entry.status \in T!Statuses
      /\ \A time \in {entry.submitted, entry.received, entry.contact, entry.anchor} : time \in T!Times \cup {Never}
      /\ entry.status = "SUBMITTED" => entry.submitted # Never
      /\ entry.anchor # Never => entry.status \in T!Waiting /\ entry.anchor \in {entry.contact, entry.submitted}
      /\ unit \in T!MailWork /\ T!MayWrite(unit) => T!Lawful(entry)
  BY <1>4, <1>5, Projection DEF TrackerInv
<1>7. T!CasMatches(w) => T!MayWrite(unit)
  BY <1>1, <1>3 DEF TrackerInv, T!WorkIsPermitted
<1>8. CASE ~(T!CasMatches(w) /\ (unit.key # T!NoKey => ~T!Recorded({unit.key})) /\ T!Lawful(entry))
  <2>1. /\ UNCHANGED <<app, events>>
        /\ refused' = refused \cup IF T!Lawful(entry) \/ ~T!CasMatches(w) THEN {} ELSE {unit.key.mail} \ {Never}
    BY <1>3, <1>5, <1>8 DEF T!Commit
  <2>2. (IF T!Lawful(entry) \/ ~T!CasMatches(w) THEN {} ELSE {unit.key.mail} \ {Never}) = {}
    <3>1. CASE T!Lawful(entry) \/ ~T!CasMatches(w)
      BY <3>1, Zenon
    <3>2. CASE ~(T!Lawful(entry) \/ ~T!CasMatches(w))
      <4>1. unit \notin T!MailWork
        BY <1>6, <1>7, <3>2
      <4>2. unit.key = T!NoKey
        BY <1>4, <4>1 DEF T!Work, T!OperatorWork
      <4>3. unit.key.mail = Never
        BY <4>2 DEF T!NoKey
      <4>4. {unit.key.mail} \ {Never} = {}
        BY <4>3
      <4> QED BY <3>2, <4>4, Zenon
    <3> QED BY <3>1, <3>2
  <2>3. refused \cup {} = refused
    OBVIOUS
  <2>4. refused' = refused
    BY <2>1, <2>2, <2>3, Zenon
  <2> QED BY <1>1, <1>2, <2>1, <2>4, WorkerMoves
<1>9. CASE T!CasMatches(w) /\ (unit.key # T!NoKey => ~T!Recorded({unit.key})) /\ T!Lawful(entry)
  <2>1. app' = entry /\ events' = Append(events, T!Event(unit)) /\ refused' = refused
    BY <1>3, <1>5, <1>9 DEF T!Commit
  <2>2. PICK e : e = T!Event(unit)
    OBVIOUS
  <2>3. e.old = (IF unit.target = "none" THEN "none" ELSE app.status) /\ e.new = unit.target /\ e.origin = unit.origin
    BY <2>2 DEF T!Event
  <2> DEFINE S == [old : T!Statuses \cup {"none"}, new : T!Statuses \cup {"none"}, type : T!EventTypes,
                   origin : {"GMAIL", "OPERATOR"}, key : {T!NoKey} \cup [mail : TrackedMails, account : Accounts]]
  <2>4. events \in Seq(S) /\ app.status \in T!Statuses
    BY DEF TrackerInv, T!TypeOK
  <2>5. e \in S
    <3>1. /\ unit.target \in T!Statuses \cup {"none"} /\ unit.type \in T!EventTypes /\ unit.origin \in {"GMAIL", "OPERATOR"}
          /\ unit.key \in {T!NoKey} \cup [mail : TrackedMails, account : Accounts]
      <4>1. unit.target \in T!Statuses \cup {"none"}
        BY <1>4, Transitions DEF T!Work, T!MailWork, T!OperatorWork, T!ConstantsAreSane
      <4>2. unit.type \in {"STATUS_CHANGED", "STATUS_OVERRIDDEN", "INBOUND_MESSAGE"}
        BY <1>4 DEF T!Work, T!MailWork, T!OperatorWork
      <4>3. unit.origin \in {"GMAIL", "OPERATOR"}
        BY <1>4 DEF T!Work, T!MailWork, T!OperatorWork
      <4>4. unit.key \in {T!NoKey} \cup [mail : TrackedMails, account : Accounts]
        <5>1. CASE unit \in T!MailWork
          BY <5>1 DEF T!MailWork
        <5>2. CASE unit \in T!OperatorWork
          BY <5>2 DEF T!OperatorWork
        <5> QED BY <1>4, <5>1, <5>2 DEF T!Work
      <4>5. unit.type \in T!EventTypes
        BY <4>2 DEF T!EventTypes
      <4> QED BY <4>1, <4>3, <4>4, <4>5
    <3> QED BY <2>2, <2>4, <3>1 DEF T!Event
  <2> HIDE DEF S
  <2>6. events' = Append(events, e) /\ events' \in Seq(S)
    BY <2>1, <2>2, <2>4, <2>5
  <2>7. T!HistoryExplainsTheRow'
    <3>1. app'.version = app.version + 1 /\ e.new = unit.target /\ "none" \notin T!Statuses
      BY <1>6, <2>1, <2>3, Transitions
    <3>2. /\ e.new = "none" => app'.status = app.status
          /\ e.new # "none" => app'.status = e.new /\ e.old = app.status
      BY <1>6, <2>1, <2>3
    <3> QED BY <2>4, <2>5, <2>6, <3>1, <3>2, HistoryGrows DEF TrackerInv, T!TrackerIsSound
  <2>8. T!TypeOK'
    BY <1>1, <1>2, <1>6, <2>1, <2>6 DEF TrackerInv, T!TypeOK, S, WorkerStates
  <2>9. T!MailNeverDecides'
    <3>1. e.origin = "GMAIL" => e.new \notin T!Terminal /\ (e.new # "none" => e.old \notin T!Terminal)
      <4>1. CASE unit \in T!MailWork
        <5>1. /\ unit.target \in {"RECEIVED", "UNDER_REVIEW", "INTERVIEW", "none"}
              /\ unit.target # "none" => unit.target \in T!AllowedTransitions(app.status)
          BY <1>7, <1>9, <4>1 DEF T!MailWork, T!MayWrite
        <5> QED BY <2>3, <2>4, <5>1, Transitions DEF T!Terminal
      <4>2. CASE unit \in T!OperatorWork
        BY <2>3, <4>2 DEF T!OperatorWork
      <4> QED BY <1>4, <4>1, <4>2 DEF T!Work
    <3>2. PICK n \in Nat : n = Len(events)
      BY <2>4
    <3>3. Len(events') = n + 1 /\ events'[n + 1] = e /\ \A k \in 1..n : events'[k] = events[k]
      BY <2>4, <2>5, <2>6, <3>2
    <3>4. \A k \in 2..(n + 1) : k \in 2..n \/ k = n + 1
      BY <3>2
    <3> QED BY <2>1, <3>1, <3>2, <3>3, <3>4 DEF TrackerInv, T!TrackerIsSound, T!MailNeverDecides
  <2>10. T!TrackerIsSound' /\ T!RowIsLawful'
    BY <1>6, <1>9, <2>1, <2>7, <2>9 DEF T!TrackerIsSound, T!RowIsLawful, T!Lawful
  <2>11. T!WorkIsPermitted'
    <3>1. \A v \in T!Workers : scanner'[v].pc = "write" => scanner[v].pc = "write" /\ scanner'[v] = scanner[v]
      BY <1>1, <1>2 DEF TrackerInv, T!TypeOK
    <3>2. \A v \in T!Workers : scanner'[v].pc = "write" => scanner'[v].version \in Nat /\ scanner'[v].version <= app.version
      BY <3>1 DEF TrackerInv, T!TypeOK, T!WorkIsPermitted, T!Idle
    <3>3. app'.version = app.version + 1
      BY <1>6, <2>1
    <3> QED BY <1>1, <3>2, <3>3 DEF T!WorkIsPermitted, T!CasMatches
  <2> QED BY <2>8, <2>10, <2>11 DEF TrackerInv
<1> QED BY <1>8, <1>9

\* Time passes.
LEMMA TrackerAround ==
  ASSUME T!ConstantsAreSane, TrackerInv, T!Tick
  PROVE  TrackerInv'
<1>1. clock' \in T!Times /\ UNCHANGED <<app, events, employerMail, scanner, refused>>
  BY DEF TrackerInv, T!TypeOK, T!Tick, T!Times, T!ConstantsAreSane
<1>2. T!TypeOK'
  BY <1>1 DEF TrackerInv, T!TypeOK
<1>3. T!TrackerIsSound' /\ T!RowIsLawful'
  BY <1>1 DEF TrackerInv, T!TrackerIsSound, T!RowIsLawful, T!HistoryExplainsTheRow, T!Moves, T!MailNeverDecides, T!Lawful
<1>4. T!WorkIsPermitted'
  BY <1>1 DEF TrackerInv, T!WorkIsPermitted, T!CasMatches, T!MayWrite
<1> QED BY <1>2, <1>3, <1>4 DEF TrackerInv

\* Whatever a scan, an operator or the clock does keeps the tracker's invariant.
LEMMA TrackerStep == T!ConstantsAreSane /\ TrackerInv /\ [T!Next]_(T!vars) => TrackerInv'
<1> SUFFICES ASSUME T!ConstantsAreSane, TrackerInv, [T!Next]_(T!vars) PROVE TrackerInv'
  OBVIOUS
<1>1. CASE T!Tick
  BY <1>1, TrackerAround
<1>2. ASSUME NEW o \in Operators, T!Command(o) PROVE TrackerInv'
  BY <1>2, TrackerReads DEF T!Workers
<1>3. ASSUME NEW s \in Scans, (\E m \in TrackedMails, account \in Accounts : T!Process(s, m, account)) \/ T!Begin(s)
      PROVE  TrackerInv'
  BY <1>3, TrackerReads DEF T!Workers
<1>4. ASSUME NEW w \in T!Workers, T!Commit(w) \/ T!Dies(w) PROVE TrackerInv'
  BY <1>4, TrackerReads, TrackerCommits
<1>5. CASE UNCHANGED T!vars
  <2>1. UNCHANGED <<app, events, employerMail, scanner, clock, refused>>
    BY <1>5 DEF T!vars
  <2> QED BY <2>1 DEF TrackerInv, T!TypeOK, T!TrackerIsSound, T!RowIsLawful, T!HistoryExplainsTheRow, T!Moves,
                  T!MailNeverDecides, T!Lawful, T!WorkIsPermitted, T!CasMatches, T!MayWrite
<1> QED BY <1>1, <1>2, <1>3, <1>4, <1>5 DEF T!Next

\* An application comes to the tracker approved or just submitted.
LEMMA TrackerStarts == T!ConstantsAreSane /\ T!Init => TrackerInv
<1> SUFFICES ASSUME T!ConstantsAreSane, T!Init PROVE TrackerInv
  OBVIOUS
<1>1. 0 \in T!Times /\ MaxTime \in T!Times /\ Never # 0 /\ T!Times \subseteq Nat
  BY DEF T!ConstantsAreSane, T!Times
<1>2. PICK status \in {"APPROVED", "SUBMITTED"} :
           /\ app = [status |-> status, version |-> 1, changed |-> 0,
                     submitted |-> IF status = "SUBMITTED" THEN 0 ELSE Never, received |-> Never,
                     contact |-> Never, followUp |-> FALSE,
                     anchor |-> IF status = "SUBMITTED" THEN 0 ELSE Never]
           /\ events = <<[type |-> "CREATED", old |-> "none", new |-> status,
                          origin |-> "OPERATOR", key |-> T!NoKey]>>
  BY DEF T!Init
<1>3. status \in T!Statuses /\ status # "none" /\ "SUBMITTED" \in T!Waiting
  BY Transitions DEF T!Waiting
<1>4. /\ app.version = 1 /\ app.status = status /\ app.received = Never /\ app.contact = Never
      /\ app.submitted = (IF status = "SUBMITTED" THEN 0 ELSE Never)
      /\ app.anchor = (IF status = "SUBMITTED" THEN 0 ELSE Never)
  BY <1>2
<1>5. PICK e : e = [type |-> "CREATED", old |-> "none", new |-> status, origin |-> "OPERATOR", key |-> T!NoKey]
  OBVIOUS
<1>6. e.new = status /\ e.origin = "OPERATOR" /\ events = <<e>>
  BY <1>2, <1>5
<1>7. Len(events) = 1 /\ DOMAIN events = 1..1 /\ events[1] = e
  BY <1>6
<1>8. T!TypeOK
  <2>1. e \in [old : T!Statuses \cup {"none"}, new : T!Statuses \cup {"none"}, type : T!EventTypes,
               origin : {"GMAIL", "OPERATOR"}, key : {T!NoKey} \cup [mail : TrackedMails, account : Accounts]]
    <3>1. T!NoKey \in {T!NoKey} \cup [mail : TrackedMails, account : Accounts]
      OBVIOUS
    <3>2. "CREATED" \in T!EventTypes
      BY DEF T!EventTypes
    <3> HIDE DEF T!NoKey
    <3> QED BY <1>3, <1>5, <3>1, <3>2
  <2>2. clock \in T!Times /\ employerMail \in [TrackedMails -> [class : Classes, at : T!Times]]
    BY <1>1 DEF T!Init
  <2>3. scanner \in [T!Workers -> {T!Idle} \cup [pc : {"begin"}, work : T!Work]
                                  \cup [pc : {"write"}, work : T!Work, version : Nat]]
    BY DEF T!Init
  <2>4. \A time \in {app.submitted, app.received, app.contact, app.anchor} : time \in T!Times \cup {Never}
    BY <1>1, <1>4
  <2> QED BY <1>3, <1>4, <1>6, <2>1, <2>2, <2>3, <2>4 DEF T!TypeOK
<1>9. T!HistoryExplainsTheRow
  BY <1>3, <1>4, <1>6, <1>7 DEF T!HistoryExplainsTheRow, T!Moves
<1>10. T!MailNeverDecides
  BY <1>7 DEF T!MailNeverDecides, T!Init
<1>11. app.anchor # Never => app.status \in T!Waiting /\ app.anchor \in {app.contact, app.submitted}
  BY <1>3, <1>4
<1>12. T!RowIsLawful
  BY <1>1, <1>4 DEF T!RowIsLawful, T!Lawful
<1>13. T!WorkIsPermitted
  BY DEF T!WorkIsPermitted, T!Init, T!Idle
<1> QED BY <1>8, <1>9, <1>10, <1>11, <1>12, <1>13 DEF TrackerInv, T!TrackerIsSound

\* The invariant is inductive.
LEMMA TrackerInductive ==
  ASSUME T!ConstantsAreSane
  PROVE  /\ T!Init => T!IInv
         /\ T!IInv /\ [T!Next]_(T!vars) => T!IInv'
  BY TrackerStarts, TrackerStep DEF T!IInv, TrackerInv

\* The history explains the row, and who has its version may write what it read.
THEOREM TrackerInvariance == ASSUME T!ConstantsAreSane PROVE T!Spec => []T!IInv
  BY TrackerInductive, PTL DEF T!Spec

\* (ApplicationTracker.)
THEOREM TrackerSound == ASSUME T!ConstantsAreSane PROVE T!Spec => []T!TrackerIsSound
<1>1. T!IInv => T!TrackerIsSound
  BY DEF T!IInv
<1> QED BY <1>1, TrackerInvariance, PTL

-----------------------------------------------------------------------------
(* Cards: one message about an event                                       *)

\* Every step keeps the types: a claim is counted within the budget.
LEMMA CardTypes ==
  ASSUME N!ConstantsAreSane, N!TypeOK, N!OutcomeIsTrue, N!ClaimIsAlone, N!Next PROVE N!TypeOK'
<1> USE DEF N!ConstantsAreSane, N!TypeOK, N!CommandStates, N!Idle, N!Messages, N!Rows,
            N!Becomes, N!Ends, N!Goes
<1>1. ASSUME NEW e \in Events, N!RecordEvent(e) PROVE N!TypeOK'
  BY <1>1 DEF N!RecordEvent
<1>2. ASSUME NEW t \in N!Messages, N!Ages(t) PROVE N!TypeOK'
  BY <1>2 DEF N!Ages
<1>3. ASSUME NEW c \in Commands, NEW t \in Cards, N!SendCard(c, t) PROVE N!TypeOK'
  <2>1. row' \in [N!Messages -> N!Rows]
    BY <1>3 DEF N!SendCard, N!ReconcileStaleCard
  <2> QED BY <1>3, <2>1 DEF N!SendCard, N!Reads
<1>4. ASSUME NEW c \in Commands, N!FindPending(c) PROVE N!TypeOK'
  BY <1>4 DEF N!FindPending, N!Oldest
<1>5. ASSUME NEW c \in Commands, N!DeliverNotification(c) PROVE N!TypeOK'
  <2>1. command[c] \in [pc : {"next"}, todo : SUBSET Events]
    BY <1>5 DEF N!DeliverNotification
  <2> QED BY <1>5, <2>1 DEF N!DeliverNotification, N!Reads
<1>6. ASSUME NEW c \in Commands, N!Claim(c) PROVE N!TypeOK'
  <2>1. command[c] \in [pc : {"claim"}, target : N!Messages,
                        seen : {"none", "SENDING", "SENT", "FAILED", "UNCERTAIN"}, todo : SUBSET Events]
    BY <1>6 DEF N!Claim
  <2>2. CASE N!MayClaim(command[c].target, command[c].seen)
    <3>1. row[command[c].target].attempts + 1 \in 0..MaxAttempts
      BY <2>1, <2>2 DEF N!MayClaim, N!Retryable, N!OutcomeIsTrue
    <3>2. row' \in [N!Messages -> N!Rows]
      BY <1>6, <2>1, <2>2, <3>1 DEF N!Claim
    <3>3. command' \in [Commands -> N!CommandStates]
      BY <1>6, <2>1, <2>2 DEF N!Claim
    <3> QED BY <1>6, <3>2, <3>3 DEF N!Claim
  <2>3. CASE ~N!MayClaim(command[c].target, command[c].seen)
    BY <1>6, <2>1, <2>3 DEF N!Claim
  <2> QED BY <2>2, <2>3
<1>7. ASSUME NEW c \in Commands, N!Send(c) PROVE N!TypeOK'
  <2>1. command[c] \in [pc : {"send"}, target : N!Messages,
                        seen : {"none", "SENDING", "SENT", "FAILED", "UNCERTAIN"}, todo : SUBSET Events]
    BY <1>7 DEF N!Send
  <2>2. delivered[command[c].target] = 0
    BY <1>7, <2>1 DEF N!Send, N!OutcomeIsTrue, N!HasClaimed
  <2>3. delivered' \in [N!Messages -> {0, 1}]
    BY <1>7, <2>1, <2>2 DEF N!Send
  <2>4. PICK answer \in {"SENT", "FAILED", "UNCERTAIN"} :
          command' = [command EXCEPT ![c] = [command[c] EXCEPT !.pc = "resolve", !.seen = answer]]
    BY <1>7 DEF N!Send
  <2>5. [command[c] EXCEPT !.pc = "resolve", !.seen = answer]
          \in [pc : {"resolve"}, target : N!Messages,
              seen : {"SENT", "FAILED", "UNCERTAIN"}, todo : SUBSET Events]
    BY <2>1
  <2> QED BY <1>7, <2>3, <2>4, <2>5 DEF N!Send
<1>8. ASSUME NEW c \in Commands, N!Resolve(c) PROVE N!TypeOK'
  <2>1. command[c] \in [pc : {"resolve"}, target : N!Messages,
                        seen : {"SENT", "FAILED", "UNCERTAIN"}, todo : SUBSET Events]
    BY <1>8 DEF N!Resolve
  <2>2. row' \in [N!Messages -> N!Rows]
    <3> HIDE DEF N!CommandStates, N!Messages, N!Goes
    <3>1. command[c].target \in N!Messages /\ command[c].seen \in {"SENT", "FAILED", "UNCERTAIN"}
      BY <2>1
    <3> QED BY <1>8, <3>1 DEF N!Resolve
  <2>3. command' \in [Commands -> N!CommandStates]
    <3>1. [pc |-> "next", todo |-> command[c].todo] \in N!CommandStates
      BY <2>1
    <3> QED BY <1>8, <3>1 DEF N!Resolve
  <2> QED BY <1>8, <2>2, <2>3 DEF N!Resolve
<1>9. ASSUME NEW c \in Commands, N!Dies(c) PROVE N!TypeOK'
  BY <1>9 DEF N!Dies
<1> QED BY <1>1, <1>2, <1>3, <1>4, <1>5, <1>6, <1>7, <1>8, <1>9 DEF N!Next

\* Every step keeps the claim with one command and the answer with the wire.
LEMMA CardSteps ==
  ASSUME N!ConstantsAreSane, N!IInv, N!Next, N!TypeOK' PROVE N!ClaimIsAlone' /\ N!OutcomeIsTrue'
<1> USE DEF N!IInv, N!ClaimIsAlone, N!OutcomeIsTrue, N!HasClaimed, N!Becomes, N!Ends, N!Idle
<1>0. /\ row \in [N!Messages -> N!Rows] /\ delivered \in [N!Messages -> {0, 1}]
      /\ command \in [Commands -> N!CommandStates]
      /\ \A c \in Commands : command[c].pc \in {"claim", "send", "resolve"} =>
             command[c] \in [pc : {"claim", "send", "resolve"}, target : N!Messages,
                             seen : {"none", "SENDING", "SENT", "FAILED", "UNCERTAIN"}, todo : SUBSET Events]
      /\ \A c \in Commands : command[c].pc = "resolve" => command[c].seen \in {"SENT", "FAILED", "UNCERTAIN"}
  BY DEF N!TypeOK, N!CommandStates
\* Nobody takes a claim up or lays one down with a truth of its own.
<1>1. ASSUME NEW c \in Commands,
             \A d \in Commands \ {c} : command'[d] = command[d],
             command'[c].pc \notin {"send", "resolve"},
             UNCHANGED delivered,
             \A t \in N!Messages :
                 \/ row'[t].state = row[t].state /\ row'[t].attempts = row[t].attempts
                 \/ row[t].state = "SENDING" /\ row'[t].state = "UNCERTAIN"
      PROVE  N!ClaimIsAlone' /\ N!OutcomeIsTrue'
  BY <1>0, <1>1
<1>2. ASSUME NEW e \in Events, N!RecordEvent(e) PROVE N!ClaimIsAlone' /\ N!OutcomeIsTrue'
  BY <1>0, <1>2 DEF N!RecordEvent
<1>3. ASSUME NEW t \in N!Messages, N!Ages(t) PROVE N!ClaimIsAlone' /\ N!OutcomeIsTrue'
  BY <1>0, <1>3 DEF N!Ages
<1>4. ASSUME NEW c \in Commands, NEW t \in Cards, N!SendCard(c, t)
      PROVE  N!ClaimIsAlone' /\ N!OutcomeIsTrue'
  BY <1>0, <1>1, <1>4 DEF N!SendCard, N!ReconcileStaleCard, N!Reads, N!Messages
<1>5. ASSUME NEW c \in Commands, N!FindPending(c) \/ N!DeliverNotification(c) \/ N!Dies(c)
      PROVE  N!ClaimIsAlone' /\ N!OutcomeIsTrue'
  BY <1>0, <1>1, <1>5 DEF N!FindPending, N!DeliverNotification, N!Reads, N!Dies
<1>6. ASSUME NEW c \in Commands, N!Claim(c) PROVE N!ClaimIsAlone' /\ N!OutcomeIsTrue'
  <2> DEFINE t == command[c].target
  <2>1. t \in N!Messages
    BY <1>0, <1>6 DEF N!Claim
  <2>2. CASE N!MayClaim(t, command[c].seen)
    <3>1. row[t].state \in {"none", "FAILED"}
      BY <2>2 DEF N!MayClaim, N!Retryable
    <3>2. /\ \A d \in Commands \ {c} : command'[d] = command[d]
          /\ command'[c].pc = "send" /\ command'[c].target = t
          /\ row'[t].state = "SENDING"
          /\ \A u \in N!Messages \ {t} : row'[u] = row[u]
          /\ UNCHANGED delivered
      <4>1. /\ command' = [command EXCEPT ![c] = [command[c] EXCEPT !.pc = "send"]]
            /\ row' = [row EXCEPT ![t].state = "SENDING", ![t].attempts = @ + 1, ![t].old = FALSE]
            /\ UNCHANGED delivered
        BY <1>6, <2>2 DEF N!Claim
      <4>2. command[c] \in [pc : {"claim", "send", "resolve"}, target : N!Messages,
                            seen : {"none", "SENDING", "SENT", "FAILED", "UNCERTAIN"}, todo : SUBSET Events]
        BY <1>0, <1>6 DEF N!Claim
      <4>3. row[t] \in N!Rows
        BY <1>0, <2>1
      <4> QED BY <1>0, <2>1, <4>1, <4>2, <4>3 DEF N!Rows
    <3> QED BY <1>0, <2>1, <3>1, <3>2
  <2>3. CASE ~N!MayClaim(t, command[c].seen)
    BY <1>0, <1>1, <1>6, <2>3 DEF N!Claim, N!Goes
  <2> QED BY <2>2, <2>3
<1>7. ASSUME NEW c \in Commands, N!Send(c) PROVE N!ClaimIsAlone' /\ N!OutcomeIsTrue'
  <2> DEFINE t == command[c].target
  <2>1. t \in N!Messages /\ N!HasClaimed(c, t)
    BY <1>0, <1>7 DEF N!Send
  <2>2. PICK answer \in {"SENT", "FAILED", "UNCERTAIN"} :
          /\ \A d \in Commands \ {c} : command'[d] = command[d]
          /\ command'[c].pc = "resolve" /\ command'[c].target = t /\ command'[c].seen = answer
          /\ delivered' = IF answer = "FAILED" THEN delivered ELSE [delivered EXCEPT ![t] = @ + 1]
          /\ UNCHANGED row
    BY <1>0, <1>7 DEF N!Send
  <2>3. delivered[t] = 0
    BY <1>7, <2>1 DEF N!Send
  <2>4. /\ delivered'[t] = IF answer = "FAILED" THEN 0 ELSE 1
        /\ \A u \in N!Messages \ {t} : delivered'[u] = delivered[u]
    BY <1>0, <2>1, <2>2, <2>3
  <2> QED BY <1>0, <2>1, <2>2, <2>3, <2>4
<1>8. ASSUME NEW c \in Commands, N!Resolve(c) PROVE N!ClaimIsAlone' /\ N!OutcomeIsTrue'
  <2> DEFINE t == command[c].target
  <2>1. t \in N!Messages /\ N!HasClaimed(c, t) /\ command[c].seen \in {"SENT", "FAILED", "UNCERTAIN"}
    BY <1>0, <1>8 DEF N!Resolve
  <2>2. /\ \A d \in Commands \ {c} : command'[d] = command[d]
        /\ command'[c].pc \in {"idle", "next"}
        /\ UNCHANGED delivered
    BY <1>0, <1>8 DEF N!Resolve, N!Goes
  <2>3. CASE row[t].state = "SENDING"
    <3>1. row'[t].state = command[c].seen /\ \A u \in N!Messages \ {t} : row'[u] = row[u]
      BY <1>0, <1>8, <2>1, <2>3 DEF N!Resolve
    <3> QED BY <1>0, <1>8, <2>1, <2>2, <3>1 DEF N!Resolve
  <2>4. CASE row[t].state # "SENDING"
    BY <1>0, <1>1, <1>8, <2>2, <2>4 DEF N!Resolve
  <2> QED BY <2>3, <2>4
<1> QED BY <1>2, <1>3, <1>4, <1>5, <1>6, <1>7, <1>8 DEF N!Next

\* The invariant is inductive.
LEMMA CardInductive ==
  ASSUME N!ConstantsAreSane
  PROVE  /\ N!Init => N!IInv
         /\ N!IInv /\ [N!Next]_(N!vars) => N!IInv'
<1>1. N!Init => N!IInv
  BY DEF N!ConstantsAreSane, N!Init, N!IInv, N!TypeOK, N!Rows, N!CommandStates, N!Idle,
         N!ClaimIsAlone, N!OutcomeIsTrue, N!HasClaimed
<1>2. N!IInv /\ [N!Next]_(N!vars) => N!IInv'
  <2> SUFFICES ASSUME N!IInv, [N!Next]_(N!vars) PROVE N!IInv'
    OBVIOUS
  <2>1. CASE N!Next
    BY <2>1, CardTypes, CardSteps DEF N!IInv
  <2>2. CASE UNCHANGED N!vars
    BY <2>2 DEF N!vars, N!IInv, N!TypeOK, N!ClaimIsAlone, N!OutcomeIsTrue, N!HasClaimed
  <2> QED BY <2>1, <2>2
<1> QED BY <1>1, <1>2

\* The claims of cards and notifications, and what their rows say.
THEOREM CardInvariance == ASSUME N!ConstantsAreSane PROVE N!Spec => []N!IInv
  BY CardInductive, PTL DEF N!Spec

\* Who holds no claim has sent what the row says, and no more.
LEMMA CardSays == N!IInv => N!OneMessagePerTarget
<1> SUFFICES ASSUME N!IInv PROVE N!OneMessagePerTarget
  OBVIOUS
<1>1. row \in [N!Messages -> N!Rows] /\ delivered \in [N!Messages -> {0, 1}]
  BY DEF N!IInv, N!TypeOK
<1>2. \A t \in N!Messages : row[t].state \in {"none", "SENDING", "SENT", "FAILED", "UNCERTAIN"}
  BY <1>1 DEF N!Rows
<1> QED
  BY <1>1, <1>2 DEF N!IInv, N!ClaimIsAlone, N!OutcomeIsTrue, N!HasClaimed, N!OneMessagePerTarget

\* A card or a notice reaches the chat at most once.
THEOREM OneMessage == ASSUME N!ConstantsAreSane PROVE N!Spec => []N!OneMessagePerTarget
<1>1. N!IInv => N!OneMessagePerTarget
  BY CardSays
<1> QED BY <1>1, CardInvariance, PTL

\* A row that goes on resolves the outcome of its message.
LEMMA CardRowRefines ==
  ASSUME N!IInv, NEW t \in N!Messages, NEW state \in {"SENDING", "SENT", "FAILED", "UNCERTAIN"},
         \A u \in N!Messages : row'[u].state = IF u = t THEN state ELSE row[u].state, UNCHANGED delivered,
         \/ row[t].state \in {"none", "FAILED"} /\ state = "SENDING"
         \/ /\ row[t].state = "SENDING" /\ state # "SENDING"
            /\ state = "SENT" => delivered[t] = 1
            /\ state = "FAILED" => delivered[t] = 0
  PROVE  N!Promise!ANext
<1> DEFINE fate(s) == CASE s \in {"none", "FAILED"} -> "open"
                        [] s = "SENDING" -> "trying"
                        [] s = "UNCERTAIN" -> "unknown"
                        [] s = "SENT" -> "sent"
           outcome == [u \in N!Messages |-> fate(row[u].state)]
           later == [u \in N!Messages |-> fate(row'[u].state)]
<1>1. later = [outcome EXCEPT ![t] = fate(state)]
  <2> HIDE DEF fate
  <2> QED OBVIOUS
<1>2. outcome[t] = fate(row[t].state)
  OBVIOUS
<1>3. CASE row[t].state \in {"none", "FAILED"} /\ state = "SENDING"
  <2>1. delivered[t] = 0
    BY <1>3 DEF N!IInv, N!OutcomeIsTrue
  <2>2. N!Promise!Begin(t)
    BY <1>1, <1>2, <1>3, <2>1 DEF N!Promise!Begin, N!Promise!Resolve
  <2> QED BY <2>2 DEF N!Promise!ANext
<1>4. CASE row[t].state = "SENDING" /\ state = "SENT" /\ delivered[t] = 1
  BY <1>1, <1>2, <1>4 DEF N!Promise!ANext, N!Promise!Confirm, N!Promise!Resolve
<1>5. CASE row[t].state = "SENDING" /\ state = "FAILED" /\ delivered[t] = 0
  BY <1>1, <1>2, <1>5 DEF N!Promise!ANext, N!Promise!Release, N!Promise!Resolve
<1>6. CASE row[t].state = "SENDING" /\ state = "UNCERTAIN"
  BY <1>1, <1>2, <1>6 DEF N!Promise!ANext, N!Promise!LoseTrack, N!Promise!Resolve
<1> QED BY <1>3, <1>4, <1>5, <1>6

\* Where no state of a row changes, the promise sees nothing.
LEMMA CardQuiet ==
  ASSUME \A t \in N!Messages : row'[t].state = row[t].state, UNCHANGED delivered
  PROVE  UNCHANGED N!Promise!avars
<1> DEFINE fate(s) == CASE s \in {"none", "FAILED"} -> "open"
                        [] s = "SENDING" -> "trying"
                        [] s = "UNCERTAIN" -> "unknown"
                        [] s = "SENT" -> "sent"
<1>1. [t \in N!Messages |-> fate(row'[t].state)] = [t \in N!Messages |-> fate(row[t].state)]
  <2> HIDE DEF fate
  <2> QED OBVIOUS
<1> QED BY <1>1 DEF N!Promise!avars

\* Every step of a card or a notice is one of the promise, or invisible to it.
LEMMA CardStepRefines ==
  ASSUME N!ConstantsAreSane, N!IInv, [N!Next]_(N!vars)
  PROVE  [N!Promise!ANext]_(N!Promise!avars)
<1>1. /\ row \in [N!Messages -> N!Rows] /\ delivered \in [N!Messages -> {0, 1}]
      /\ command \in [Commands -> N!CommandStates]
      /\ \A c \in Commands : command[c].pc \in {"claim", "send", "resolve"} => command[c].target \in N!Messages
      /\ \A c \in Commands : command[c].pc = "resolve" => command[c].seen \in {"SENT", "FAILED", "UNCERTAIN"}
  BY DEF N!IInv, N!TypeOK, N!CommandStates, N!Idle
<1>2. ASSUME UNCHANGED <<row, delivered>> PROVE UNCHANGED N!Promise!avars
  BY <1>2, CardQuiet
<1>3. ASSUME NEW e \in Events, N!RecordEvent(e) PROVE UNCHANGED N!Promise!avars
  BY <1>2, <1>3 DEF N!RecordEvent
<1>4. ASSUME NEW t \in N!Messages, N!Ages(t) PROVE UNCHANGED N!Promise!avars
  <2>1. PICK new : new = [row[t] EXCEPT !.old = TRUE]
    OBVIOUS
  <2>2. row' = [row EXCEPT ![t] = new] /\ UNCHANGED delivered
    BY <1>4, <2>1 DEF N!Ages
  <2>3. new.state = row[t].state
    BY <1>1, <2>1 DEF N!Rows
  <2> QED BY <1>1, <2>2, <2>3, CardQuiet
<1>5. ASSUME NEW c \in Commands, NEW t \in Cards, N!SendCard(c, t)
      PROVE  N!Promise!ANext \/ UNCHANGED N!Promise!avars
  <2>1. row' = N!ReconcileStaleCard(t) /\ UNCHANGED delivered /\ t \in N!Messages
    BY <1>5 DEF N!SendCard, N!Messages
  <2>2. CASE row[t].state = "SENDING" /\ row[t].old
    <3>1. PICK new : new = [row[t] EXCEPT !.state = "UNCERTAIN", !.old = FALSE]
      OBVIOUS
    <3>2. row' = [row EXCEPT ![t] = new]
      BY <2>1, <2>2, <3>1 DEF N!ReconcileStaleCard
    <3>3. new.state = "UNCERTAIN"
      BY <1>1, <2>1, <3>1 DEF N!Rows
    <3>4. \A u \in N!Messages : row'[u].state = IF u = t THEN "UNCERTAIN" ELSE row[u].state
      <4>1. \A u \in N!Messages : row'[u].state = IF u = t THEN new.state ELSE row[u].state
        BY <1>1, <3>2
      <4> QED BY <3>3, <4>1
    <3> QED BY <2>1, <2>2, <3>4, CardRowRefines
  <2>3. CASE ~(row[t].state = "SENDING" /\ row[t].old)
    BY <1>2, <2>1, <2>3 DEF N!ReconcileStaleCard
  <2> QED BY <2>2, <2>3
<1>6. ASSUME NEW c \in Commands, N!FindPending(c) \/ N!DeliverNotification(c) \/ N!Dies(c)
      PROVE  UNCHANGED N!Promise!avars
  BY <1>2, <1>6 DEF N!FindPending, N!DeliverNotification, N!Dies
<1>7. ASSUME NEW c \in Commands, N!Claim(c) PROVE N!Promise!ANext \/ UNCHANGED N!Promise!avars
  <2>1. PICK t \in N!Messages : t = command[c].target
    BY <1>1, <1>7 DEF N!Claim
  <2>2. UNCHANGED delivered
    BY <1>7 DEF N!Claim
  <2>3. CASE N!MayClaim(t, command[c].seen)
    <3>1. PICK new : new = [row[t] EXCEPT !.state = "SENDING", !.attempts = @ + 1, !.old = FALSE]
      OBVIOUS
    <3>2. row' = [row EXCEPT ![t] = new]
      BY <1>7, <2>1, <2>3, <3>1 DEF N!Claim
    <3>3. new.state = "SENDING"
      BY <1>1, <3>1 DEF N!Rows
    <3>4. \A u \in N!Messages : row'[u].state = IF u = t THEN "SENDING" ELSE row[u].state
      <4>1. \A u \in N!Messages : row'[u].state = IF u = t THEN new.state ELSE row[u].state
        BY <1>1, <3>2
      <4> QED BY <3>3, <4>1
    <3>5. row[t].state \in {"none", "FAILED"}
      BY <2>3 DEF N!MayClaim, N!Retryable
    <3> QED BY <2>2, <3>4, <3>5, CardRowRefines
  <2>4. CASE ~N!MayClaim(t, command[c].seen)
    BY <1>2, <1>7, <2>1, <2>2, <2>4 DEF N!Claim
  <2> QED BY <2>3, <2>4
<1>8. ASSUME NEW c \in Commands, N!Send(c) PROVE N!Promise!ANext \/ UNCHANGED N!Promise!avars
  <2>1. PICK t \in N!Messages : t = command[c].target
    BY <1>1, <1>8 DEF N!Send
  <2>2. N!HasClaimed(c, t) /\ UNCHANGED row
    BY <1>8, <2>1 DEF N!Send, N!HasClaimed
  <2>3. row[t].state \in {"SENDING", "UNCERTAIN"} /\ delivered[t] = 0
    BY <1>8, <2>2 DEF N!IInv, N!ClaimIsAlone, N!OutcomeIsTrue, N!Send
  <2>4. delivered' = delivered \/ delivered' = [delivered EXCEPT ![t] = @ + 1]
    BY <1>8, <2>1 DEF N!Send
  <2>5. CASE delivered' = delivered
    BY <1>2, <2>2, <2>5
  <2>6. CASE delivered' = [delivered EXCEPT ![t] = @ + 1]
    <3>1. delivered' = [delivered EXCEPT ![t] = 1]
      BY <1>1, <2>3, <2>6
    <3>2. N!Promise!Deliver(t)
      BY <2>2, <2>3, <3>1 DEF N!Promise!Deliver
    <3> QED BY <3>2 DEF N!Promise!ANext
  <2> QED BY <2>4, <2>5, <2>6
<1>9. ASSUME NEW c \in Commands, N!Resolve(c) PROVE N!Promise!ANext \/ UNCHANGED N!Promise!avars
  <2>1. PICK t \in N!Messages : t = command[c].target
    BY <1>1, <1>9 DEF N!Resolve
  <2>2. PICK said \in {"SENT", "FAILED", "UNCERTAIN"} : said = command[c].seen
    BY <1>1, <1>9 DEF N!Resolve
  <2>3. N!HasClaimed(c, t) /\ command[c].pc = "resolve" /\ UNCHANGED delivered
    BY <1>9, <2>1 DEF N!Resolve, N!HasClaimed
  <2>4. (said = "SENT" => delivered[t] = 1) /\ (said = "FAILED" => delivered[t] = 0)
    BY <2>2, <2>3 DEF N!IInv, N!OutcomeIsTrue
  <2>5. CASE row[t].state = "SENDING"
    <3>1. PICK new : new = [row[t] EXCEPT !.state = said, !.old = FALSE]
      OBVIOUS
    <3>2. row' = [row EXCEPT ![t] = new]
      BY <1>9, <2>1, <2>2, <2>5, <3>1 DEF N!Resolve
    <3>3. new.state = said
      BY <1>1, <3>1 DEF N!Rows
    <3>4. \A u \in N!Messages : row'[u].state = IF u = t THEN said ELSE row[u].state
      <4>1. \A u \in N!Messages : row'[u].state = IF u = t THEN new.state ELSE row[u].state
        BY <1>1, <3>2
      <4> QED BY <3>3, <4>1
    <3> QED BY <2>3, <2>4, <2>5, <3>4, CardRowRefines
  <2>6. CASE row[t].state # "SENDING"
    BY <1>2, <1>9, <2>1, <2>3, <2>6 DEF N!Resolve
  <2> QED BY <2>5, <2>6
<1>10. CASE UNCHANGED N!vars
  BY <1>2, <1>10 DEF N!vars
<1> QED BY <1>3, <1>4, <1>5, <1>6, <1>7, <1>8, <1>9, <1>10 DEF N!Next

\* A card or a notice keeps the at-most-once promise: every step is a step of
\* AtMostOnceSend, message by message, or invisible to it
\* (telegram_operator_repository.py).
THEOREM CardRefinement == ASSUME N!ConstantsAreSane PROVE N!Spec => N!KeepsPromise
<1>1. N!Init => N!Promise!AInit
  <2>1. ASSUME N!Init, NEW t \in N!Messages PROVE row[t].state = "none"
    BY <2>1 DEF N!Init
  <2> QED BY <2>1 DEF N!Init, N!Promise!AInit
<1> QED BY <1>1, CardStepRefines, CardInvariance, PTL DEF N!Spec, N!KeepsPromise, N!Promise!ASpec

-----------------------------------------------------------------------------
(* Feed: one card per vacancy and claim                                    *)

\* Of the senders, s at most has become another one, and it holds nothing.
LetsGo(s) ==
    /\ \A t \in F!Senders \ {s} : sender'[t] = sender[t]
    /\ sender'[s].pc \notin {"render", "SENT", "FAILED", "UNCERTAIN"}

\* What may happen to a row that nobody's claim covers, or beside its sender.
RowMoves(j) ==
    LET old == vacancyRow[j]
        new == vacancyRow'[j] IN
    \/ new.state = old.state /\ new.claim = old.claim /\ new.held = old.held /\ new.attempts = old.attempts
    \/ old.state = "SENDING" /\ new.state = "DELIVERY_UNCERTAIN"
    \/ /\ old.state \in {"none", "QUEUED_FOR_REVIEW"} \/ (old.state = "DISCOVERED" /\ ~old.held)
       /\ new.state \in {"QUEUED_FOR_REVIEW", "DISCOVERED"} /\ new.attempts = old.attempts
    \/ /\ F!Arrived(j) /\ old.state \in F!DecidableStates
       /\ new.state \in F!DecisionStates

FeedParts ==
    /\ F!BudgetHolds /\ F!ClaimIsAlone /\ F!SenderKnows /\ F!OneCardPerJob
    /\ F!OperatorHolds /\ F!HeldForOperator

\* A message handed over comes after the earlier ones, which stay.
LEMMA SendAdds ==
  ASSUME F!TypeOK, NEW j \in Jobs, NEW e \in F!Sends, sends' = [sends EXCEPT ![j] = Append(@, e)]
  PROVE  /\ sends' \in [Jobs -> Seq(F!Sends)]
         /\ Len(sends[j]) \in Nat
         /\ DOMAIN sends[j] = 1..Len(sends[j]) /\ DOMAIN sends'[j] = 1..(Len(sends[j]) + 1)
         /\ \A k \in DOMAIN sends[j] : sends'[j][k] = sends[j][k]
         /\ sends'[j][Len(sends[j]) + 1] = e
         /\ \A i \in Jobs \ {j} : sends'[i] = sends[i]
  BY DEF F!TypeOK

\* A step that hands nothing over keeps the invariant's parts.
LEMMA FeedQuiet ==
  ASSUME F!TypeOK, FeedParts, NEW s, LetsGo(s) \/ UNCHANGED sender,
         \A j \in Jobs : RowMoves(j), UNCHANGED sends
  PROVE  FeedParts'
<1> USE DEF FeedParts, RowMoves, LetsGo, F!DecidableStates, F!DecisionStates, F!ClaimableStates
<1>1. F!BudgetHolds'
  BY DEF F!BudgetHolds
<1>2. F!ClaimIsAlone'
  BY DEF F!ClaimIsAlone, F!Holds, F!OwnsClaim
<1>3. F!SenderKnows'
  <2> SUFFICES ASSUME NEW t \in F!Senders, NEW j \in Jobs, F!Holds(t, j)'
               PROVE  /\ sender'[t].pc \in {"render", "FAILED"} => F!MayBeThere(j)' = {}
                      /\ sender'[t].pc = "SENT" => F!Arrived(j)'
                      /\ sender'[t].pc = "render" /\ t \in Sweeps => ~F!SentByOperator(j)'
    BY DEF F!SenderKnows
  <2>1. sender'[t] = sender[t] /\ F!Holds(t, j)
    BY DEF F!Holds
  <2>2. F!MayBeThere(j)' = F!MayBeThere(j) /\ F!Arrived(j)' = F!Arrived(j)
        /\ F!SentByOperator(j)' = F!SentByOperator(j)
    BY DEF F!MayBeThere, F!Refused, F!Arrived, F!SentByOperator
  <2> QED BY <2>1, <2>2 DEF F!SenderKnows
<1>4. F!OneCardPerJob'
  BY DEF F!OneCardPerJob, F!MayBeThere, F!Refused, F!Arrived
<1>5. F!OperatorHolds'
  BY DEF F!OperatorHolds, F!SentByOperator
<1>6. F!HeldForOperator'
  BY DEF F!HeldForOperator
<1> QED BY <1>1, <1>2, <1>3, <1>4, <1>5, <1>6

\* A row that may be claimed has no sender left, nor a card that may be there.
LEMMA FeedClaims ==
  ASSUME F!ConstantsAreSane, F!TypeOK, FeedParts, NEW s \in F!Senders, NEW j \in Jobs,
         vacancyRow[j].state \in F!ClaimableStates,
         s \in Sweeps => vacancyRow[j].state = "QUEUED_FOR_REVIEW",
         vacancyRow'[j].state = "SENDING", vacancyRow'[j].claim = s,
         vacancyRow'[j].attempts = vacancyRow[j].attempts + 1,
         \A i \in Jobs \ {j} : vacancyRow'[i] = vacancyRow[i],
         \A t \in F!Senders \ {s} : sender'[t] = sender[t],
         sender'[s].pc = "render", sender'[s].job = j, UNCHANGED sends
  PROVE  FeedParts'
<1> USE DEF FeedParts
<1>2. \A t \in F!Senders : ~F!Holds(t, j)
  BY DEF F!ClaimIsAlone, F!OwnsClaim, F!ClaimableStates, F!DecidableStates, F!DecisionStates
<1>3. F!MayBeThere(j) = {}
  BY DEF F!OneCardPerJob, F!ClaimableStates, F!DecidableStates, F!DecisionStates
<1>4. s \in Sweeps => ~F!SentByOperator(j)
  BY DEF F!OperatorHolds, F!DecidableStates, F!DecisionStates
<1>5. \A i \in Jobs : F!MayBeThere(i)' = F!MayBeThere(i) /\ F!Arrived(i)' = F!Arrived(i)
                       /\ F!SentByOperator(i)' = F!SentByOperator(i)
  BY DEF F!MayBeThere, F!Refused, F!Arrived, F!SentByOperator
<1>6. vacancyRow[j].attempts \in Nat
  BY DEF F!TypeOK, F!Rows
<1>7. F!BudgetHolds'
  BY <1>6 DEF F!BudgetHolds, F!ClaimableStates
<1>8. F!ClaimIsAlone'
  BY <1>2 DEF F!ClaimIsAlone, F!Holds, F!OwnsClaim
<1>9. F!SenderKnows'
  BY <1>2, <1>3, <1>4, <1>5 DEF F!SenderKnows, F!Holds
<1>10. F!OneCardPerJob'
  BY <1>3, <1>5 DEF F!OneCardPerJob, F!DecisionStates
<1>11. F!OperatorHolds'
  BY <1>4, <1>5 DEF F!OperatorHolds, F!Senders
<1>12. F!HeldForOperator'
  BY DEF F!HeldForOperator
<1> QED BY <1>7, <1>8, <1>9, <1>10, <1>11, <1>12

\* The one sender of a card sends it.
LEMMA FeedSends ==
  ASSUME F!ConstantsAreSane, F!TypeOK, FeedParts, NEW s \in F!Senders, F!Send(s)
  PROVE  FeedParts' /\ sends' \in [Jobs -> Seq(F!Sends)]
<1> USE DEF FeedParts
<1>1. sender[s].pc = "render" /\ sender[s].job \in Jobs
  BY DEF F!Send, F!TypeOK, F!Idle
<1>j. PICK j \in Jobs : j = sender[s].job
  BY <1>1
<1>n. Len(sends[j]) \in Nat
  BY DEF F!TypeOK
<1>m. PICK m \in Nat : m = Len(sends[j])
  BY <1>n
<1>2. F!Holds(s, j)
  BY <1>1, <1>j DEF F!Holds
<1>3. PICK answer \in {"SENT", "FAILED", "UNCERTAIN"}, there \in BOOLEAN :
        /\ answer = "SENT" => there
        /\ answer = "FAILED" => ~there
        /\ sends' = [sends EXCEPT ![j] = Append(@, [by |-> s, outcome |-> answer, arrived |-> there])]
        /\ sender' = [sender EXCEPT ![s] = [sender[s] EXCEPT !.pc = answer]]
        /\ UNCHANGED <<job, vacancyRow>>
  BY <1>j DEF F!Send, F!Becomes
<1> DEFINE e == [by |-> s, outcome |-> answer, arrived |-> there]
<1>4. /\ sends' \in [Jobs -> Seq(F!Sends)]
      /\ DOMAIN sends[j] = 1..m /\ DOMAIN sends'[j] = 1..(m + 1)
      /\ \A k \in DOMAIN sends[j] : sends'[j][k] = sends[j][k]
      /\ sends'[j][m + 1] = e
      /\ \A i \in Jobs \ {j} : sends'[i] = sends[i]
  <2>1. e \in F!Sends
    BY DEF F!Sends
  <2>2. sends' = [sends EXCEPT ![j] = Append(@, e)]
    BY <1>3
  <2> HIDE DEF e
  <2> QED BY <1>m, <2>1, <2>2, SendAdds
<1>5. /\ \A t \in F!Senders \ {s} : sender'[t] = sender[t]
      /\ sender'[s].pc = answer /\ sender'[s].job = j
  BY <1>1, <1>3, <1>j DEF F!TypeOK, F!Idle
<1>6. /\ F!MayBeThere(j)' \subseteq {m + 1} /\ (answer = "FAILED" => F!MayBeThere(j)' = {})
      /\ answer = "SENT" => F!Arrived(j)'
      /\ F!Arrived(j) => F!Arrived(j)'
  <2>1. F!MayBeThere(j) = {}
    BY <1>1, <1>2 DEF F!SenderKnows
  <2>2. \A k \in DOMAIN sends[j] : sends[j][k].outcome = "FAILED"
    BY <2>1 DEF F!MayBeThere, F!Refused
  <2>3. \A k \in DOMAIN sends'[j] : k = m + 1 \/ k \in DOMAIN sends[j]
    BY <1>4
  <2> QED BY <1>3, <1>4, <2>2, <2>3 DEF F!MayBeThere, F!Refused, F!Arrived
<1>7. \A i \in Jobs \ {j} : /\ F!MayBeThere(i)' = F!MayBeThere(i) /\ F!Arrived(i)' = F!Arrived(i)
                             /\ F!SentByOperator(i)' = F!SentByOperator(i)
  BY <1>4 DEF F!MayBeThere, F!Refused, F!Arrived, F!SentByOperator
<1>8. \A t \in F!Senders, i \in Jobs : F!Holds(t, i)' => F!Holds(t, i) /\ (i = j => t = s)
  BY <1>1, <1>2, <1>5 DEF F!Holds, F!ClaimIsAlone
<1>9. F!BudgetHolds'
  BY <1>3 DEF F!BudgetHolds
<1>10. F!ClaimIsAlone'
  BY <1>3, <1>8 DEF F!ClaimIsAlone, F!OwnsClaim
<1>11. F!SenderKnows'
  BY <1>5, <1>6, <1>7, <1>8 DEF F!SenderKnows, F!Holds
<1>12. F!OneCardPerJob'
  <2>1. vacancyRow[j].state \in {"SENDING"} \cup F!DecidableStates
    BY <1>1, <1>2 DEF F!ClaimIsAlone, F!OwnsClaim
  <2> QED BY <1>3, <1>6, <1>7, <2>1 DEF F!OneCardPerJob
<1>13. F!OperatorHolds'
  <2>1. ASSUME F!SentByOperator(j)'
        PROVE  \/ vacancyRow[j].state \in F!DecidableStates
               \/ vacancyRow[j].state = "SENDING" /\ vacancyRow[j].claim \in Manuals
    <3>1. PICK k \in DOMAIN sends'[j] : sends'[j][k].by \in Manuals
      BY <2>1 DEF F!SentByOperator
    <3>2. s \in Manuals
      BY <1>1, <1>2, <1>4, <3>1 DEF F!SenderKnows, F!SentByOperator, F!Senders
    <3> QED BY <1>1, <1>2, <3>2 DEF F!ClaimIsAlone, F!OwnsClaim
  <2> QED BY <1>3, <1>7, <2>1 DEF F!OperatorHolds
<1>14. F!HeldForOperator'
  <2>1. ASSUME NEW k \in DOMAIN sends'[j], NEW l \in DOMAIN sends'[j], k < l, sends'[j][k].by \in Manuals
        PROVE  sends'[j][l].by \in Manuals
    <3>1. k \in DOMAIN sends[j] /\ sends[j][k].by \in Manuals
      BY <1>4, <2>1
    <3>2. s \in Manuals
      BY <1>1, <1>2, <3>1 DEF F!SenderKnows, F!SentByOperator, F!Senders
    <3>3. l = m + 1 \/ l \in DOMAIN sends[j]
      BY <1>4
    <3> QED BY <1>1, <1>4, <2>1, <3>1, <3>2, <3>3 DEF F!HeldForOperator
  <2> QED BY <1>4, <2>1 DEF F!HeldForOperator
<1> QED BY <1>4, <1>9, <1>10, <1>11, <1>12, <1>13, <1>14

\* A sender writes what became of its card, if the claim is still its own.
LEMMA FeedSettles ==
  ASSUME F!ConstantsAreSane, F!TypeOK, FeedParts, NEW s \in F!Senders, NEW j \in Jobs,
         F!Holds(s, j), LetsGo(s), UNCHANGED sends,
         \A i \in Jobs \ {j} : vacancyRow'[i] = vacancyRow[i],
         \/ ~F!OwnsClaim(s, j) /\ vacancyRow'[j] = vacancyRow[j]
         \/ /\ F!OwnsClaim(s, j)
            /\ \/ vacancyRow'[j].state = "DELIVERY_UNCERTAIN"
               \/ vacancyRow'[j].state = "TELEGRAM_SENT" /\ sender[s].pc = "SENT"
               \/ /\ sender[s].pc \in {"render", "FAILED"}
                  /\ \/ vacancyRow'[j].state = "DELIVERY_FAILED"
                     \/ vacancyRow'[j].attempts < MaxAttempts
                        /\ vacancyRow'[j].state = IF s \in Manuals THEN "DISCOVERED" ELSE "QUEUED_FOR_REVIEW"
                  /\ s \in Manuals => vacancyRow'[j].held
  PROVE  FeedParts'
<1> USE DEF FeedParts, F!DecidableStates, F!DecisionStates, F!ClaimableStates
<1>1. /\ F!OwnsClaim(s, j) \/ vacancyRow[j].state \in F!DecidableStates
      /\ \A t \in F!Senders : F!Holds(t, j) => t = s
      /\ sender[s].pc \in {"render", "FAILED"} => F!MayBeThere(j) = {}
      /\ sender[s].pc = "SENT" => F!Arrived(j)
  BY DEF F!ClaimIsAlone, F!SenderKnows
<1>2. \A t \in F!Senders, i \in Jobs :
          F!Holds(t, i)' => F!Holds(t, i) /\ t # s /\ i # j /\ sender'[t] = sender[t]
  BY <1>1 DEF LetsGo, F!Holds
<1>3. \A i \in Jobs : F!MayBeThere(i)' = F!MayBeThere(i) /\ F!Arrived(i)' = F!Arrived(i)
                       /\ F!SentByOperator(i)' = F!SentByOperator(i)
  BY DEF F!MayBeThere, F!Refused, F!Arrived, F!SentByOperator
<1>4. F!SentByOperator(j) /\ F!OwnsClaim(s, j) => s \in Manuals
  BY DEF F!OperatorHolds, F!OwnsClaim
<1>5. F!BudgetHolds'
  BY DEF F!BudgetHolds
<1>6. F!ClaimIsAlone'
  BY <1>2 DEF F!ClaimIsAlone, F!OwnsClaim
<1>7. F!SenderKnows'
  BY <1>2, <1>3 DEF F!SenderKnows
<1>8. F!OneCardPerJob'
  BY <1>1, <1>3 DEF F!OneCardPerJob
<1>9. F!OperatorHolds'
  BY <1>3, <1>4 DEF F!OperatorHolds
<1>10. F!HeldForOperator'
  BY DEF F!HeldForOperator
<1> QED BY <1>5, <1>6, <1>7, <1>8, <1>9, <1>10

SenderStates ==
    {F!Idle} \cup [pc : F!Steps, todo : SUBSET Jobs, job : Jobs]
             \cup [pc : F!Steps, todo : SUBSET Jobs, job : Jobs, from : F!ClaimableStates]

\* A sender that is busy has a job, and goes on with the same record.
LEMMA FeedSender ==
  ASSUME F!TypeOK, NEW s \in F!Senders, sender[s].pc # "idle"
  PROVE  /\ sender[s].job \in Jobs /\ sender[s].todo \subseteq Jobs /\ sender[s].pc \in F!Steps
         /\ \A step \in F!Steps : LET new == [sender[s] EXCEPT !.pc = step] IN
                /\ new \in SenderStates
                /\ new.pc = step /\ new.job = sender[s].job /\ new.todo = sender[s].todo
         /\ \A j \in sender[s].todo : LET new == [sender[s] EXCEPT !.todo = @ \ {j}, !.job = j] IN
                /\ new \in SenderStates /\ new.pc = sender[s].pc
                /\ [new EXCEPT !.pc = "claim"] \in SenderStates /\ [new EXCEPT !.pc = "claim"].pc = "claim"
<1> DEFINE x == sender[s]
           Plain == [pc : F!Steps, todo : SUBSET Jobs, job : Jobs]
           From == [pc : F!Steps, todo : SUBSET Jobs, job : Jobs, from : F!ClaimableStates]
<1>1. x \in Plain \/ x \in From
  BY DEF F!TypeOK, F!Idle
<1>2. "claim" \in F!Steps
  BY DEF F!Steps
<1> HIDE DEF x
<1>3. CASE x \in Plain
  <2>1. \A step \in F!Steps : [x EXCEPT !.pc = step] \in Plain
    BY <1>3
  <2>2. \A j \in x.todo : [x EXCEPT !.todo = @ \ {j}, !.job = j] \in Plain
    BY <1>3
  <2>3. \A j \in x.todo : [[x EXCEPT !.todo = @ \ {j}, !.job = j] EXCEPT !.pc = "claim"] \in Plain
    BY <1>2, <2>2, Zenon
  <2> QED BY <1>3, <2>1, <2>2, <2>3, Zenon DEF SenderStates, x
<1>4. CASE x \in From
  <2>1. \A step \in F!Steps : [x EXCEPT !.pc = step] \in From
    BY <1>4
  <2>2. \A j \in x.todo : [x EXCEPT !.todo = @ \ {j}, !.job = j] \in From
    BY <1>4
  <2>3. \A j \in x.todo : [[x EXCEPT !.todo = @ \ {j}, !.job = j] EXCEPT !.pc = "claim"] \in From
    BY <1>2, <2>2, Zenon
  <2> QED BY <1>4, <2>1, <2>2, <2>3, Zenon DEF SenderStates, x
<1> QED BY <1>1, <1>3, <1>4, Zenon

\* One sender becomes the new record, the others stay.
LEMMA FeedBecomes ==
  ASSUME F!TypeOK, NEW s \in F!Senders, NEW new \in SenderStates,
         s \in Manuals /\ new.pc = "claim" => new.from \in F!ClaimableStates,
         sender' = [sender EXCEPT ![s] = new]
  PROVE  /\ sender' \in [F!Senders -> SenderStates]
         /\ \A m \in Manuals : sender'[m].pc = "claim" => sender'[m].from \in F!ClaimableStates
         /\ \A t \in F!Senders \ {s} : sender'[t] = sender[t]
         /\ sender'[s] = new
  BY DEF F!TypeOK, SenderStates, F!Senders

\* What a row becomes when its sender lets go of it.
LEMMA FeedRows ==
  ASSUME F!ConstantsAreSane, F!TypeOK, F!BudgetHolds, NEW s \in F!Senders, NEW j \in Jobs,
         F!OwnsClaim(s, j)
  PROVE  LET r == vacancyRow[j] IN
         /\ F!Released(r, s) \in F!Rows /\ F!SendFailed(r, s) \in F!Rows
         /\ \A answer \in {"SENT", "FAILED", "UNCERTAIN"} : F!Resolved(r, s, answer) \in F!Rows
         /\ F!Released(r, s).attempts < MaxAttempts
         /\ F!Released(r, s).state = IF s \in Manuals THEN "DISCOVERED" ELSE "QUEUED_FOR_REVIEW"
         /\ s \in Manuals => F!Released(r, s).held /\ F!SendFailed(r, s).held
         /\ \/ F!SendFailed(r, s).state = "DELIVERY_FAILED"
            \/ F!SendFailed(r, s).attempts < MaxAttempts
               /\ F!SendFailed(r, s).state = IF s \in Manuals THEN "DISCOVERED" ELSE "QUEUED_FOR_REVIEW"
         /\ F!Resolved(r, s, "SENT").state = "TELEGRAM_SENT"
         /\ F!Resolved(r, s, "FAILED") = F!SendFailed(r, s)
         /\ F!Resolved(r, s, "UNCERTAIN").state = "DELIVERY_UNCERTAIN"
<1> DEFINE r == vacancyRow[j]
<1>1. r \in F!Rows /\ r.state = "SENDING" /\ r.attempts \in 1..MaxAttempts
  BY DEF F!TypeOK, F!Rows, F!BudgetHolds, F!OwnsClaim
<1> HIDE DEF r
<1> USE DEF F!ConstantsAreSane, F!Rows, F!Free, F!Retry, F!DecidableStates, F!DecisionStates, F!ClaimableStates
<1>2. /\ F!Retry(r, s) \in F!Rows /\ F!Retry(r, s).attempts = r.attempts
      /\ F!Retry(r, s).state = IF s \in Manuals THEN "DISCOVERED" ELSE "QUEUED_FOR_REVIEW"
      /\ s \in Manuals => F!Retry(r, s).held
  BY <1>1
<1>3. /\ F!Released(r, s) \in F!Rows /\ F!Released(r, s).attempts = r.attempts - 1
      /\ F!Released(r, s).state = F!Retry(r, s).state /\ F!Released(r, s).held = F!Retry(r, s).held
  <2> HIDE DEF F!Retry
  <2> QED BY <1>1, <1>2 DEF F!Released
<1>4. /\ F!SendFailed(r, s) \in F!Rows /\ F!SendFailed(r, s).held = F!Retry(r, s).held
      /\ F!SendFailed(r, s).attempts = r.attempts
      /\ F!SendFailed(r, s).state = IF r.attempts >= MaxAttempts THEN "DELIVERY_FAILED" ELSE F!Retry(r, s).state
  <2> HIDE DEF F!Retry
  <2> QED BY <1>1, <1>2 DEF F!SendFailed
<1>5. /\ F!Resolved(r, s, "SENT") \in F!Rows /\ F!Resolved(r, s, "SENT").state = "TELEGRAM_SENT"
      /\ F!Resolved(r, s, "FAILED") = F!SendFailed(r, s)
      /\ F!Resolved(r, s, "UNCERTAIN") \in F!Rows
      /\ F!Resolved(r, s, "UNCERTAIN").state = "DELIVERY_UNCERTAIN"
  BY <1>1 DEF F!Resolved
<1> QED BY <1>1, <1>2, <1>3, <1>4, <1>5 DEF r

\* Jobs, the collector and the operator's decisions leave the senders alone.
LEMMA FeedAround ==
  ASSUME F!TypeOK, FeedParts, NEW j \in Jobs,
         F!Rescore(j) \/ F!Collect(j) \/ F!ClaimAges(j) \/ F!RecordDecision(j)
  PROVE  F!TypeOK' /\ FeedParts'
<1> USE DEF F!Rows, F!DecidableStates, F!DecisionStates, F!ClaimableStates
<1>0. vacancyRow \in [Jobs -> F!Rows]
  BY DEF F!TypeOK
<1>1. F!TypeOK'
  <2>1. vacancyRow' \in [Jobs -> F!Rows]
    <3>1. CASE F!Rescore(j)
      BY <1>0, <3>1 DEF F!Rescore
    <3>2. CASE F!Collect(j)
      BY <1>0, <3>2 DEF F!Collect, F!EnsureReview
    <3>3. CASE F!ClaimAges(j)
      BY <1>0, <3>3 DEF F!ClaimAges
    <3>4. CASE F!RecordDecision(j)
      BY <1>0, <3>4 DEF F!RecordDecision
    <3> QED BY <3>1, <3>2, <3>3, <3>4
  <2>2. job' \in [Jobs -> {"APPLY", "MAYBE", "GONE"}]
    BY DEF F!TypeOK, F!Rescore, F!Collect, F!ClaimAges, F!RecordDecision
  <2> QED BY <2>1, <2>2 DEF F!TypeOK, F!Rescore, F!Collect, F!ClaimAges, F!RecordDecision
<1>2. \A i \in Jobs : RowMoves(i)
  BY <1>0 DEF RowMoves, F!Rescore, F!Collect, F!ClaimAges, F!RecordDecision, F!EnsureReview
<1>3. UNCHANGED sender /\ UNCHANGED sends
  BY DEF F!Rescore, F!Collect, F!ClaimAges, F!RecordDecision
<1> QED BY <1>1, <1>2, <1>3, FeedQuiet

\* The steps of a sender that holds no card before or after.
LEMMA FeedLooks ==
  ASSUME F!ConstantsAreSane, F!TypeOK, FeedParts, NEW s \in F!Senders,
         \/ F!Dies(s)
         \/ s \in Sweeps /\ (F!Sweep(s) \/ F!Check(s) \/ F!SweepEnds(s))
         \/ s \in Manuals /\ \E j \in Jobs : F!Review(s, j)
  PROVE  F!TypeOK' /\ FeedParts'
<1> USE DEF F!ClaimableStates
<1>0. F!Idle \in SenderStates /\ F!Idle.pc = "idle" /\ vacancyRow \in [Jobs -> F!Rows]
  BY DEF SenderStates, F!Idle, F!TypeOK
<1>1. ASSUME F!Dies(s) \/ F!SweepEnds(s) PROVE F!TypeOK' /\ FeedParts'
  <2>1. sender' = [sender EXCEPT ![s] = F!Idle] /\ UNCHANGED <<job, vacancyRow, sends>>
    BY <1>1 DEF F!Dies, F!SweepEnds, F!Ends, F!Becomes
  <2>2. LetsGo(s) /\ F!TypeOK'
    BY <1>0, <2>1, FeedBecomes DEF LetsGo, F!TypeOK, SenderStates
  <2> QED BY <2>1, <2>2, FeedQuiet DEF RowMoves
<1>2. ASSUME s \in Sweeps, F!Sweep(s) PROVE F!TypeOK' /\ FeedParts'
  <2> DEFINE queued == {j \in Jobs : vacancyRow[j].state = "QUEUED_FOR_REVIEW"}
             first == CHOOSE j \in queued : TRUE
             new == [pc |-> "next", todo |-> queued, job |-> first]
  <2>1. /\ vacancyRow' = F!ReconcileStale /\ UNCHANGED <<job, sends>>
        /\ IF queued = {} THEN UNCHANGED sender ELSE sender' = [sender EXCEPT ![s] = new]
    BY <1>2, Zenon DEF F!Sweep, F!Becomes
  <2>2. \A j \in Jobs : LET there == [F!Free(vacancyRow[j], "DELIVERY_UNCERTAIN") EXCEPT !.held = FALSE] IN
                        there \in F!Rows /\ there.state = "DELIVERY_UNCERTAIN"
    BY <1>0 DEF F!Free, F!Rows, F!DecidableStates
  <2>3. vacancyRow' \in [Jobs -> F!Rows] /\ \A j \in Jobs : RowMoves(j)
    <3>1. vacancyRow' = [j \in Jobs |-> IF vacancyRow[j].state = "SENDING" /\ vacancyRow[j].old
                 THEN [F!Free(vacancyRow[j], "DELIVERY_UNCERTAIN") EXCEPT !.held = FALSE] ELSE vacancyRow[j]]
      BY <2>1 DEF F!ReconcileStale
    <3> QED BY <1>0, <2>2, <3>1 DEF RowMoves
  <2>4. queued # {} => new \in SenderStates /\ new.pc = "next"
    BY DEF SenderStates, F!Steps
  <2> HIDE DEF new, queued
  <2>5. (LetsGo(s) \/ UNCHANGED sender) /\ F!TypeOK'
    BY <2>1, <2>3, <2>4, FeedBecomes DEF LetsGo, F!TypeOK, SenderStates
  <2> QED BY <2>1, <2>3, <2>5, FeedQuiet
<1>3. ASSUME s \in Sweeps, F!Check(s) PROVE F!TypeOK' /\ FeedParts'
  <2>1. sender[s].pc = "next"
    BY <1>3, Zenon DEF F!Check
  <2>2. PICK j \in sender[s].todo, new \in SenderStates :
          /\ new.pc \in {"next", "claim"} /\ sender' = [sender EXCEPT ![s] = new]
          /\ \/ vacancyRow' = vacancyRow
             \/ /\ vacancyRow[j].state = "QUEUED_FOR_REVIEW"
                /\ vacancyRow' = [vacancyRow EXCEPT ![j].state = "DISCOVERED"]
          /\ UNCHANGED <<job, sends>>
    <3>1. PICK j \in sender[s].todo :
            LET rest == [sender[s] EXCEPT !.todo = @ \ {j}, !.job = j] IN
            /\ \/ sender' = [sender EXCEPT ![s] = rest]
                  /\ vacancyRow' = IF vacancyRow[j].state = "QUEUED_FOR_REVIEW"
                                   THEN [vacancyRow EXCEPT ![j].state = "DISCOVERED"] ELSE vacancyRow
               \/ sender' = [sender EXCEPT ![s] = [rest EXCEPT !.pc = "claim"]] /\ UNCHANGED vacancyRow
            /\ UNCHANGED <<job, sends>>
      BY <1>3, Zenon DEF F!Check, F!Becomes
    <3> DEFINE rest == [sender[s] EXCEPT !.todo = @ \ {j}, !.job = j]
    <3>2. rest \in SenderStates /\ rest.pc = "next"
      BY <2>1, FeedSender, Zenon
    <3>3. [rest EXCEPT !.pc = "claim"] \in SenderStates /\ [rest EXCEPT !.pc = "claim"].pc = "claim"
      BY <2>1, FeedSender, Zenon
    <3> QED BY <3>1, <3>2, <3>3, Zenon
  <2>3. j \in Jobs
    BY <2>1, <2>2, FeedSender, Zenon
  <2>4. vacancyRow' \in [Jobs -> F!Rows] /\ \A i \in Jobs : RowMoves(i)
    BY <1>0, <2>2, <2>3 DEF F!Rows, RowMoves
  <2>5. LetsGo(s) /\ F!TypeOK'
    BY <1>3, <2>2, <2>4, FeedBecomes DEF LetsGo, F!TypeOK, SenderStates, F!ConstantsAreSane
  <2> QED BY <2>2, <2>4, <2>5, FeedQuiet
<1>4. ASSUME s \in Manuals, NEW j \in Jobs, F!Review(s, j) PROVE F!TypeOK' /\ FeedParts'
  <2>1. vacancyRow' = F!EnsureReview(j, FALSE) /\ UNCHANGED <<job, sends>>
    BY <1>4 DEF F!Review
  <2>2. vacancyRow' \in [Jobs -> F!Rows] /\ \A i \in Jobs : RowMoves(i)
    BY <1>0, <2>1 DEF F!Rows, RowMoves, F!EnsureReview
  <2> DEFINE new == [pc |-> "claim", todo |-> {}, job |-> j, from |-> vacancyRow'[j].state]
  <2>3. UNCHANGED sender \/ (vacancyRow'[j].state \in F!ClaimableStates /\ sender' = [sender EXCEPT ![s] = new])
    BY <1>4 DEF F!Review, F!Becomes
  <2>4. vacancyRow'[j].state \in F!ClaimableStates =>
          new \in SenderStates /\ new.pc = "claim" /\ new.from \in F!ClaimableStates
    BY DEF SenderStates, F!Steps
  <2> HIDE DEF new
  <2>5. (LetsGo(s) \/ UNCHANGED sender) /\ F!TypeOK'
    BY <2>1, <2>2, <2>3, <2>4, FeedBecomes DEF LetsGo, F!TypeOK, SenderStates
  <2> QED BY <2>1, <2>2, <2>5, FeedQuiet
<1> QED BY <1>1, <1>2, <1>3, <1>4

\* The steps of a sender that claims a card, sends it, or lets go of it.
LEMMA FeedSenders ==
  ASSUME F!ConstantsAreSane, F!TypeOK, FeedParts, NEW s \in F!Senders,
         F!Claim(s) \/ F!Send(s) \/ F!Unrenderable(s) \/ F!Resolve(s) \/ (s \in Sweeps /\ F!LeaseLost(s))
  PROVE  F!TypeOK' /\ FeedParts'
<1> USE DEF F!ClaimableStates
<1>0. /\ F!Idle \in SenderStates /\ F!Idle.pc = "idle" /\ sender[s].pc # "idle"
      /\ vacancyRow \in [Jobs -> F!Rows]
  BY DEF SenderStates, F!Idle, F!Claim, F!Send, F!Unrenderable, F!Resolve, F!LeaseLost, F!TypeOK
<1>1. PICK j \in Jobs : j = sender[s].job
  BY <1>0, FeedSender, Zenon
<1>2. \A step \in F!Steps : [sender[s] EXCEPT !.pc = step] \in SenderStates
                          /\ [sender[s] EXCEPT !.pc = step].pc = step /\ [sender[s] EXCEPT !.pc = step].job = j
  BY <1>0, <1>1, FeedSender, Zenon
<1>3. F!NextOf(s) \in SenderStates /\ F!NextOf(s).pc \in {"next", "idle"}
  BY <1>0, <1>2 DEF F!NextOf, F!Steps
<1>4. CASE F!Claim(s)
  <2> DEFINE from == IF s \in Sweeps THEN "QUEUED_FOR_REVIEW" ELSE sender[s].from
             new == [sender[s] EXCEPT !.pc = "render"]
  <2>1. sender[s].pc = "claim" /\ F!ClaimForSending(s, j, from) /\ UNCHANGED <<job, sends>>
    BY <1>1, <1>4 DEF F!Claim
  <2>2. from \in F!ClaimableStates
    BY <2>1 DEF F!TypeOK, F!Senders
  <2>3. new \in SenderStates /\ new.pc = "render" /\ new.job = j
    BY <1>1, <1>2 DEF F!Steps
  <2>4. CASE vacancyRow[j].state = from
    <3>1. /\ vacancyRow' = [vacancyRow EXCEPT ![j].state = "SENDING", ![j].claim = s, ![j].old = FALSE,
                               ![j].attempts = @ + 1]
          /\ sender' = [sender EXCEPT ![s] = new]
      <4>1. new = [sender[s] EXCEPT !.pc = "render", !.job = j]
        BY <1>0, <1>1 DEF F!TypeOK, F!Idle
      <4> QED BY <2>1, <2>4, <4>1 DEF F!ClaimForSending, F!Becomes
    <3>2. /\ vacancyRow'[j].state = "SENDING" /\ vacancyRow'[j].claim = s
          /\ vacancyRow'[j].attempts = vacancyRow[j].attempts + 1
          /\ \A i \in Jobs \ {j} : vacancyRow'[i] = vacancyRow[i]
      BY <1>0, <3>1 DEF F!Rows
    <3>3. vacancyRow[j].attempts + 1 \in 0..MaxAttempts
      BY <1>0, <2>2, <2>4 DEF FeedParts, F!BudgetHolds, F!Rows, F!ConstantsAreSane
    <3>4. vacancyRow' \in [Jobs -> F!Rows]
      BY <1>0, <3>1, <3>3 DEF F!Rows
    <3> HIDE DEF new
    <3>5. F!TypeOK'
      BY <2>1, <2>3, <3>1, <3>4, FeedBecomes DEF F!TypeOK, SenderStates
    <3>6. (\A t \in F!Senders \ {s} : sender'[t] = sender[t])
          /\ sender'[s].pc = "render" /\ sender'[s].job = j
      BY <2>3, <3>1, FeedBecomes
    <3> QED BY <2>1, <2>2, <2>4, <3>2, <3>5, <3>6, FeedClaims
  <2>5. CASE vacancyRow[j].state # from
    <3>1. sender' = [sender EXCEPT ![s] = F!NextOf(s)] /\ UNCHANGED vacancyRow
      BY <2>1, <2>5 DEF F!ClaimForSending, F!Becomes
    <3>2. LetsGo(s) /\ F!TypeOK'
      BY <1>3, <2>1, <3>1, FeedBecomes DEF LetsGo, F!TypeOK, SenderStates
    <3> QED BY <2>1, <3>1, <3>2, FeedQuiet DEF RowMoves
  <2> QED BY <2>4, <2>5
<1>5. CASE F!Send(s)
  <2>1. PICK answer \in {"SENT", "FAILED", "UNCERTAIN"} :
          sender' = [sender EXCEPT ![s] = [sender[s] EXCEPT !.pc = answer]] /\ UNCHANGED <<job, vacancyRow>>
    BY <1>5 DEF F!Send, F!Becomes
  <2> DEFINE new == [sender[s] EXCEPT !.pc = answer]
  <2>2. new \in SenderStates /\ new.pc # "claim"
    BY <1>2 DEF F!Steps
  <2> HIDE DEF new
  <2>3. sender' = [sender EXCEPT ![s] = new]
    BY <2>1 DEF new
  <2>4. FeedParts' /\ sends' \in [Jobs -> Seq(F!Sends)]
    BY <1>5, FeedSends
  <2>5. /\ sender' \in [F!Senders -> SenderStates]
        /\ \A m \in Manuals : sender'[m].pc = "claim" => sender'[m].from \in F!ClaimableStates
    BY <2>2, <2>3, FeedBecomes
  <2> QED BY <2>1, <2>4, <2>5 DEF F!TypeOK, SenderStates
<1>6. ASSUME sender' = [sender EXCEPT ![s] = F!Idle] \/ sender' = [sender EXCEPT ![s] = F!NextOf(s)],
             UNCHANGED <<job, sends>>,
             vacancyRow' \in [Jobs -> F!Rows]
      PROVE  F!TypeOK' /\ LetsGo(s)
  BY <1>0, <1>3, <1>6, FeedBecomes DEF LetsGo, F!TypeOK, SenderStates
<1>7. CASE F!Unrenderable(s) \/ (s \in Sweeps /\ F!LeaseLost(s))
  <2>1. PICK settled \in {F!Released(vacancyRow[j], s), F!SendFailed(vacancyRow[j], s)},
             new \in {F!Idle, F!NextOf(s)} :
          sender[s].pc = "render" /\ F!Settle(s, j, settled)
            /\ sender' = [sender EXCEPT ![s] = new] /\ UNCHANGED <<job, sends>>
    BY <1>1, <1>7 DEF F!Unrenderable, F!LeaseLost, F!Becomes, F!Ends
  <2>2. F!OwnsClaim(s, j) =>
          /\ settled \in F!Rows
          /\ \/ settled.state = "DELIVERY_FAILED"
             \/ settled.attempts < MaxAttempts
                /\ settled.state = IF s \in Manuals THEN "DISCOVERED" ELSE "QUEUED_FOR_REVIEW"
          /\ s \in Manuals => settled.held
    BY <2>1, FeedRows DEF FeedParts
  <2>3. F!Holds(s, j)
    BY <1>1, <2>1 DEF F!Holds
  <2>4. /\ vacancyRow' \in [Jobs -> F!Rows]
        /\ \A i \in Jobs \ {j} : vacancyRow'[i] = vacancyRow[i]
        /\ vacancyRow'[j] = IF F!OwnsClaim(s, j) THEN settled ELSE vacancyRow[j]
    BY <1>0, <2>1, <2>2 DEF F!Settle
  <2>5. F!TypeOK' /\ LetsGo(s)
    BY <1>6, <2>1, <2>4
  <2>6. FeedParts'
    BY <2>1, <2>2, <2>3, <2>4, <2>5, FeedSettles
  <2> QED BY <2>5, <2>6
<1>8. CASE F!Resolve(s)
  <2> DEFINE settled == F!Resolved(vacancyRow[j], s, sender[s].pc)
  <2>1. sender[s].pc \in {"SENT", "FAILED", "UNCERTAIN"} /\ F!Settle(s, j, settled)
        /\ sender' = [sender EXCEPT ![s] = F!NextOf(s)] /\ UNCHANGED <<job, sends>>
    BY <1>1, <1>8 DEF F!Resolve, F!Becomes
  <2>2. F!OwnsClaim(s, j) =>
          /\ settled \in F!Rows
          /\ \/ settled.state = "DELIVERY_UNCERTAIN"
             \/ settled.state = "TELEGRAM_SENT" /\ sender[s].pc = "SENT"
             \/ /\ sender[s].pc = "FAILED"
                /\ \/ settled.state = "DELIVERY_FAILED"
                   \/ settled.attempts < MaxAttempts
                      /\ settled.state = IF s \in Manuals THEN "DISCOVERED" ELSE "QUEUED_FOR_REVIEW"
                /\ s \in Manuals => settled.held
    BY <2>1, FeedRows DEF FeedParts
  <2>3. F!Holds(s, j)
    BY <1>1, <2>1 DEF F!Holds
  <2> HIDE DEF settled
  <2>4. /\ vacancyRow' \in [Jobs -> F!Rows]
        /\ \A i \in Jobs \ {j} : vacancyRow'[i] = vacancyRow[i]
        /\ vacancyRow'[j] = IF F!OwnsClaim(s, j) THEN settled ELSE vacancyRow[j]
    BY <1>0, <2>1, <2>2 DEF F!Settle
  <2>5. F!TypeOK' /\ LetsGo(s)
    BY <1>6, <2>1, <2>4
  <2>6. FeedParts'
    BY <2>1, <2>2, <2>3, <2>4, <2>5, FeedSettles
  <2> QED BY <2>5, <2>6
<1> QED BY <1>4, <1>5, <1>7, <1>8

\* The invariant is inductive.
LEMMA FeedInductive ==
  ASSUME F!ConstantsAreSane
  PROVE  /\ F!Init => F!IInv
         /\ F!IInv /\ [F!Next]_(F!vars) => F!IInv'
<1>1. F!Init => F!IInv
  <2> SUFFICES ASSUME F!Init PROVE F!IInv
    OBVIOUS
  <2>1. F!TypeOK
    BY DEF F!Init, F!TypeOK, F!Rows, F!Senders, F!Idle, F!ConstantsAreSane
  <2>2. \A j \in Jobs : F!MayBeThere(j) = {} /\ ~F!SentByOperator(j)
    BY DEF F!Init, F!MayBeThere, F!SentByOperator
  <2> QED
    BY <2>1, <2>2 DEF F!Init, F!IInv, F!BudgetHolds, F!ClaimIsAlone, F!SenderKnows, F!Holds, F!OneCardPerJob,
       F!OperatorHolds, F!HeldForOperator, F!Idle, F!ConstantsAreSane, F!DecisionStates
<1>2. F!IInv /\ [F!Next]_(F!vars) => F!IInv'
  <2> SUFFICES ASSUME F!IInv, [F!Next]_(F!vars) PROVE F!IInv'
    OBVIOUS
  <2>0. F!TypeOK /\ FeedParts
    BY DEF F!IInv, FeedParts
  <2>1. ASSUME F!Next PROVE F!TypeOK' /\ FeedParts'
    <3>1. CASE \E j \in Jobs : F!Rescore(j) \/ F!Collect(j) \/ F!ClaimAges(j) \/ F!RecordDecision(j)
      BY <2>0, <3>1, FeedAround
    <3>2. CASE \E s \in Sweeps : F!Sweep(s) \/ F!Check(s) \/ F!SweepEnds(s) \/ F!LeaseLost(s)
      BY <2>0, <3>2, FeedLooks, FeedSenders DEF F!Senders
    <3>3. CASE \E m \in Manuals, j \in Jobs : F!Review(m, j)
      BY <2>0, <3>3, FeedLooks DEF F!Senders
    <3>4. CASE \E s \in F!Senders : F!Claim(s) \/ F!Unrenderable(s) \/ F!Send(s) \/ F!Resolve(s) \/ F!Dies(s)
      BY <2>0, <3>4, FeedLooks, FeedSenders
    <3> QED BY <2>1, <3>1, <3>2, <3>3, <3>4 DEF F!Next
  <2>2. CASE UNCHANGED F!vars
    <3>1. UNCHANGED sender /\ UNCHANGED sends /\ UNCHANGED job /\ UNCHANGED vacancyRow
      BY <2>2 DEF F!vars
    <3>2. F!TypeOK'
      BY <2>0, <3>1 DEF F!TypeOK
    <3>3. FeedParts'
      BY <2>0, <3>1, FeedQuiet DEF RowMoves
    <3> QED BY <3>2, <3>3 DEF F!IInv, FeedParts
  <2> QED BY <2>1, <2>2 DEF F!IInv, FeedParts
<1> QED BY <1>1, <1>2

\* The claims of the cards of vacancies, and what their rows say.
THEOREM FeedInvariance == ASSUME F!ConstantsAreSane PROVE F!Spec => []F!IInv
  BY FeedInductive, PTL DEF F!Spec

\* At most one card per vacancy is in the chat, its row tells the truth of it, and
\* what the operator sent no sweep sends again.
THEOREM FeedSound == ASSUME F!ConstantsAreSane PROVE F!Spec => []F!FeedIsSound
<1>1. F!IInv => F!FeedIsSound
  BY DEF F!IInv, F!TypeOK, F!FeedIsSound
<1> QED BY <1>1, FeedInvariance, PTL

-----------------------------------------------------------------------------
(* Packages: the row, the letters and the messages                         *)

\* Of the handlers, p at most goes on, and it holds neither claim nor message.
PressLeaves(p) ==
    /\ \A q \in Presses \ {p} : press'[q] = press[q]
    /\ press'[p].pc \notin {"prepare", "publish", "send", "resolve"}

\* A claim may be given up, and nothing else happens to the entry.
RowRests ==
    /\ prep'.gen = prep.gen /\ prep'.package = prep.package
    /\ prep'.inputs = prep.inputs /\ prep'.attempts = prep.attempts
    /\ \/ prep'.state = prep.state /\ prep'.owner = prep.owner
       \/ prep.state = "PREPARING" /\ prep'.state = "FAILED"
    /\ \/ prep'.preview = prep.preview
       \/ prep.preview = "SENDING" /\ prep'.preview = "UNCERTAIN"

PackageParts ==
    /\ P!LedgerIsConsistent /\ P!PreviewTellsTheTruth
    /\ P!GenerationsAreOrdered /\ P!ClaimIsForInputs /\ P!MessagesAreCounted

\* A step that sends nothing and publishes nothing keeps the invariant's parts.
LEMMA PackageQuiet ==
  ASSUME PackageParts, P!TypeOK', NEW p, PressLeaves(p) \/ UNCHANGED press, RowRests,
         UNCHANGED <<letters, published, shown>>
  PROVE  PackageParts'
<1> USE DEF PackageParts, RowRests, PressLeaves
<1>1. P!LedgerIsConsistent'
  BY DEF P!LedgerIsConsistent
<1>2. P!PreviewTellsTheTruth'
  BY DEF P!PreviewTellsTheTruth
<1>3. P!GenerationsAreOrdered'
  BY DEF P!GenerationsAreOrdered
<1>4. P!ClaimIsForInputs'
  BY DEF P!ClaimIsForInputs, P!OwnsPreparation
<1>5. P!MessagesAreCounted'
  BY DEF P!MessagesAreCounted
<1> QED BY <1>1, <1>2, <1>3, <1>4, <1>5

\* One handler becomes the new record, the others stay.
LEMMA PressBecomes ==
  ASSUME P!PressIsTyped, NEW p \in Presses, NEW new, press' = [press EXCEPT ![p] = new]
  PROVE  /\ press'[p] = new /\ \A q \in Presses \ {p} : press'[q] = press[q]
         /\ press' = [q \in Presses |-> press'[q]]
<1> DEFINE old == press
<1>1. old = [q \in Presses |-> old[q]]
  BY DEF P!PressIsTyped
<1> QED BY <1>1

\* A step of p whose new record is typed keeps the types of all of them.
LEMMA PressTypes ==
  ASSUME P!PressIsTyped, P!TypeOK, NEW p \in Presses, NEW new, press' = [press EXCEPT ![p] = new],
         new.pc \in {"idle", "read", "claim", "prepare", "publish", "offer", "page", "send", "resolve"},
         new.pc \in {"read", "claim", "prepare", "publish"} => new.inputs \in Inputs,
         new.pc \in {"prepare", "publish", "send", "resolve"} => new.gen \in P!Generations,
         new.pc = "send" => new.kind \in {"summary", "page"},
         new.pc = "resolve" => new.outcome \in {"SENT", "FAILED", "UNCERTAIN"}
  PROVE  /\ P!PressIsTyped'
         /\ \A q \in Presses :
               press'[q].pc \in {"idle", "read", "claim", "prepare", "publish", "offer", "page",
                                 "send", "resolve"}
<1>1. /\ press'[p] = new /\ \A q \in Presses \ {p} : press'[q] = press[q]
      /\ press' = [q \in Presses |-> press'[q]]
  BY PressBecomes
<1> QED BY <1>1 DEF P!PressIsTyped, P!TypeOK

\* What becomes of a entry whose claims are found abandoned, or given up.
LEMMA RowRecovers ==
  ASSUME P!TypeOK
  PROVE  /\ P!RecoverStale(prep) \in P!Rows
         /\ LET new == P!RecoverStale(prep) IN
            /\ new.gen = prep.gen /\ new.package = prep.package
            /\ new.inputs = prep.inputs /\ new.attempts = prep.attempts
            /\ \/ new.state = prep.state /\ new.owner = prep.owner
               \/ prep.state = "PREPARING" /\ new.state = "FAILED"
            /\ \/ new.preview = prep.preview
               \/ prep.preview = "SENDING" /\ new.preview = "UNCERTAIN"
         /\ \A error \in {"NO_RELEVANT_EVIDENCE", "other"} :
               LET new == P!Prepared(prep, "FAILED", error) IN
               /\ new \in P!Rows
               /\ new.gen = prep.gen /\ new.package = prep.package
               /\ new.inputs = prep.inputs /\ new.attempts = prep.attempts
               /\ new.state = "FAILED" /\ new.preview = prep.preview
<1> DEFINE shownRow == P!ReconcilePreview(prep)
<1>1. prep \in P!Rows
  BY DEF P!TypeOK
<1>2. /\ shownRow \in P!Rows
      /\ shownRow.gen = prep.gen /\ shownRow.package = prep.package
      /\ shownRow.inputs = prep.inputs /\ shownRow.attempts = prep.attempts
      /\ shownRow.state = prep.state /\ shownRow.owner = prep.owner
      /\ \/ shownRow.preview = prep.preview
         \/ prep.preview = "SENDING" /\ shownRow.preview = "UNCERTAIN"
  BY <1>1, Zenon DEF P!ReconcilePreview, P!StalePreview, P!Shown, P!Rows
<1> HIDE DEF shownRow
<1>3. \A r \in P!Rows, error \in {"NO_RELEVANT_EVIDENCE", "other"} :
        LET new == P!Prepared(r, "FAILED", error) IN
        /\ new \in P!Rows
        /\ new.gen = r.gen /\ new.package = r.package
        /\ new.inputs = r.inputs /\ new.attempts = r.attempts
        /\ new.state = "FAILED" /\ new.preview = r.preview
  <2> SUFFICES ASSUME NEW r \in P!Rows, NEW error \in {"NO_RELEVANT_EVIDENCE", "other"}
               PROVE  LET new == [r EXCEPT !.state = "FAILED", !.error = error, !.owner = Nobody, !.old = FALSE] IN
                      /\ new \in P!Rows
                      /\ new.gen = r.gen /\ new.package = r.package
                      /\ new.inputs = r.inputs /\ new.attempts = r.attempts
                      /\ new.state = "FAILED" /\ new.preview = r.preview
    BY Zenon DEF P!Prepared
  <2> QED BY DEF P!Rows
<1>4. P!RecoverStale(prep) \in {shownRow, P!Prepared(shownRow, "FAILED", "other")}
      /\ (P!RecoverStale(prep) # shownRow => prep.state = "PREPARING")
  BY <1>2 DEF P!RecoverStale, P!ReconcilePreparation, P!StalePreparation, shownRow
<1> QED BY <1>1, <1>2, <1>3, <1>4

PackageInv == P!TypeOK /\ P!PressIsTyped /\ PackageParts

\* What happens around the handlers.
LEMMA PackageAround ==
  ASSUME PackageInv, P!Edit \/ P!SetStatus \/ P!ClaimAges PROVE PackageInv'
<1>1. UNCHANGED <<letters, published, shown, press>>
  BY DEF P!Edit, P!SetStatus, P!ClaimAges
<1>2. prep \in P!Rows
  BY DEF PackageInv, P!TypeOK
<1>3. P!TypeOK' /\ RowRests
  <2>1. CASE P!Edit
    BY <2>1 DEF P!Edit, PackageInv, P!TypeOK, RowRests
  <2>2. CASE P!SetStatus
    BY <2>2 DEF P!SetStatus, PackageInv, P!TypeOK, RowRests
  <2>3. CASE P!ClaimAges
    <3>1. prep' \in P!Rows /\ RowRests
      BY <1>2, <2>3 DEF P!ClaimAges, P!Rows, RowRests
    <3> QED BY <2>3, <3>1 DEF P!ClaimAges, PackageInv, P!TypeOK
  <2> QED BY <2>1, <2>2, <2>3
<1>4. P!PressIsTyped'
  BY <1>1 DEF PackageInv, P!PressIsTyped
<1> QED BY <1>1, <1>3, <1>4, PackageQuiet DEF PackageInv

\* A handler reads, gives up, dies, or is refused.
LEMMA PackageLeaves ==
  ASSUME PackageInv, NEW p \in Presses, NEW new,
         press' = [press EXCEPT ![p] = new],
         new.pc \in {"idle", "read", "claim", "offer", "page"},
         new.pc \in {"read", "claim"} => new.inputs \in Inputs,
         prep' \in P!Rows, RowRests,
         UNCHANGED <<identity, offered, letters, published, shown>>
  PROVE  PackageInv'
<1>1. PressLeaves(p)
  BY PressBecomes DEF PackageInv, PressLeaves
<1>2. P!PressIsTyped' /\ P!TypeOK'
  BY PressTypes DEF PackageInv, P!TypeOK
<1> QED BY <1>1, <1>2, PackageQuiet DEF PackageInv

\* Reading the entry gives up what was abandoned, and no more.
LEMMA PackageReads ==
  ASSUME PackageInv, NEW p \in Presses,
         P!Apply(p) \/ P!ReadRow(p) \/ P!PreviewPage(p) \/ P!Dies(p)
  PROVE  PackageInv'
<1> DEFINE entry == P!RecoverStale(prep)
<1>1. entry \in P!Rows /\ (prep' = entry => RowRests)
  BY RowRecovers DEF PackageInv, RowRests
<1>2. prep \in P!Rows /\ (prep' = prep => RowRests) /\ identity \in Inputs
  BY DEF PackageInv, P!TypeOK, RowRests
<1> HIDE DEF entry
<1>3. CASE P!Apply(p)
  <2>1. press' = [press EXCEPT ![p] = [pc |-> "read", inputs |-> identity]]
        /\ UNCHANGED <<identity, offered, prep, letters, published, shown>>
    BY <1>3 DEF P!Apply, P!Becomes
  <2> QED BY <1>2, <2>1, PackageLeaves
<1>4. CASE P!ReadRow(p)
  <2>1. press[p].inputs \in Inputs
    BY <1>4 DEF P!ReadRow, PackageInv, P!PressIsTyped
  <2>2. /\ prep' = entry /\ UNCHANGED <<identity, offered, letters, published, shown>>
        /\ \/ press' = [press EXCEPT ![p] = P!Idle]
           \/ press' = [press EXCEPT ![p] = [pc |-> "offer", preview |-> entry.preview]]
           \/ press' = [press EXCEPT ![p] = [pc |-> "claim", inputs |-> press[p].inputs, seen |-> P!Observed(entry)]]
    BY <1>4 DEF P!ReadRow, P!Becomes, P!Ends, entry
  <2> QED BY <1>1, <2>1, <2>2, PackageLeaves DEF P!Idle
<1>5. CASE P!PreviewPage(p)
  <2>1. /\ prep' = entry /\ UNCHANGED <<identity, offered, letters, published, shown>>
        /\ \/ press' = [press EXCEPT ![p] = P!Idle]
           \/ press' = [press EXCEPT ![p] = [pc |-> "page", gen |-> entry.package]]
    BY <1>5 DEF P!PreviewPage, P!Becomes, P!Ends, entry
  <2> QED BY <1>1, <2>1, PackageLeaves DEF P!Idle
<1>6. CASE P!Dies(p)
  BY <1>2, <1>6, PackageLeaves DEF P!Dies, P!Ends, P!Becomes, P!Idle
<1> QED BY <1>3, <1>4, <1>5, <1>6

\* The entry of a claim that succeeded.
LEMMA RowClaimed ==
  ASSUME prep \in P!Rows, NEW p \in Presses, NEW i \in Inputs,
         NEW g \in P!Generations, NEW n \in 0..MaxAttempts,
         prep' = [prep EXCEPT !.state = "PREPARING", !.gen = g, !.inputs = i, !.owner = p,
                              !.old = FALSE, !.error = "none", !.attempts = n]
  PROVE  /\ prep' \in P!Rows
         /\ prep'.state = "PREPARING" /\ prep'.gen = g /\ prep'.inputs = i
         /\ prep'.owner = p /\ prep'.package = prep.package /\ prep'.preview = prep.preview
<1>1. g \in 0..MaxGenerations
  BY DEF P!Generations
<1> QED BY <1>1 DEF P!Rows

\* The claim of a preparation draws a generation of its own.
LEMMA PackageClaims ==
  ASSUME P!ConstantsAreSane, PackageInv, NEW p \in Presses, P!Claim(p)
  PROVE  PackageInv'
<1>1. prep \in P!Rows /\ press[p].inputs \in Inputs /\ press[p].pc = "claim"
  BY DEF PackageInv, P!TypeOK, P!Claim, P!PressIsTyped
<1>2. CASE P!CreateClaim(p) \/ P!ClaimMatches(p)
  <2> DEFINE again == press[p].seen.inputs = press[p].inputs
             tries == IF again THEN prep.attempts + 1 ELSE 1
             new == [pc |-> "prepare", inputs |-> press[p].inputs, gen |-> prep.gen + 1,
                     pinned |-> press[p].seen.package]
  <2>1. /\ prep.gen < MaxGenerations
        /\ prep' = [prep EXCEPT
                    !.state = "PREPARING", !.gen = prep.gen + 1, !.inputs = press[p].inputs,
                    !.owner = p, !.old = FALSE, !.error = "none", !.attempts = tries]
        /\ press' = [press EXCEPT ![p] = new]
        /\ UNCHANGED <<identity, offered, letters, published, shown>>
    BY <1>2 DEF P!Claim, P!Becomes
  <2>2. /\ prep.state \in {"none", "PREPARED", "FAILED"} /\ prep.preview # "SENDING"
        /\ again => prep.attempts < MaxAttempts
    BY <1>2 DEF P!CreateClaim, P!ClaimMatches, PackageInv, PackageParts, P!GenerationsAreOrdered, P!ConstantsAreSane
  <2>3. prep.gen + 1 \in P!Generations /\ prep.gen \in Nat
        /\ tries \in 0..MaxAttempts
    BY <1>1, <2>1, <2>2 DEF P!ConstantsAreSane, P!Rows, P!Generations
  <2> HIDE DEF tries
  <2>4. /\ prep' \in P!Rows
        /\ prep'.state = "PREPARING" /\ prep'.gen = prep.gen + 1 /\ prep'.inputs = press[p].inputs
        /\ prep'.owner = p /\ prep'.package = prep.package /\ prep'.preview = prep.preview
    <3>1. PICK g, n, i : g = prep.gen + 1 /\ n = tries /\ i = press[p].inputs
      OBVIOUS
    <3>2. g \in P!Generations /\ n \in 0..MaxAttempts /\ i \in Inputs
      BY <1>1, <2>3, <3>1
    <3>3. prep' = [prep EXCEPT !.state = "PREPARING", !.gen = g, !.inputs = i, !.owner = p,
                               !.old = FALSE, !.error = "none", !.attempts = n]
      BY <2>1, <3>1
    <3>4. /\ prep' \in P!Rows
          /\ prep'.state = "PREPARING" /\ prep'.gen = g /\ prep'.inputs = i
          /\ prep'.owner = p /\ prep'.package = prep.package /\ prep'.preview = prep.preview
      BY <1>1, <3>2, <3>3, RowClaimed, Zenon
    <3> QED BY <3>1, <3>4
  <2>5. new.pc = "prepare" /\ new.inputs = press[p].inputs /\ new.gen = prep.gen + 1
    OBVIOUS
  <2> HIDE DEF new
  <2>6. P!PressIsTyped' /\ P!TypeOK'
    BY <1>1, <2>1, <2>3, <2>4, <2>5, PressTypes DEF PackageInv, P!TypeOK
  <2>7. press'[p] = new /\ \A q \in Presses \ {p} : press'[q] = press[q]
    BY <2>1, PressBecomes DEF PackageInv
  <2>8. prep.gen + 1 \notin published /\ \A g \in published : g <= prep'.gen
    <3>1. \A g \in published : g <= prep.gen
      BY DEF PackageInv, PackageParts, P!GenerationsAreOrdered
    <3>2. published \subseteq Nat
      BY DEF PackageInv, P!TypeOK, P!Generations
    <3>3. PICK n \in Nat : n = prep.gen /\ n + 1 = prep'.gen
      BY <2>3, <2>4 DEF P!Generations
    <3>4. \A g \in published : g <= n
      BY <3>1, <3>3
    <3>5. n + 1 \notin published /\ \A g \in published : g <= n + 1
      BY <3>2, <3>4
    <3> QED BY <3>3, <3>5
  <2> USE DEF PackageInv, PackageParts
  <2>9. P!LedgerIsConsistent'
    BY <2>1, <2>2, <2>4, <2>6 DEF P!LedgerIsConsistent
  <2>10. P!PreviewTellsTheTruth'
    BY <2>1, <2>4 DEF P!PreviewTellsTheTruth
  <2>11. P!GenerationsAreOrdered'
    BY <2>1, <2>3, <2>4, <2>5, <2>7, <2>8 DEF P!GenerationsAreOrdered
  <2>12. P!ClaimIsForInputs'
    BY <2>2, <2>4, <2>5, <2>7 DEF P!ClaimIsForInputs, P!OwnsPreparation
  <2>13. P!MessagesAreCounted'
    BY <2>1, <2>4, <2>5, <2>7 DEF P!MessagesAreCounted
  <2> QED BY <2>6, <2>9, <2>10, <2>11, <2>12, <2>13
<1>3. CASE ~(P!CreateClaim(p) \/ P!ClaimMatches(p))
  BY <1>1, <1>3, PackageLeaves DEF P!Claim, P!Ends, P!Becomes, P!Idle, RowRests
<1> QED BY <1>2, <1>3

\* A preparation that fails is given up only by the press that owns it.
LEMMA PackageFails ==
  ASSUME PackageInv, NEW p \in Presses, NEW error \in {"NO_RELEVANT_EVIDENCE", "other"},
         P!FailPreparation(p, error), UNCHANGED <<identity, offered, letters, published, shown>>
  PROVE  PackageInv'
<1>1. prep \in P!Rows
  BY DEF PackageInv, P!TypeOK
<1>2. prep' \in P!Rows /\ RowRests
  <2>1. CASE P!OwnsPreparation(p)
    <3>1. prep' = P!Prepared(prep, "FAILED", error) /\ prep.state = "PREPARING"
      BY <2>1 DEF P!FailPreparation, P!OwnsPreparation
    <3> QED BY <3>1, RowRecovers DEF PackageInv, RowRests
  <2>2. CASE ~P!OwnsPreparation(p)
    BY <1>1, <2>2 DEF P!FailPreparation, RowRests
  <2> QED BY <2>1, <2>2
<1> QED BY <1>2, PackageLeaves DEF P!FailPreparation, P!Ends, P!Becomes, P!Idle

\* Matching and the CV are done, or fail the claim.
LEMMA PackagePrepares ==
  ASSUME PackageInv, NEW p \in Presses, P!Prepare(p)
  PROVE  PackageInv'
<1>1. UNCHANGED <<identity, offered, letters, published, shown>> /\ press[p].pc = "prepare"
  BY DEF P!Prepare
<1>2. press[p].inputs \in Inputs /\ press[p].gen \in P!Generations
  BY <1>1 DEF PackageInv, P!PressIsTyped
<1> DEFINE new == [pc |-> "publish", inputs |-> press[p].inputs, gen |-> press[p].gen,
                   pinned |-> press[p].pinned]
<1>3. CASE press' = [press EXCEPT ![p] = new] /\ UNCHANGED prep
  <2>1. new.pc = "publish" /\ new.inputs = press[p].inputs /\ new.gen = press[p].gen
    OBVIOUS
  <2> HIDE DEF new
  <2>2. P!PressIsTyped' /\ P!TypeOK'
    BY <1>1, <1>2, <1>3, <2>1, PressTypes DEF PackageInv, P!TypeOK
  <2>3. press'[p] = new /\ \A q \in Presses \ {p} : press'[q] = press[q]
    BY <1>3, PressBecomes DEF PackageInv
  <2> USE DEF PackageInv, PackageParts
  <2>4. P!LedgerIsConsistent' /\ P!PreviewTellsTheTruth'
    BY <1>1, <1>3, <2>2 DEF P!LedgerIsConsistent, P!PreviewTellsTheTruth
  <2>5. P!GenerationsAreOrdered'
    BY <1>1, <1>3, <2>1, <2>3 DEF P!GenerationsAreOrdered
  <2>6. P!ClaimIsForInputs'
    BY <1>1, <1>3, <2>1, <2>3 DEF P!ClaimIsForInputs, P!OwnsPreparation
  <2>7. P!MessagesAreCounted'
    BY <1>1, <1>3, <2>1, <2>3 DEF P!MessagesAreCounted
  <2> QED BY <2>2, <2>4, <2>5, <2>6, <2>7
<1>4. CASE \E error \in {"NO_RELEVANT_EVIDENCE", "other"} : P!FailPreparation(p, error)
  BY <1>1, <1>4, PackageFails
<1> QED BY <1>3, <1>4 DEF P!Prepare, P!Becomes

\* The entry of a publication.
LEMMA RowPublished ==
  ASSUME prep \in P!Rows, NEW g \in P!Generations,
         prep' = [P!Prepared(prep, "PREPARED", "none") EXCEPT !.package = g, !.preview = "NONE"]
  PROVE  /\ prep' \in P!Rows
         /\ prep'.state = "PREPARED" /\ prep'.gen = prep.gen /\ prep'.inputs = prep.inputs
         /\ prep'.package = g /\ prep'.preview = "NONE"
<1>1. g \in 0..MaxGenerations
  BY DEF P!Generations
<1>2. PICK entry : entry = P!Prepared(prep, "PREPARED", "none")
  OBVIOUS
<1>3. entry \in P!Rows /\ entry.state = "PREPARED" /\ entry.gen = prep.gen /\ entry.inputs = prep.inputs
  BY <1>2 DEF P!Prepared, P!Rows
<1>4. prep' = [entry EXCEPT !.package = g, !.preview = "NONE"]
  BY <1>2
<1> QED BY <1>1, <1>3, <1>4 DEF P!Rows

\* The letter of a publication is current, and is committed with it.
LEMMA LetterPublished ==
  ASSUME letters \in Seq(P!Letters), NEW p \in Presses,
         press[p].inputs \in Inputs, press[p].gen \in P!Generations
  PROVE  /\ P!LetterOf(p) \in Seq(P!Letters)
         /\ \E k \in DOMAIN P!LetterOf(p) : P!LetterOf(p)[k].inputs = press[p].inputs
         /\ \A k \in DOMAIN P!LetterOf(p) :
               \/ k \in DOMAIN letters /\ P!LetterOf(p)[k] = letters[k]
               \/ P!LetterOf(p)[k].gen = press[p].gen
<1>1. CASE P!ReusesLetter(p)
  <2>1. P!LetterOf(p) = letters
    BY <1>1 DEF P!LetterOf
  <2>2. \E k \in DOMAIN letters : letters[k].inputs = press[p].inputs
    <3>1. CASE letters # <<>> /\ P!Last(letters).inputs = press[p].inputs
      <4>1. Len(letters) \in DOMAIN letters
        BY <3>1
      <4> QED BY <3>1, <4>1 DEF P!Last
    <3> QED BY <1>1, <3>1 DEF P!ReusesLetter
  <2> QED BY <2>1, <2>2
<1>2. CASE ~P!ReusesLetter(p)
  <2> DEFINE letter == [inputs |-> press[p].inputs, gen |-> press[p].gen]
  <2>1. P!LetterOf(p) = Append(letters, letter)
    BY <1>2 DEF P!LetterOf
  <2>2. letter \in P!Letters /\ letter.inputs = press[p].inputs /\ letter.gen = press[p].gen
    BY DEF P!Letters
  <2> HIDE DEF letter
  <2>3. /\ Append(letters, letter) \in Seq(P!Letters)
        /\ DOMAIN Append(letters, letter) = 1..(Len(letters) + 1) /\ Len(letters) \in Nat
        /\ Append(letters, letter)[Len(letters) + 1] = letter
        /\ \A k \in 1..Len(letters) : Append(letters, letter)[k] = letters[k]
        /\ DOMAIN letters = 1..Len(letters)
    BY <2>2
  <2> QED BY <2>1, <2>2, <2>3
<1> QED BY <1>1, <1>2

\* The publication shows a package of which nothing was sent yet.
LEMMA PackagePublishes ==
  ASSUME PackageInv, NEW p \in Presses, P!Publish(p)
  PROVE  PackageInv'
<1>1. /\ UNCHANGED <<identity, offered, shown>> /\ press[p].pc = "publish"
      /\ prep \in P!Rows /\ letters \in Seq(P!Letters) /\ published \subseteq P!Generations
  BY DEF P!Publish, PackageInv, P!TypeOK
<1>2. press[p].inputs \in Inputs /\ press[p].gen \in P!Generations
  BY <1>1 DEF PackageInv, P!PressIsTyped
<1>3. CASE P!PublicationProblem(p)
  BY <1>1, <1>3, PackageFails DEF P!Publish
<1>4. CASE ~P!PublicationProblem(p) /\ ~P!OwnsPreparation(p)
  <2>1. press' = [press EXCEPT ![p] = P!Idle] /\ UNCHANGED <<prep, letters, published>>
    BY <1>4 DEF P!Publish, P!Ends, P!Becomes
  <2> QED BY <1>1, <2>1, PackageLeaves DEF P!Idle, RowRests
<1>5. CASE ~P!PublicationProblem(p) /\ P!OwnsPreparation(p)
  <2> DEFINE new == [pc |-> "offer", preview |-> "NONE"]
  <2>1. /\ prep' = [P!Prepared(prep, "PREPARED", "none") EXCEPT !.package = press[p].gen, !.preview = "NONE"]
        /\ letters' = P!LetterOf(p) /\ published' = published \cup {press[p].gen}
        /\ press' = [press EXCEPT ![p] = new]
    BY <1>5 DEF P!Publish, P!PublishRow, P!Becomes
  <2>2. PICK g : g = press[p].gen
    OBVIOUS
  <2>3. /\ prep.gen = g /\ prep.inputs = press[p].inputs /\ prep.state = "PREPARING"
        /\ g \in P!Generations /\ g \notin published /\ shown[g] = {}
    BY <1>1, <1>2, <1>5, <2>2
    DEF P!OwnsPreparation, PackageInv, PackageParts, P!GenerationsAreOrdered, P!ClaimIsForInputs
  <2>4. /\ prep' \in P!Rows
        /\ prep'.state = "PREPARED" /\ prep'.gen = g /\ prep'.inputs = press[p].inputs
        /\ prep'.package = g /\ prep'.preview = "NONE"
    BY <1>1, <2>1, <2>2, <2>3, RowPublished, Zenon
  <2>5. /\ letters' \in Seq(P!Letters)
        /\ \E k \in DOMAIN letters' : letters'[k].inputs = press[p].inputs
        /\ \A k \in DOMAIN letters' :
              \/ k \in DOMAIN letters /\ letters'[k] = letters[k]
              \/ letters'[k].gen = g
    BY <1>1, <1>2, <2>1, <2>2, LetterPublished
  <2>6. new.pc = "offer"
    OBVIOUS
  <2> HIDE DEF new
  <2>7. P!PressIsTyped' /\ P!TypeOK'
    BY <1>1, <2>1, <2>2, <2>3, <2>4, <2>5, <2>6, PressTypes DEF PackageInv, P!TypeOK
  <2>8. press'[p].pc = "offer" /\ \A q \in Presses \ {p} : press'[q] = press[q]
    BY <2>1, <2>6, PressBecomes DEF PackageInv
  <2>9. published' = published \cup {g} /\ 0 \notin P!Generations /\ g \in Nat
    BY <2>1, <2>2, <2>3 DEF P!Generations
  <2> USE DEF PackageInv, PackageParts
  <2>10. P!LedgerIsConsistent'
    BY <2>4, <2>5, <2>7, <2>9 DEF P!LedgerIsConsistent
  <2>11. P!PreviewTellsTheTruth'
    BY <1>1, <2>3, <2>4 DEF P!PreviewTellsTheTruth
  <2>12. P!GenerationsAreOrdered'
    <3>1. \A q \in Presses : press'[q].pc \in {"send", "resolve"} => press'[q].gen \in published'
      BY <2>8, <2>9 DEF P!GenerationsAreOrdered
    <3>2. \A h \in published' : h <= prep'.gen
      BY <2>3, <2>4, <2>9 DEF P!GenerationsAreOrdered
    <3>3. \A h \in P!Generations : shown'[h] # {} => h \in published'
      BY <1>1, <2>9 DEF P!GenerationsAreOrdered
    <3> QED BY <2>4, <2>9, <3>1, <3>2, <3>3 DEF P!GenerationsAreOrdered
  <2>13. P!ClaimIsForInputs'
    BY <2>4 DEF P!ClaimIsForInputs, P!OwnsPreparation
  <2>14. P!MessagesAreCounted'
    BY <1>1, <2>3, <2>4, <2>8 DEF P!MessagesAreCounted, P!GenerationsAreOrdered
  <2> QED BY <2>7, <2>10, <2>11, <2>12, <2>13, <2>14
<1> QED BY <1>3, <1>4, <1>5

\* Who claims a message about the package in the entry.
LEMMA PackageCarries ==
  ASSUME PackageInv, NEW p \in Presses, NEW kind \in {"summary", "page"},
         P!ClaimPreview(p, kind), prep.state = "PREPARED",
         kind = "summary" => prep.preview \in {"NONE", "FAILED"},
         UNCHANGED <<identity, offered, letters, published, shown>>
  PROVE  PackageInv'
<1> DEFINE new == [pc |-> "send", kind |-> kind, gen |-> prep.gen]
<1>1. /\ prep' = [prep EXCEPT !.preview = "SENDING", !.carrier = p, !.previewOld = FALSE]
      /\ press' = [press EXCEPT ![p] = new]
  BY DEF P!ClaimPreview, P!Becomes
<1>2. PICK g : g = prep.gen
  OBVIOUS
<1>3. /\ prep \in P!Rows /\ published \subseteq P!Generations
      /\ prep.package = g /\ g \in published /\ g \in P!Generations /\ g # 0
  <2>1. prep \in P!Rows /\ published \subseteq P!Generations
    BY DEF PackageInv, P!TypeOK
  <2>2. prep.package = g /\ g \in published
    BY <1>2 DEF PackageInv, PackageParts, P!LedgerIsConsistent
  <2> QED BY <2>1, <2>2 DEF P!Generations
<1>4. /\ prep' \in P!Rows
      /\ prep'.state = "PREPARED" /\ prep'.gen = g /\ prep'.inputs = prep.inputs
      /\ prep'.package = g /\ prep'.preview = "SENDING" /\ prep'.attempts = prep.attempts
  BY <1>1, <1>2, <1>3 DEF P!Rows
<1>5. new.pc = "send" /\ new.kind = kind /\ new.gen = g
  BY <1>2
<1> HIDE DEF new
<1>6. P!PressIsTyped' /\ P!TypeOK'
  BY <1>1, <1>3, <1>4, <1>5, PressTypes DEF PackageInv, P!TypeOK
<1>7. press'[p] = new /\ \A q \in Presses \ {p} : press'[q] = press[q]
  BY <1>1, PressBecomes DEF PackageInv
<1> USE DEF PackageInv, PackageParts
<1>8. P!LedgerIsConsistent'
  BY <1>2, <1>4, <1>6 DEF P!LedgerIsConsistent
<1>9. P!PreviewTellsTheTruth'
  BY <1>4 DEF P!PreviewTellsTheTruth
<1>10. P!GenerationsAreOrdered'
  BY <1>2, <1>3, <1>4, <1>5, <1>7 DEF P!GenerationsAreOrdered
<1>11. P!ClaimIsForInputs'
  BY <1>4 DEF P!ClaimIsForInputs, P!OwnsPreparation
<1>12. P!MessagesAreCounted'
  <2>1. kind = "summary" => shown[g] = {} \/ "refused" \in shown[g]
    BY <1>3 DEF P!PreviewTellsTheTruth
  <2>2. \A q \in Presses :
           kind = "summary" /\ press[q].pc = "send" /\ press[q].gen = g => "refused" \in shown[g]
    BY <1>3 DEF P!PreviewTellsTheTruth, P!MessagesAreCounted
  <2> QED BY <1>4, <1>5, <1>7, <2>1, <2>2 DEF P!MessagesAreCounted
<1> QED BY <1>6, <1>8, <1>9, <1>10, <1>11, <1>12

\* The two ways to claim a message about the package.
LEMMA PackageShows ==
  ASSUME PackageInv, NEW p \in Presses, P!OfferSummary(p) \/ P!ClaimPage(p)
  PROVE  PackageInv'
<1>1. UNCHANGED <<identity, offered, letters, published, shown>>
  BY DEF P!OfferSummary, P!ClaimPage
<1>2. CASE P!Ends(p) /\ UNCHANGED prep
  BY <1>1, <1>2, PackageLeaves DEF P!Ends, P!Becomes, P!Idle, RowRests, PackageInv, P!TypeOK
<1>3. CASE P!OfferSummary(p) /\ ~(P!Ends(p) /\ UNCHANGED prep)
  BY <1>1, <1>3, PackageCarries DEF P!OfferSummary, P!ApplyStates
<1>4. CASE P!ClaimPage(p) /\ ~(P!Ends(p) /\ UNCHANGED prep)
  BY <1>1, <1>4, PackageCarries DEF P!ClaimPage
<1> QED BY <1>2, <1>3, <1>4

\* What Telegram did with a message is known of its generation for good.
LEMMA PackageSends ==
  ASSUME PackageInv, NEW p \in Presses, P!Send(p)
  PROVE  PackageInv'
<1>1. /\ UNCHANGED <<identity, offered, prep, letters, published>> /\ press[p].pc = "send"
      /\ shown \in [P!Generations -> SUBSET {"summary", "again", "page", "refused"}]
  BY DEF P!Send, PackageInv, P!TypeOK
<1>2. PICK g, asked, kind :
         /\ g = press[p].gen /\ asked = press[p].kind
         /\ kind = IF asked = "summary" /\ "summary" \in shown[g] THEN "again" ELSE asked
  OBVIOUS
<1>3. g \in P!Generations /\ asked \in {"summary", "page"} /\ g \in published
  BY <1>1, <1>2 DEF PackageInv, PackageParts, P!PressIsTyped, P!GenerationsAreOrdered
<1>4. PICK answer \in {"SENT", "FAILED", "UNCERTAIN"} :
         /\ press' = [press EXCEPT ![p] = [pc |-> "resolve", gen |-> press[p].gen, outcome |-> answer]]
         /\ shown' = [shown EXCEPT ![g] = shown[g] \cup {IF answer = "FAILED" THEN "refused" ELSE kind}]
  BY <1>2 DEF P!Send, P!Becomes
<1>5. PICK mark : mark = IF answer = "FAILED" THEN "refused" ELSE kind
  OBVIOUS
<1>6. /\ shown' \in [P!Generations -> SUBSET {"summary", "again", "page", "refused"}]
      /\ shown'[g] = shown[g] \cup {mark}
      /\ \A h \in P!Generations \ {g} : shown'[h] = shown[h]
      /\ \A h \in P!Generations : shown[h] \subseteq shown'[h]
  <2>1. mark \in {"summary", "again", "page", "refused"}
    BY <1>2, <1>3, <1>5
  <2> QED BY <1>1, <1>3, <1>4, <1>5, <2>1
<1> DEFINE new == [pc |-> "resolve", gen |-> press[p].gen, outcome |-> answer]
<1>7. new.pc = "resolve" /\ new.gen = g /\ new.outcome = answer /\ press' = [press EXCEPT ![p] = new]
  BY <1>2, <1>4
<1> HIDE DEF new
<1>8. P!PressIsTyped' /\ P!TypeOK'
  BY <1>1, <1>3, <1>6, <1>7, PressTypes DEF PackageInv, P!TypeOK
<1>9. press'[p] = new /\ \A q \in Presses \ {p} : press'[q] = press[q]
  BY <1>7, PressBecomes DEF PackageInv
<1>10. /\ mark = "refused" \/ mark \in {"summary", "again", "page"}
       /\ answer = "SENT" => mark \in {"summary", "again", "page"}
       /\ answer = "FAILED" => mark = "refused"
       /\ mark = "summary" => asked = "summary"
       /\ mark = "again" => asked = "summary" /\ "summary" \in shown[g]
  BY <1>2, <1>3, <1>4, <1>5
<1> USE DEF PackageInv, PackageParts
<1>11. prep.package # g \/ prep.preview # "NONE"
  BY <1>1, <1>2 DEF P!MessagesAreCounted
<1>12. asked = "summary" /\ "summary" \in shown[g] => "refused" \in shown[g]
  BY <1>1, <1>2 DEF P!MessagesAreCounted
<1>13. \A q \in Presses \ {p} :
          asked = "summary" /\ press[q].pc = "send" /\ press[q].kind = "summary" /\ press[q].gen = g
          => "refused" \in shown[g]
  BY <1>1, <1>2 DEF P!MessagesAreCounted
<1>14. P!LedgerIsConsistent'
  BY <1>1, <1>8 DEF P!LedgerIsConsistent
<1>15. P!PreviewTellsTheTruth'
  <2>1. prep.package # 0 => prep.package \in P!Generations
    BY DEF P!GenerationsAreOrdered, P!TypeOK
  <2> QED BY <1>1, <1>6, <1>10, <1>11, <1>12, <2>1 DEF P!PreviewTellsTheTruth
<1>16. P!GenerationsAreOrdered'
  BY <1>1, <1>3, <1>6, <1>7, <1>9 DEF P!GenerationsAreOrdered
<1>17. P!ClaimIsForInputs'
  BY <1>1, <1>7, <1>9 DEF P!ClaimIsForInputs, P!OwnsPreparation
<1>18. P!MessagesAreCounted'
  <2>1. \A q \in Presses : press[q].pc \in {"send", "resolve"} => press[q].gen \in P!Generations
    BY DEF P!PressIsTyped
  <2>2. \A q \in Presses :
           LET h == press'[q].gen IN
           /\ press'[q].pc \in {"send", "resolve"} => prep'.package # h \/ prep'.preview # "NONE"
           /\ press'[q].pc = "send" /\ press'[q].kind = "summary" /\ "summary" \in shown'[h] => "refused" \in shown'[h]
           /\ press'[q].pc = "resolve" /\ press'[q].outcome = "SENT" => shown'[h] \cap {"summary", "again", "page"} # {}
           /\ press'[q].pc = "resolve" /\ press'[q].outcome = "FAILED" => "refused" \in shown'[h]
    <3> SUFFICES ASSUME NEW q \in Presses
                 PROVE  LET h == press'[q].gen IN
                          /\ press'[q].pc \in {"send", "resolve"} => prep'.package # h \/ prep'.preview # "NONE"
                          /\ press'[q].pc = "send" /\ press'[q].kind = "summary" /\ "summary" \in shown'[h]
                             => "refused" \in shown'[h]
                          /\ press'[q].pc = "resolve" /\ press'[q].outcome = "SENT"
                             => shown'[h] \cap {"summary", "again", "page"} # {}
                          /\ press'[q].pc = "resolve" /\ press'[q].outcome = "FAILED" => "refused" \in shown'[h]
        OBVIOUS
    <3>1. CASE q = p
        BY <1>1, <1>6, <1>7, <1>9, <1>10, <1>11, <3>1
    <3>2. CASE q # p
        BY <1>1, <1>6, <1>9, <1>10, <1>12, <1>13, <2>1, <3>2 DEF P!MessagesAreCounted
    <3> QED BY <3>1, <3>2
  <2>3. \A q, r \in Presses :
           /\ q # r /\ press'[q].pc = "send" /\ press'[r].pc = "send"
           /\ press'[q].kind = "summary" /\ press'[r].kind = "summary" /\ press'[q].gen = press'[r].gen
           => "refused" \in shown'[press'[q].gen]
    BY <1>6, <1>7, <1>9, <2>1 DEF P!MessagesAreCounted
  <2> QED BY <2>2, <2>3 DEF P!MessagesAreCounted
<1> QED BY <1>8, <1>14, <1>15, <1>16, <1>17, <1>18

\* The answer is recorded by the press that still carries the message.
LEMMA PackageResolves ==
  ASSUME PackageInv, NEW p \in Presses, P!ResolvePreview(p)
  PROVE  PackageInv'
<1>1. /\ UNCHANGED <<identity, offered, letters, published, shown>> /\ press[p].pc = "resolve"
      /\ press' = [press EXCEPT ![p] = P!Idle] /\ prep \in P!Rows
  BY DEF P!ResolvePreview, P!Ends, P!Becomes, PackageInv, P!TypeOK
<1>2. CASE ~P!ResolveMatches(p)
  BY <1>1, <1>2, PackageLeaves DEF P!ResolvePreview, P!Idle, RowRests
<1>3. CASE P!ResolveMatches(p)
  <2>1. PICK g, answer : g = press[p].gen /\ answer = press[p].outcome
    OBVIOUS
  <2>2. answer \in {"SENT", "FAILED", "UNCERTAIN"} /\ prep.gen = g /\ prep.state = "PREPARED"
    BY <1>1, <1>3, <2>1 DEF PackageInv, P!PressIsTyped, P!ResolveMatches
  <2>3. prep' = [prep EXCEPT !.preview = answer, !.carrier = Nobody, !.previewOld = FALSE]
    BY <1>3, <2>1 DEF P!ResolvePreview, P!Shown
  <2>4. /\ prep' \in P!Rows
        /\ prep'.state = prep.state /\ prep'.gen = prep.gen /\ prep'.inputs = prep.inputs
        /\ prep'.package = prep.package /\ prep'.preview = answer
    BY <1>1, <2>2, <2>3 DEF P!Rows
  <2>5. P!PressIsTyped' /\ P!TypeOK'
    BY <1>1, <2>4, PressTypes DEF PackageInv, P!TypeOK, P!Idle
  <2>6. press'[p].pc = "idle" /\ \A q \in Presses \ {p} : press'[q] = press[q]
    BY <1>1, PressBecomes DEF PackageInv, P!Idle
  <2> USE DEF PackageInv, PackageParts
  <2>7. prep.package = g
    BY <2>2 DEF P!LedgerIsConsistent
  <2>8. /\ answer = "SENT" => shown[g] \cap {"summary", "again", "page"} # {}
        /\ answer = "FAILED" => "refused" \in shown[g]
    BY <1>1, <2>1 DEF P!MessagesAreCounted
  <2>9. P!LedgerIsConsistent'
    BY <1>1, <2>2, <2>4, <2>5 DEF P!LedgerIsConsistent
  <2>10. P!PreviewTellsTheTruth'
    BY <1>1, <2>2, <2>4, <2>7, <2>8 DEF P!PreviewTellsTheTruth
  <2>11. P!GenerationsAreOrdered'
    BY <1>1, <2>2, <2>4, <2>6 DEF P!GenerationsAreOrdered
  <2>12. P!ClaimIsForInputs'
    BY <2>2, <2>4 DEF P!ClaimIsForInputs, P!OwnsPreparation
  <2>13. P!MessagesAreCounted'
    BY <1>1, <2>2, <2>4, <2>6 DEF P!MessagesAreCounted
  <2> QED BY <2>5, <2>9, <2>10, <2>11, <2>12, <2>13
<1> QED BY <1>2, <1>3

\* The invariant is inductive.
LEMMA PackageInductive ==
  ASSUME P!ConstantsAreSane
  PROVE  /\ P!Init => P!IInv
         /\ P!IInv /\ [P!Next]_(P!vars) => P!IInv'
<1>1. P!Init => PackageInv
  <2> SUFFICES ASSUME P!Init PROVE PackageInv
    OBVIOUS
  <2>1. /\ \A p \in Presses : press[p] = P!Idle /\ press[p].pc = "idle"
        /\ press = [p \in Presses |-> press[p]]
    BY DEF P!Init, P!Idle
  <2>2. /\ prep \in P!Rows /\ identity \in Inputs /\ offered \in BOOLEAN
        /\ prep.state = "none" /\ prep.gen = 0 /\ prep.package = 0 /\ prep.preview = "NONE"
        /\ prep.attempts = 0
    BY DEF P!Init, P!Rows, P!ConstantsAreSane
  <2>3. letters = <<>> /\ published = {} /\ \A g \in P!Generations : shown[g] = {}
    BY DEF P!Init
  <2>4. P!TypeOK
    BY <2>1, <2>2, <2>3 DEF P!TypeOK, P!Init
  <2> USE <2>1, <2>2, <2>3, <2>4
  <2>5. P!PressIsTyped
    BY DEF P!PressIsTyped
  <2>6. P!LedgerIsConsistent
    BY DEF P!LedgerIsConsistent
  <2>7. P!PreviewTellsTheTruth
    BY DEF P!PreviewTellsTheTruth
  <2>8. P!GenerationsAreOrdered
    BY DEF P!GenerationsAreOrdered
  <2>9. P!ClaimIsForInputs /\ P!MessagesAreCounted
    BY DEF P!ClaimIsForInputs, P!MessagesAreCounted
  <2> QED BY <2>4, <2>5, <2>6, <2>7, <2>8, <2>9 DEF PackageInv, PackageParts
<1>2. PackageInv /\ [P!Next]_(P!vars) => PackageInv'
  <2> SUFFICES ASSUME PackageInv, [P!Next]_(P!vars) PROVE PackageInv'
    OBVIOUS
  <2>1. CASE P!Edit \/ P!SetStatus \/ P!ClaimAges
    BY <2>1, PackageAround
  <2>2. ASSUME NEW p \in Presses, P!Apply(p) \/ P!ReadRow(p) \/ P!PreviewPage(p) \/ P!Dies(p)
        PROVE  PackageInv'
    BY <2>2, PackageReads
  <2>3. ASSUME NEW p \in Presses, P!Claim(p) PROVE PackageInv'
    BY <2>3, PackageClaims
  <2>4. ASSUME NEW p \in Presses, P!Prepare(p) PROVE PackageInv'
    BY <2>4, PackagePrepares
  <2>5. ASSUME NEW p \in Presses, P!Publish(p) PROVE PackageInv'
    BY <2>5, PackagePublishes
  <2>6. ASSUME NEW p \in Presses, P!OfferSummary(p) \/ P!ClaimPage(p) PROVE PackageInv'
    BY <2>6, PackageShows
  <2>7. ASSUME NEW p \in Presses, P!Send(p) PROVE PackageInv'
    BY <2>7, PackageSends
  <2>8. ASSUME NEW p \in Presses, P!ResolvePreview(p) PROVE PackageInv'
    BY <2>8, PackageResolves
  <2>9. CASE UNCHANGED P!vars
    <3>1. UNCHANGED <<identity, offered, prep, letters, published, shown, press>>
      BY <2>9 DEF P!vars
    <3>2. P!TypeOK' /\ P!PressIsTyped' /\ RowRests
      BY <3>1 DEF PackageInv, P!TypeOK, P!PressIsTyped, RowRests
    <3>3. CASE Presses = {}
      BY <3>1, <3>2, <3>3 DEF PackageInv, PackageParts, P!LedgerIsConsistent, P!PreviewTellsTheTruth,
         P!GenerationsAreOrdered, P!ClaimIsForInputs, P!MessagesAreCounted
    <3>4. ASSUME NEW p \in Presses PROVE PackageInv'
      BY <3>1, <3>2, PackageQuiet DEF PackageInv
    <3> QED BY <3>3, <3>4
  <2> QED BY <2>1, <2>2, <2>3, <2>4, <2>5, <2>6, <2>7, <2>8, <2>9 DEF P!Next
<1>3. P!IInv <=> PackageInv
  BY DEF PackageInv, PackageParts, P!IInv
<1>4. P!IInv' <=> PackageInv'
  BY DEF PackageInv, PackageParts, P!IInv
<1> QED BY <1>1, <1>2, <1>3, <1>4

\* The invariant of the preparation holds in every reachable state.
THEOREM PackageInvariance == ASSUME P!ConstantsAreSane PROVE P!Spec => []P!IInv
  BY PackageInductive, PTL DEF P!Spec

\* A prepared entry shows the package of its own generation, a letter goes with
\* it, and the entry tells what became of the messages about it
\* (telegram_bewerbung.py, _prepare_owned; telegram_bewerbung_repository.py,
\* resolve_preview).
THEOREM PackageSound == ASSUME P!ConstantsAreSane PROVE P!Spec => []P!PackageIsSound
<1>1. P!IInv => P!PackageIsSound
  BY DEF P!IInv, P!PackageIsSound
<1> QED BY <1>1, PackageInvariance, PTL

-----------------------------------------------------------------------------
(* Mailboxes                                                               *)

\* Numbers have a smallest.
LEMMA SmallestIn ==
  ASSUME NEW S \in SUBSET Nat, S # {}
  PROVE  G!Min(S) \in S
<1>1. \A x, y \in Nat : y < x => <<y, x>> \in OpToRel(<, Nat)
  BY DEF OpToRel
<1>2. PICK less : IsWellFoundedOn(less, Nat) /\ \A x, y \in Nat : y < x => <<y, x>> \in less
  BY <1>1, NatLessThanWellFounded, Zenon
<1>3. \E x \in S : \A y \in S : ~ (<<y, x>> \in less)
  BY <1>2, WFMin
<1>4. \E x \in S : \A y \in S : x <= y
  <2>1. PICK x \in S : \A y \in S : ~ (<<y, x>> \in less)
    BY <1>3
  <2>2. ASSUME NEW y \in S PROVE x <= y
    <3>1. x \in Nat /\ y \in Nat
      OBVIOUS
    <3>2. ~(y < x)
      BY <1>2, <2>1, <3>1
    <3> QED BY <3>1, <3>2
  <2> QED BY <2>2
<1> QED BY <1>4 DEF G!Min

\* The owner of an id stays, and what was seen to be contested stays so.
ClaimsGoOn ==
    /\ claim' \in [Ids -> [owner : SyncedMails \cup {Nobody}, contested : BOOLEAN]]
    /\ \A i \in Ids : /\ claim[i].owner # Nobody => claim'[i].owner = claim[i].owner
                      /\ claim[i].contested => claim'[i].contested

\* A step that leaves the claims alone.
LEMMA ClaimsRest ==
  ASSUME G!IInv, UNCHANGED claim
  PROVE  ClaimsGoOn
  BY DEF G!IInv, G!TypeOK, ClaimsGoOn

\* The thread a mail was put in stays the right one.
LEMMA JoinedStays ==
  ASSUME G!IInv, ClaimsGoOn, UNCHANGED mail, NEW m \in SyncedMails, NEW where, G!Joined(m, where)
  PROVE  G!Joined(m, where)'
<1>1. mail[m].id \in Ids
  BY DEF G!IInv, G!TypeOK
<1>2. PICK i \in Ids : i = mail[m].id /\ i = mail'[m].id
  BY <1>1
<1>3. /\ where \in {"own", i}
      /\ G!Opens(m) => /\ claim[i].owner # Nobody
                       /\ where = i <=> claim[i].owner = m
                       /\ claim[i].owner # m => claim[i].contested
  BY <1>2 DEF G!Joined
<1>4. /\ claim[i].owner # Nobody => claim'[i].owner = claim[i].owner
      /\ claim[i].contested => claim'[i].contested
  BY <1>2 DEF ClaimsGoOn
<1>5. G!Opens(m)' <=> G!Opens(m)
  BY DEF G!Opens
<1> QED BY <1>2, <1>3, <1>4, <1>5 DEF G!Joined

\* A sync that waits has what it had.
LEMMA SyncStays ==
  ASSUME G!ConstantsAreSane, G!IInv, ClaimsGoOn, UNCHANGED mail, NEW reading, G!SyncFits(reading)
  PROVE  G!SyncFits(reading)'
<1>1. G!Malformed' = G!Malformed
  BY DEF G!Malformed
<1>2. reading.pc # "idle" => reading.todo \subseteq SyncedMails \ G!Malformed /\ reading.skips \subseteq G!Malformed
  BY DEF G!SyncFits
<1>3. PICK m : m = G!Min(reading.todo)
  OBVIOUS
<1>4. reading.pc \in {"contest", "insert"} => reading.todo # {} /\ m \in SyncedMails
  <2> SUFFICES ASSUME reading.pc \in {"contest", "insert"} PROVE reading.todo # {} /\ m \in SyncedMails
    OBVIOUS
  <2>1. reading.todo # {}
    BY DEF G!SyncFits
  <2>2. reading.todo \in SUBSET Nat /\ reading.todo \subseteq SyncedMails
    BY <1>2 DEF G!ConstantsAreSane
  <2> QED BY <1>3, <2>1, <2>2, SmallestIn
<1>5. reading.pc = "contest" => G!Opens(m)' /\ claim'[mail'[m].id].owner \notin {m, Nobody}
  <2> SUFFICES ASSUME reading.pc = "contest" PROVE G!Opens(m)' /\ claim'[mail'[m].id].owner \notin {m, Nobody}
    OBVIOUS
  <2>1. G!Opens(m) /\ claim[mail[m].id].owner \notin {m, Nobody}
    BY <1>3 DEF G!SyncFits
  <2>2. mail[m].id \in Ids
    BY <1>4 DEF G!IInv, G!TypeOK
  <2>3. PICK i \in Ids : i = mail[m].id /\ i = mail'[m].id
    BY <2>2
  <2>4. claim[i].owner # Nobody => claim'[i].owner = claim[i].owner
    BY <2>3 DEF ClaimsGoOn
  <2>5. claim'[i].owner \notin {m, Nobody}
    BY <2>1, <2>3, <2>4
  <2>6. G!Opens(m)'
    BY <2>1 DEF G!Opens
  <2> QED BY <2>3, <2>5, <2>6
<1>6. reading.pc = "insert" => G!Joined(m, reading.into)'
  <2> SUFFICES ASSUME reading.pc = "insert" PROVE G!Joined(m, reading.into)'
    OBVIOUS
  <2>1. PICK where : where = reading.into
    OBVIOUS
  <2>2. G!Joined(m, where)
    BY <1>3, <2>1 DEF G!SyncFits
  <2>3. G!Joined(m, where)'
    BY <1>4, <2>2, JoinedStays
  <2> QED BY <2>1, <2>3
<1> QED BY <1>1, <1>2, <1>3, <1>4, <1>5, <1>6 DEF G!SyncFits

\* Rows are added, and what was prepared for a mail is kept.
RowsGrow ==
    /\ stored' \in Seq(SyncedMails) /\ Len(stored) <= Len(stored')
    /\ \A k \in 1..Len(stored) : stored'[k] = stored[k]
WorkGoesOn ==
    \A m \in SyncedMails : /\ work[m].analyses # <<>> => work'[m].analyses # <<>>
                           /\ work[m].drafts # {} => work'[m].drafts # {}

\* A run that waits has what it had.
LEMMA RunStays ==
  ASSUME G!ConstantsAreSane, G!IInv, RowsGrow, WorkGoesOn, UNCHANGED mail, NEW turn, G!RunFits(turn)
  PROVE  G!RunFits(turn)'
<1>1. CASE turn.pc = "idle"
  BY <1>1 DEF G!RunFits
<1>2. CASE turn.pc # "idle"
  <2>1. PICK k : k = G!Min(turn.todo)
    OBVIOUS
  <2>2. stored \in Seq(SyncedMails) /\ Len(stored) \in Nat /\ DOMAIN stored = 1..Len(stored)
        /\ Len(stored') \in Nat /\ DOMAIN stored' = 1..Len(stored')
    BY DEF G!IInv, G!TypeOK, RowsGrow
  <2>3. turn.todo \subseteq 1..Len(stored) /\ turn.todo # {}
    BY <1>2, <2>2 DEF G!RunFits
  <2>4. k \in 1..Len(stored)
    BY <2>1, <2>2, <2>3, SmallestIn
  <2>5. PICK m \in SyncedMails : m = stored[k] /\ m = stored'[k]
    BY <2>2, <2>4 DEF RowsGrow
  <2>6. /\ turn.pc = "analyze" => turn.sees \in Contexts
        /\ turn.pc \in {"draft", "mark"} => work[m].analyses # <<>>
        /\ turn.pc = "mark" /\ mail[m].box = "INBOX" => work[m].drafts # {}
    BY <2>1, <2>5 DEF G!RunFits
  <2>7. /\ turn.pc \in {"draft", "mark"} => work'[m].analyses # <<>>
        /\ turn.pc = "mark" /\ mail'[m].box = "INBOX" => work'[m].drafts # {}
    BY <2>6 DEF WorkGoesOn
  <2>8. turn.todo \subseteq DOMAIN stored'
    BY <2>2, <2>3 DEF RowsGrow
  <2> QED BY <2>1, <2>3, <2>5, <2>6, <2>7, <2>8 DEF G!RunFits
<1> QED BY <1>1, <1>2

\* A sync goes on; rows stay, and mails that cannot be parsed may be remembered.
LEMMA SyncGoesOn ==
  ASSUME G!ConstantsAreSane, G!IInv, NEW s \in Syncs, NEW new, sync' = [sync EXCEPT ![s] = new],
         ClaimsGoOn, G!SyncFits(new)', skipped' \subseteq G!Malformed,
         UNCHANGED <<mail, inMailbox, stored, thread, context, work, run>>
  PROVE  G!IInv'
<1>1. sync = [q \in Syncs |-> sync[q]] /\ G!TypeOK
  BY DEF G!IInv, G!TypeOK
<1>2. sync' = [q \in Syncs |-> sync'[q]] /\ \A q \in Syncs : sync'[q] = IF q = s THEN new ELSE sync[q]
  BY <1>1
<1>3. G!TypeOK'
  BY <1>1, <1>2 DEF G!TypeOK, ClaimsGoOn
<1>4. ASSUME NEW q \in Syncs PROVE G!SyncFits(sync[q])'
  <2>1. PICK reading : reading = sync'[q]
    OBVIOUS
  <2>2. CASE q = s
    BY <1>2, <2>2
  <2>3. CASE q # s
    <3>1. reading = sync[q]
      BY <1>2, <2>1, <2>3
    <3>2. G!SyncFits(reading)
      BY <3>1 DEF G!IInv
    <3>3. G!SyncFits(reading)'
      BY <3>2, SyncStays
    <3> QED BY <2>1, <3>3
  <2> QED BY <2>2, <2>3
<1>5. G!StoredAreJoined'
  <2>1. G!Malformed' = G!Malformed /\ G!IsInjective(stored)' /\ G!ToSet(stored)' = G!ToSet(stored)
    BY DEF G!Malformed, G!IInv, G!StoredAreJoined, G!IsInjective, G!ToSet
  <2>2. ASSUME NEW m \in G!ToSet(stored) PROVE m \notin G!Malformed /\ G!Joined(m, thread[m])'
    <3>1. m \in SyncedMails
      BY <1>1 DEF G!ToSet, G!TypeOK
    <3>2. PICK where : where = thread[m] /\ where = thread'[m]
      OBVIOUS
    <3>3. m \notin G!Malformed /\ G!Joined(m, where)
      BY <3>2 DEF G!IInv, G!StoredAreJoined
    <3>4. G!Joined(m, where)'
      BY <3>1, <3>3, JoinedStays
    <3> QED BY <3>2, <3>3, <3>4
  <2> QED BY <2>1, <2>2 DEF G!StoredAreJoined
<1>6. G!ProcessedIsPrepared'
  BY DEF G!IInv, G!ProcessedIsPrepared, G!IsStored, G!Contains, G!ToSet
<1>7. \A r \in Runs : G!RunFits(run[r])'
  BY DEF G!IInv, G!RunFits
<1> QED BY <1>3, <1>4, <1>5, <1>6, <1>7 DEF G!IInv

\* A sync knows what it is about to do.
LEMMA CurrentIsRead ==
  ASSUME G!ConstantsAreSane, G!IInv, NEW s \in Syncs, sync[s].pc # "idle", sync[s].todo # {}
  PROVE  /\ G!Current(s) \in SyncedMails \ G!Malformed
         /\ sync[s].todo \subseteq SyncedMails \ G!Malformed /\ sync[s].skips \subseteq G!Malformed
<1>1. sync[s].todo \subseteq SyncedMails \ G!Malformed /\ sync[s].skips \subseteq G!Malformed
  BY DEF G!IInv, G!SyncFits
<1>2. sync[s].todo \in SUBSET Nat
  BY <1>1 DEF G!ConstantsAreSane
<1> QED BY <1>1, <1>2, SmallestIn DEF G!Current

\* What a sync goes on with when it is done with a mail.
LEMMA LeavesFits ==
  ASSUME G!IInv, NEW s \in Syncs, sync[s].pc # "idle", UNCHANGED mail, NEW new,
         new = [pc |-> "next", todo |-> sync[s].todo \ {G!Current(s)}, skips |-> sync[s].skips]
  PROVE  G!SyncFits(new)'
<1>1. sync[s].todo \subseteq SyncedMails \ G!Malformed /\ sync[s].skips \subseteq G!Malformed
  BY DEF G!IInv, G!SyncFits
<1>2. G!Malformed' = G!Malformed
  BY DEF G!Malformed
<1>3. new.pc = "next" /\ new.todo \subseteq sync[s].todo /\ new.skips = sync[s].skips
  OBVIOUS
<1> QED BY <1>1, <1>2, <1>3 DEF G!SyncFits

\* A sync reads, gives a mail up, remembers what it skipped, or dies.
LEMMA ReadSteps ==
  ASSUME G!ConstantsAreSane, G!IInv, NEW s \in Syncs,
         G!Fetch(s) \/ G!Fails(s) \/ G!RecordPermanentSkips(s) \/ G!SyncDies(s)
  PROVE  G!IInv'
<1>1. UNCHANGED <<mail, inMailbox, claim, stored, thread, context, work, run>>
  BY DEF G!Fetch, G!Fails, G!RecordPermanentSkips, G!SyncDies, G!server, G!rows
<1>2. ClaimsGoOn /\ G!Malformed' = G!Malformed
  BY <1>1, ClaimsRest DEF G!Malformed
<1>3. skipped \subseteq G!Malformed
  BY DEF G!IInv, G!StoredAreJoined
<1>4. CASE G!Fetch(s)
  <2>1. PICK got \in SUBSET inMailbox :
           sync' = [sync EXCEPT ![s] = [pc |-> "next", todo |-> {m \in got : mail[m].kind # "malformed"},
                                         skips |-> {m \in got : mail[m].kind = "malformed"}]]
    <3>1. \A box \in Boxes : G!Candidates(box) \subseteq inMailbox
      BY DEF G!Candidates
    <3> QED BY <1>4, <3>1 DEF G!Fetch, G!At
  <2>2. got \subseteq SyncedMails
    BY DEF G!IInv, G!TypeOK
  <2>3. PICK new : new = [pc |-> "next", todo |-> {m \in got : mail[m].kind # "malformed"},
                          skips |-> {m \in got : mail[m].kind = "malformed"}]
    OBVIOUS
  <2>4. new.pc = "next" /\ new.todo \subseteq SyncedMails \ G!Malformed /\ new.skips \subseteq G!Malformed
    BY <2>2, <2>3 DEF G!Malformed
  <2>5. G!SyncFits(new)'
    BY <1>2, <2>4 DEF G!SyncFits
  <2>6. sync' = [sync EXCEPT ![s] = new]
    BY <2>1, <2>3
  <2>7. UNCHANGED skipped
    BY <1>4 DEF G!Fetch, G!rows
  <2> QED BY <1>1, <1>2, <1>3, <2>5, <2>6, <2>7, SyncGoesOn
<1>5. CASE G!Fails(s)
  <2>1. PICK new : new = [pc |-> "next", todo |-> sync[s].todo \ {G!Current(s)}, skips |-> sync[s].skips]
    OBVIOUS
  <2>2. sync[s].pc # "idle" /\ sync' = [sync EXCEPT ![s] = new] /\ UNCHANGED skipped
    BY <1>5, <2>1 DEF G!Fails, G!Leaves, G!At, G!rows
  <2>3. G!SyncFits(new)'
    BY <1>1, <2>1, <2>2, LeavesFits
  <2> QED BY <1>1, <1>2, <1>3, <2>2, <2>3, SyncGoesOn
<1>6. CASE G!RecordPermanentSkips(s) \/ G!SyncDies(s)
  <2>1. PICK new : new = [pc |-> "idle"]
    OBVIOUS
  <2>2. sync' = [sync EXCEPT ![s] = new]
    BY <1>6, <2>1 DEF G!RecordPermanentSkips, G!SyncDies, G!At, G!Idle
  <2>3. G!SyncFits(new)'
    BY <2>1 DEF G!SyncFits
  <2>4. skipped' \subseteq G!Malformed
    <3>1. sync[s].pc # "idle" => sync[s].skips \subseteq G!Malformed
      BY DEF G!IInv, G!SyncFits
    <3> QED BY <1>3, <1>6, <3>1 DEF G!RecordPermanentSkips, G!SyncDies, G!rows
  <2> QED BY <1>1, <1>2, <2>2, <2>3, <2>4, SyncGoesOn
<1> QED BY <1>4, <1>5, <1>6

\* The thread a mail joins is resolved: it takes its id, finds the owner, or
\* joins the thread of the id it answers.
LEMMA ThreadResolved ==
  ASSUME G!ConstantsAreSane, G!IInv, NEW s \in Syncs, G!ResolveThread(s)
  PROVE  G!IInv'
<1> DEFINE into(where) == [pc |-> "insert", todo |-> sync[s].todo, skips |-> sync[s].skips, into |-> where]
           contests == [pc |-> "contest", todo |-> sync[s].todo, skips |-> sync[s].skips]
<1>1. /\ sync[s].pc = "next" /\ sync[s].todo # {}
      /\ UNCHANGED <<mail, inMailbox, stored, thread, skipped, context, work, run>>
  BY DEF G!ResolveThread, G!server
<1>2. PICK m \in SyncedMails, i \in Ids : m = G!Min(sync[s].todo) /\ m = G!Current(s) /\ i = mail[m].id /\ i = mail'[m].id
  <2>1. G!Current(s) \in SyncedMails
    BY <1>1, CurrentIsRead
  <2> QED BY <1>1, <2>1 DEF G!IInv, G!TypeOK, G!Current
<1>3. /\ sync[s].todo \subseteq SyncedMails \ G!Malformed /\ sync[s].skips \subseteq G!Malformed
      /\ G!Malformed' = G!Malformed /\ skipped' \subseteq G!Malformed
  BY <1>1, CurrentIsRead DEF G!Malformed, G!IInv, G!StoredAreJoined
<1>4. ASSUME UNCHANGED claim, NEW new, sync' = [sync EXCEPT ![s] = new], G!SyncFits(new)'
      PROVE  G!IInv'
  BY <1>1, <1>3, <1>4, ClaimsRest, SyncGoesOn
<1>5. CASE G!IsStored(m)
  <2>1. PICK new : new = [pc |-> "next", todo |-> sync[s].todo \ {G!Current(s)}, skips |-> sync[s].skips]
    OBVIOUS
  <2>2. sync' = [sync EXCEPT ![s] = new] /\ UNCHANGED claim
    BY <1>2, <1>5, <2>1 DEF G!ResolveThread, G!Leaves, G!At
  <2>3. G!SyncFits(new)'
    BY <1>1, <2>1, LeavesFits
  <2> QED BY <1>4, <2>2, <2>3
<1>6. CASE ~G!IsStored(m) /\ ~G!Opens(m)
  <2>1. PICK where : /\ where \in {"own", i} /\ UNCHANGED claim
                     /\ sync' = [sync EXCEPT ![s] = into(where)]
    BY <1>2, <1>6 DEF G!ResolveThread, G!Into, G!At
  <2>2. PICK new : new = into(where)
    OBVIOUS
  <2>3. new.pc = "insert" /\ new.todo = sync[s].todo /\ new.skips = sync[s].skips /\ new.into = where
    BY <2>2
  <2>4. G!Joined(m, where)'
    BY <1>1, <1>2, <1>6, <2>1 DEF G!Joined, G!Opens
  <2>5. G!SyncFits(new)'
    BY <1>1, <1>2, <1>3, <2>3, <2>4 DEF G!SyncFits
  <2> HIDE DEF into
  <2> QED BY <1>4, <2>1, <2>2, <2>5
<1>7. CASE ~G!IsStored(m) /\ G!Opens(m)
  <2>1. /\ claim' = IF claim[i].owner = Nobody THEN [claim EXCEPT ![i].owner = m] ELSE claim
        /\ sync' = [sync EXCEPT ![s] = IF claim'[i].owner = m THEN into(i) ELSE contests]
    BY <1>2, <1>7 DEF G!ResolveThread, G!Into, G!Contests, G!At, G!Opens, G!Answers, G!ClaimId, G!OwnsId
  <2>2. claim \in [Ids -> [owner : SyncedMails \cup {Nobody}, contested : BOOLEAN]] /\ Nobody # m
    BY DEF G!IInv, G!TypeOK, G!ConstantsAreSane
  <2>3. /\ claim'[i].owner = IF claim[i].owner = Nobody THEN m ELSE claim[i].owner
        /\ claim'[i].owner # Nobody
        /\ \A q \in Ids : q # i => claim'[q] = claim[q]
        /\ claim'[i].contested = claim[i].contested
    BY <2>1, <2>2
  <2>4. ClaimsGoOn
    <3>1. claim' \in [Ids -> [owner : SyncedMails \cup {Nobody}, contested : BOOLEAN]]
      BY <2>1, <2>2
    <3>2. ASSUME NEW q \in Ids
          PROVE  /\ claim[q].owner # Nobody => claim'[q].owner = claim[q].owner
                 /\ claim[q].contested => claim'[q].contested
      <4>1. claim'[q].contested = claim[q].contested
        BY <2>3
      <4>2. claim[q].owner # Nobody => claim'[q].owner = claim[q].owner
        BY <2>3
      <4> QED BY <4>1, <4>2
    <3> QED BY <3>1, <3>2 DEF ClaimsGoOn
  <2>5. G!Opens(m)'
    BY <1>1, <1>7 DEF G!Opens
  <2>6. CASE claim'[i].owner = m
    <3>1. PICK new : new = into(i)
      OBVIOUS
    <3>2. new.pc = "insert" /\ new.todo = sync[s].todo /\ new.skips = sync[s].skips /\ new.into = i
      BY <3>1
    <3>3. sync' = [sync EXCEPT ![s] = new]
      BY <2>1, <2>6, <3>1
    <3>4. G!Joined(m, i)'
      BY <1>2, <2>3, <2>6 DEF G!Joined
    <3>5. G!SyncFits(new)'
      BY <1>1, <1>2, <1>3, <3>2, <3>4 DEF G!SyncFits
    <3> QED BY <1>1, <1>3, <2>4, <3>3, <3>5, SyncGoesOn
  <2>7. CASE claim'[i].owner # m
    <3>1. PICK new : new = contests
      OBVIOUS
    <3>2. new.pc = "contest" /\ new.todo = sync[s].todo /\ new.skips = sync[s].skips
      BY <3>1
    <3>3. sync' = [sync EXCEPT ![s] = new]
      BY <2>1, <2>7, <3>1
    <3>4. G!SyncFits(new)'
      BY <1>1, <1>2, <1>3, <2>3, <2>5, <2>7, <3>2 DEF G!SyncFits
    <3> QED BY <1>1, <1>3, <2>4, <3>3, <3>4, SyncGoesOn
  <2> QED BY <2>6, <2>7
<1> QED BY <1>5, <1>6, <1>7

\* A second mail that opens a conversation says that the id is contested.
LEMMA ClaimContested ==
  ASSUME G!ConstantsAreSane, G!IInv, NEW s \in Syncs, G!MarkClaimContested(s)
  PROVE  G!IInv'
<1>1. /\ sync[s].pc = "contest" /\ UNCHANGED <<mail, inMailbox, stored, thread, skipped, context, work, run>>
      /\ claim' = [claim EXCEPT ![mail[G!Current(s)].id].contested = TRUE]
      /\ sync' = [sync EXCEPT ![s] = [pc |-> "insert", todo |-> sync[s].todo, skips |-> sync[s].skips, into |-> "own"]]
  BY DEF G!MarkClaimContested, G!server, G!Into, G!At
<1>2. G!SyncFits(sync[s])
  BY DEF G!IInv
<1>3. sync[s].todo # {}
  BY <1>1, <1>2 DEF G!SyncFits
<1>4. PICK m \in SyncedMails, i \in Ids : m = G!Min(sync[s].todo) /\ m = G!Current(s) /\ i = mail[m].id /\ i = mail'[m].id
  <2>1. G!Current(s) \in SyncedMails
    BY <1>1, <1>3, CurrentIsRead
  <2> QED BY <1>1, <2>1 DEF G!IInv, G!TypeOK, G!Current
<1>5. G!Opens(m) /\ claim[i].owner \notin {m, Nobody}
  BY <1>1, <1>2, <1>4 DEF G!SyncFits
<1>6. claim \in [Ids -> [owner : SyncedMails \cup {Nobody}, contested : BOOLEAN]] /\ claim' = [claim EXCEPT ![i].contested = TRUE]
  BY <1>1, <1>4 DEF G!IInv, G!TypeOK
<1>7. ClaimsGoOn
  <2>1. claim' \in [Ids -> [owner : SyncedMails \cup {Nobody}, contested : BOOLEAN]]
    BY <1>6
  <2>2. ASSUME NEW q \in Ids
        PROVE  /\ claim[q].owner # Nobody => claim'[q].owner = claim[q].owner
               /\ claim[q].contested => claim'[q].contested
    <3>1. claim'[q].owner = claim[q].owner
      BY <1>6
    <3>2. CASE q = i
      <4>1. claim'[q].contested = TRUE
        BY <1>6, <3>2
      <4> QED BY <3>1, <4>1
    <3>3. CASE q # i
      <4>1. claim'[q] = claim[q]
        BY <1>6, <3>3
      <4> QED BY <4>1
    <3> QED BY <3>2, <3>3
  <2> QED BY <2>1, <2>2 DEF ClaimsGoOn
<1>8. G!Joined(m, "own")'
  <2>1. claim'[i].owner = claim[i].owner /\ claim'[i].contested = TRUE
    BY <1>6
  <2>2. i # "own"
    BY DEF G!ConstantsAreSane
  <2> QED BY <1>4, <1>5, <2>1, <2>2 DEF G!Joined
<1>9. PICK new : new = [pc |-> "insert", todo |-> sync[s].todo, skips |-> sync[s].skips, into |-> "own"]
  OBVIOUS
<1>10. G!SyncFits(new)'
  <2>1. new.pc = "insert" /\ new.todo = sync[s].todo /\ new.skips = sync[s].skips /\ new.into = "own"
    BY <1>9
  <2>2. sync[s].todo \subseteq SyncedMails \ G!Malformed /\ sync[s].skips \subseteq G!Malformed /\ G!Malformed' = G!Malformed
    BY <1>1, <1>3, CurrentIsRead DEF G!Malformed
  <2> QED BY <1>1, <1>3, <1>4, <1>8, <2>1, <2>2 DEF G!SyncFits
<1>11. skipped' \subseteq G!Malformed
  BY <1>1 DEF G!IInv, G!StoredAreJoined
<1>12. sync' = [sync EXCEPT ![s] = new]
  BY <1>1, <1>9
<1> QED BY <1>1, <1>7, <1>10, <1>11, <1>12, SyncGoesOn

\* A mail is stored once, in the thread its sync resolved.
LEMMA MailStored ==
  ASSUME G!ConstantsAreSane, G!IInv, NEW s \in Syncs, G!UpsertMessage(s)
  PROVE  G!IInv'
<1>1. /\ sync[s].pc = "insert" /\ UNCHANGED <<mail, inMailbox, claim, skipped, context, work, run>>
      /\ sync' = [sync EXCEPT ![s] = [pc |-> "next", todo |-> sync[s].todo \ {G!Current(s)}, skips |-> sync[s].skips]]
  BY DEF G!UpsertMessage, G!server, G!Leaves, G!At
<1>2. G!SyncFits(sync[s])
  BY DEF G!IInv
<1>3. sync[s].todo # {}
  BY <1>1, <1>2 DEF G!SyncFits
<1>4. PICK m \in SyncedMails : m = G!Current(s) /\ m = G!Min(sync[s].todo) /\ m \notin G!Malformed
  <2>1. G!Current(s) \in SyncedMails \ G!Malformed
    BY <1>1, <1>3, CurrentIsRead
  <2> QED BY <2>1 DEF G!Current
<1>5. PICK new : new = [pc |-> "next", todo |-> sync[s].todo \ {G!Current(s)}, skips |-> sync[s].skips]
  OBVIOUS
<1>6. G!SyncFits(new)' /\ sync' = [sync EXCEPT ![s] = new]
  BY <1>1, <1>5, LeavesFits
<1>7. ClaimsGoOn /\ skipped' \subseteq G!Malformed /\ G!Malformed' = G!Malformed
  BY <1>1, ClaimsRest DEF G!IInv, G!StoredAreJoined, G!Malformed
<1>8. CASE G!IsStored(m)
  <2>1. UNCHANGED <<stored, thread>>
    BY <1>4, <1>8 DEF G!UpsertMessage
  <2> QED BY <1>1, <1>6, <1>7, <2>1, SyncGoesOn
<1>9. CASE ~G!IsStored(m)
  <2>1. PICK where : /\ where = sync[s].into
                     /\ stored' = Append(stored, m) /\ thread' = [thread EXCEPT ![m] = where]
    BY <1>4, <1>9 DEF G!UpsertMessage
  <2>2. G!Joined(m, where)
    BY <1>1, <1>2, <1>4, <2>1 DEF G!SyncFits
  <2>3. stored \in Seq(SyncedMails) /\ Len(stored) \in Nat /\ DOMAIN stored = 1..Len(stored) /\ G!TypeOK
    BY DEF G!IInv, G!TypeOK
  <2>4. /\ stored' \in Seq(SyncedMails) /\ Len(stored') = Len(stored) + 1
        /\ \A k \in 1..Len(stored) : stored'[k] = stored[k]
        /\ stored'[Len(stored) + 1] = m /\ DOMAIN stored' = 1..(Len(stored) + 1)
    BY <2>1, <2>3
  <2>5. RowsGrow /\ WorkGoesOn
    BY <1>1, <2>3, <2>4 DEF RowsGrow, WorkGoesOn
  <2>6. G!ToSet(stored)' = G!ToSet(stored) \cup {m}
    <3>1. \A k \in 1..(Len(stored) + 1) : k \in 1..Len(stored) \/ k = Len(stored) + 1
      BY <2>3
    <3>2. 1..Len(stored) \subseteq 1..(Len(stored) + 1) /\ Len(stored) + 1 \in 1..(Len(stored) + 1)
      BY <2>3
    <3> QED BY <2>3, <2>4, <3>1, <3>2 DEF G!ToSet
  <2>7. m \notin G!ToSet(stored)
    BY <1>9 DEF G!IsStored, G!Contains, G!ToSet
  <2>8. thread' = [q \in SyncedMails |-> thread'[q]] /\ thread'[m] = where /\ \A q \in SyncedMails : q # m => thread'[q] = thread[q]
    <3>1. thread = [q \in SyncedMails |-> thread[q]]
      BY <2>3 DEF G!TypeOK
    <3> QED BY <2>1, <3>1
  <2>9. sync = [q \in Syncs |-> sync[q]]
    BY <2>3 DEF G!TypeOK
  <2>10. sync' = [q \in Syncs |-> sync'[q]] /\ \A q \in Syncs : sync'[q] = IF q = s THEN new ELSE sync[q]
    BY <1>6, <2>9
  <2>11. G!TypeOK'
    BY <1>1, <2>3, <2>4, <2>8, <2>10 DEF G!TypeOK
  <2>12. ASSUME NEW q \in Syncs PROVE G!SyncFits(sync[q])'
    <3>1. PICK reading : reading = sync'[q]
      OBVIOUS
    <3>2. CASE q = s
      BY <1>6, <2>10, <3>2
    <3>3. CASE q # s
      <4>1. reading = sync[q]
        BY <2>10, <3>1, <3>3
      <4>2. G!SyncFits(reading)
        BY <4>1 DEF G!IInv
      <4>3. G!SyncFits(reading)'
        BY <1>1, <1>7, <4>2, SyncStays
      <4> QED BY <3>1, <4>3
    <3> QED BY <3>2, <3>3
  <2>13. ASSUME NEW r \in Runs PROVE G!RunFits(run[r])'
    <3>1. PICK turn : turn = run[r] /\ turn = run'[r]
      BY <1>1
    <3>2. G!RunFits(turn)
      BY <3>1 DEF G!IInv
    <3>3. G!RunFits(turn)'
      BY <1>1, <2>5, <3>2, RunStays
    <3> QED BY <3>1, <3>3
  <2>14. G!StoredAreJoined'
    <3>1. G!IsInjective(stored)'
      <4>1. \A a, b \in DOMAIN stored : stored[a] = stored[b] => a = b
        BY DEF G!IInv, G!StoredAreJoined, G!IsInjective
      <4>2. \A k \in 1..Len(stored) : stored[k] # m
        BY <2>3, <2>7 DEF G!ToSet
      <4>3. \A a, b \in 1..(Len(stored) + 1) : stored'[a] = stored'[b] => a = b
        <5> SUFFICES ASSUME NEW a \in 1..(Len(stored) + 1), NEW b \in 1..(Len(stored) + 1), stored'[a] = stored'[b]
                     PROVE  a = b
          OBVIOUS
        <5>1. (a \in 1..Len(stored) \/ a = Len(stored) + 1) /\ (b \in 1..Len(stored) \/ b = Len(stored) + 1)
          BY <2>3
        <5> QED BY <2>3, <2>4, <4>1, <4>2, <5>1
      <4> QED BY <2>4, <4>3 DEF G!IsInjective
    <3>2. ASSUME NEW q \in G!ToSet(stored)' PROVE q \notin G!Malformed /\ G!Joined(q, thread[q])'
      <4>1. CASE q = m
        <5>1. G!Joined(m, where)'
          BY <1>1, <1>7, <2>2, JoinedStays
        <5> QED BY <1>4, <2>8, <4>1, <5>1
      <4>2. CASE q # m
        <5>1. q \in G!ToSet(stored) /\ q \in SyncedMails
          <6>1. q \in G!ToSet(stored)
            BY <2>6, <4>2
          <6>2. \E k \in 1..Len(stored) : q = stored[k]
            BY <2>3, <6>1 DEF G!ToSet
          <6> QED BY <2>3, <6>1, <6>2
        <5>2. PICK old : old = thread[q] /\ old = thread'[q]
          BY <2>8, <4>2, <5>1
        <5>3. q \notin G!Malformed /\ G!Joined(q, old)
          BY <5>1, <5>2 DEF G!IInv, G!StoredAreJoined
        <5>4. G!Joined(q, old)'
          BY <1>1, <1>7, <5>1, <5>3, JoinedStays
        <5> QED BY <5>2, <5>3, <5>4
      <4> QED BY <4>1, <4>2
    <3> QED BY <1>7, <3>1, <3>2 DEF G!StoredAreJoined
  <2>15. G!ProcessedIsPrepared'
    <3>1. 1..Len(stored) \subseteq 1..Len(stored')
      BY <2>3, <2>4
    <3>2. ASSUME NEW q \in SyncedMails, G!IsStored(q) PROVE G!IsStored(q)'
      <4>1. PICK k \in 1..Len(stored) : stored[k] = q
        BY <3>2 DEF G!IsStored, G!Contains
      <4>2. k \in 1..Len(stored') /\ stored'[k] = q
        BY <2>4, <3>1, <4>1
      <4> QED BY <4>2 DEF G!IsStored, G!Contains
    <3> QED BY <1>1, <3>2 DEF G!IInv, G!ProcessedIsPrepared
  <2> QED BY <2>11, <2>12, <2>13, <2>14, <2>15 DEF G!IInv
<1> QED BY <1>8, <1>9

\* Mails arrive, and what an analysis would see changes.
LEMMA OutsideMailSteps ==
  ASSUME G!IInv, G!Arrive \/ G!ContextChanges
  PROVE  G!IInv'
<1>1. UNCHANGED <<mail, claim, stored, thread, skipped, sync, work, run>>
  BY DEF G!Arrive, G!ContextChanges, G!server, G!rows
<1>2. inMailbox' \subseteq SyncedMails /\ context' \in [SyncedMails -> Contexts]
  BY DEF G!IInv, G!TypeOK, G!Arrive, G!ContextChanges, G!server
<1>3. G!TypeOK'
  BY <1>1, <1>2 DEF G!IInv, G!TypeOK
<1>4. G!StoredAreJoined'
  BY <1>1 DEF G!IInv, G!StoredAreJoined, G!Malformed, G!Joined, G!Opens, G!IsInjective, G!ToSet
<1>5. G!ProcessedIsPrepared'
  BY <1>1 DEF G!IInv, G!ProcessedIsPrepared, G!IsStored, G!Contains
<1>6. \A s \in Syncs : G!SyncFits(sync[s])'
  BY <1>1 DEF G!IInv, G!SyncFits, G!Malformed, G!Joined, G!Opens
<1>7. \A r \in Runs : G!RunFits(run[r])'
  BY <1>1 DEF G!IInv, G!RunFits
<1> QED BY <1>3, <1>4, <1>5, <1>6, <1>7 DEF G!IInv

\* A run goes on; what was prepared for a mail is kept.
LEMMA RunGoesOn ==
  ASSUME G!ConstantsAreSane, G!IInv, NEW r \in Runs, NEW new, run' = [run EXCEPT ![r] = new],
         G!RunFits(new)', G!TypeOK', G!ProcessedIsPrepared', WorkGoesOn,
         UNCHANGED <<mail, claim, stored, thread, skipped, sync>>
  PROVE  G!IInv'
<1>1. run = [q \in Runs |-> run[q]] /\ stored \in Seq(SyncedMails)
  BY DEF G!IInv, G!TypeOK
<1>2. \A q \in Runs : run'[q] = IF q = r THEN new ELSE run[q]
  BY <1>1
<1>3. RowsGrow
  BY <1>1 DEF RowsGrow
<1>4. ASSUME NEW q \in Runs PROVE G!RunFits(run[q])'
  <2>1. CASE q = r
    BY <1>2, <2>1
  <2>2. CASE q # r
    <3>1. PICK turn : turn = run[q] /\ turn = run'[q]
      BY <1>2, <2>2
    <3>2. G!RunFits(turn)
      BY <3>1 DEF G!IInv
    <3>3. G!RunFits(turn)'
      BY <1>3, <3>2, RunStays
    <3> QED BY <3>1, <3>3
  <2> QED BY <2>1, <2>2
<1>5. G!StoredAreJoined'
  BY DEF G!IInv, G!StoredAreJoined, G!Malformed, G!Joined, G!Opens, G!IsInjective, G!ToSet
<1>6. \A s \in Syncs : G!SyncFits(sync[s])'
  BY DEF G!IInv, G!SyncFits, G!Malformed, G!Joined, G!Opens
<1> QED BY <1>4, <1>5, <1>6 DEF G!IInv

\* A run handles a stored mail.
LEMMA HandledIsStored ==
  ASSUME G!ConstantsAreSane, G!IInv, NEW r \in Runs, run[r].pc # "idle"
  PROVE  /\ run[r].todo \subseteq DOMAIN stored /\ run[r].todo # {} /\ run[r].todo \in SUBSET Nat
         /\ G!Row(r) \in 1..Len(stored) /\ G!Handled(r) \in SyncedMails /\ G!IsStored(G!Handled(r))
<1>1. run[r].todo \subseteq DOMAIN stored /\ run[r].todo # {}
  BY DEF G!IInv, G!RunFits
<1>2. stored \in Seq(SyncedMails) /\ Len(stored) \in Nat /\ DOMAIN stored = 1..Len(stored)
  BY DEF G!IInv, G!TypeOK
<1>3. run[r].todo \in SUBSET Nat
  BY <1>1, <1>2
<1>4. G!Row(r) \in 1..Len(stored)
  BY <1>1, <1>2, <1>3, SmallestIn DEF G!Row
<1>5. G!Handled(r) \in SyncedMails
  BY <1>2, <1>4 DEF G!Handled
<1>6. G!IsStored(G!Handled(r))
  BY <1>4 DEF G!Handled, G!IsStored, G!Contains
<1> QED BY <1>1, <1>3, <1>4, <1>5, <1>6

\* A run that only goes on, and prepares nothing, disturbs nothing.
LEMMA RunTurns ==
  ASSUME G!ConstantsAreSane, G!IInv, NEW r \in Runs, NEW new, run' = [run EXCEPT ![r] = new],
         G!RunFits(new)', UNCHANGED <<mail, inMailbox, claim, stored, thread, skipped, sync, context, work>>
  PROVE  G!IInv'
<1>1. run' = [q \in Runs |-> run'[q]]
  BY DEF G!IInv, G!TypeOK
<1>2. G!TypeOK'
  BY <1>1 DEF G!IInv, G!TypeOK
<1>3. G!ProcessedIsPrepared'
  BY DEF G!IInv, G!ProcessedIsPrepared, G!IsStored, G!Contains
<1>4. WorkGoesOn
  BY DEF WorkGoesOn
<1> QED BY <1>2, <1>3, <1>4, RunGoesOn

\* A run begins, reads what an analysis would see, or stops.
LEMMA TurnSteps ==
  ASSUME G!ConstantsAreSane, G!IInv, NEW r \in Runs,
         G!ListUnprocessed(r) \/ G!ReadContext(r) \/ G!RunStops(r)
  PROVE  G!IInv'
<1>1. UNCHANGED <<mail, inMailbox, claim, stored, thread, skipped, sync, context, work>>
  BY DEF G!ListUnprocessed, G!ReadContext, G!RunStops, G!server, G!rows
<1>2. CASE G!ListUnprocessed(r)
  <2>1. PICK new : new = [pc |-> "read", todo |-> G!Oldest]
    OBVIOUS
  <2>2. G!Oldest \subseteq DOMAIN stored /\ G!Oldest # {} /\ run' = [run EXCEPT ![r] = new]
    BY <1>2, <2>1 DEF G!ListUnprocessed, G!RunAt, G!Oldest, G!Unprocessed
  <2>3. new.pc = "read" /\ new.todo \subseteq DOMAIN stored' /\ new.todo # {}
    BY <1>1, <2>1, <2>2
  <2>4. G!RunFits(new)'
    BY <2>3 DEF G!RunFits
  <2> QED BY <1>1, <2>2, <2>4, RunTurns
<1>3. CASE G!ReadContext(r)
  <2>1. PICK new : new = [pc |-> "analyze", todo |-> run[r].todo, sees |-> context[G!Handled(r)]]
    OBVIOUS
  <2>2. run[r].pc = "read" /\ run' = [run EXCEPT ![r] = new]
    BY <1>3, <2>1 DEF G!ReadContext, G!RunAt
  <2>3. context[G!Handled(r)] \in Contexts
    BY <2>2, HandledIsStored DEF G!IInv, G!TypeOK
  <2>4. new.pc = "analyze" /\ new.todo \subseteq DOMAIN stored' /\ new.todo # {} /\ new.sees \in Contexts
    BY <1>1, <2>1, <2>2, <2>3, HandledIsStored
  <2>5. G!RunFits(new)'
    BY <2>4 DEF G!RunFits
  <2> QED BY <1>1, <2>2, <2>5, RunTurns
<1>4. CASE G!RunStops(r)
  <2>1. PICK new : new = [pc |-> "idle"]
    OBVIOUS
  <2>2. run' = [run EXCEPT ![r] = new]
    BY <1>4, <2>1 DEF G!RunStops, G!RunAt, G!Idle
  <2>3. G!RunFits(new)'
    BY <2>1 DEF G!RunFits
  <2> QED BY <1>1, <2>2, <2>3, RunTurns
<1> QED BY <1>2, <1>3, <1>4

\* What is prepared for one mail leaves the other mails alone.
LEMMA WorkOnOne ==
  ASSUME G!IInv, NEW m \in SyncedMails, NEW done, work' = [work EXCEPT ![m] = done],
         done = [analyses |-> done.analyses, drafts |-> done.drafts, processed |-> done.processed],
         done.analyses \in Seq(Contexts), G!IsStored(m),
         done.processed => done.analyses # <<>> /\ (mail[m].box = "INBOX" => done.drafts # {}),
         done.drafts \subseteq G!ToSet(done.analyses),
         work[m].analyses # <<>> => done.analyses # <<>>, work[m].drafts # {} => done.drafts # {},
         UNCHANGED <<mail, inMailbox, claim, stored, thread, skipped, sync, context>>,
         run' = [q \in Runs |-> run'[q]]
  PROVE  G!TypeOK' /\ G!ProcessedIsPrepared' /\ WorkGoesOn
<1>1. work = [q \in SyncedMails |-> work[q]] /\ G!TypeOK
  BY DEF G!IInv, G!TypeOK
<1>2. work' = [q \in SyncedMails |-> work'[q]] /\ work'[m] = done /\ \A q \in SyncedMails : q # m => work'[q] = work[q]
  BY <1>1
<1>3. ASSUME NEW q \in SyncedMails
      PROVE  /\ work'[q] = [analyses |-> work'[q].analyses, drafts |-> work'[q].drafts, processed |-> work'[q].processed]
             /\ work'[q].analyses \in Seq(Contexts)
  <2>1. CASE q = m
    BY <1>2, <2>1
  <2>2. CASE q # m
    <3>1. work'[q] = work[q]
      BY <1>2, <2>2
    <3> QED BY <1>1, <3>1 DEF G!TypeOK
  <2> QED BY <2>1, <2>2
<1>4. G!TypeOK'
  BY <1>1, <1>2, <1>3 DEF G!TypeOK
<1>5. ASSUME NEW q \in SyncedMails
      PROVE  /\ work'[q].processed => work'[q].analyses # <<>> /\ (mail'[q].box = "INBOX" => work'[q].drafts # {})
             /\ work'[q].drafts \subseteq G!ToSet(work'[q].analyses)
             /\ work'[q].analyses # <<>> => G!IsStored(q)'
  <2>1. G!IsStored(q)' <=> G!IsStored(q)
    BY DEF G!IsStored, G!Contains
  <2>2. CASE q = m
    <3>1. work'[q] = done
      BY <1>2, <2>2
    <3> QED BY <2>1, <2>2, <3>1
  <2>3. CASE q # m
    <3>1. work'[q] = work[q]
      BY <1>2, <2>3
    <3>2. /\ work[q].processed => work[q].analyses # <<>> /\ (mail[q].box = "INBOX" => work[q].drafts # {})
          /\ work[q].drafts \subseteq G!ToSet(work[q].analyses)
          /\ work[q].analyses # <<>> => G!IsStored(q)
      BY DEF G!IInv, G!ProcessedIsPrepared
    <3> QED BY <2>1, <3>1, <3>2
  <2> QED BY <2>2, <2>3
<1>6. G!ProcessedIsPrepared'
  <2>1. \A q \in SyncedMails : G!ToSet(work'[q].analyses) = G!ToSet(work[q].analyses)'
    BY DEF G!ToSet
  <2> QED BY <1>5, <2>1 DEF G!ProcessedIsPrepared
<1>7. WorkGoesOn
  <2>1. ASSUME NEW q \in SyncedMails
        PROVE  /\ work[q].analyses # <<>> => work'[q].analyses # <<>>
               /\ work[q].drafts # {} => work'[q].drafts # {}
    <3>1. CASE q = m
      BY <1>2, <3>1
    <3>2. CASE q # m
      BY <1>2, <3>2
    <3> QED BY <3>1, <3>2
  <2> QED BY <2>1 DEF WorkGoesOn
<1> QED BY <1>4, <1>6, <1>7

\* A run analyses a mail, drafts the answer it calls for, and only then marks it.
LEMMA PreparingSteps ==
  ASSUME G!ConstantsAreSane, G!IInv, NEW r \in Runs,
         G!AnalyzeMessage(r) \/ G!GenerateDraft(r) \/ G!MarkProcessed(r)
  PROVE  G!IInv'
<1>1. UNCHANGED <<mail, inMailbox, claim, stored, thread, skipped, sync, context>> /\ run[r].pc # "idle"
  BY DEF G!AnalyzeMessage, G!GenerateDraft, G!MarkProcessed, G!server, G!rows
<1>2. PICK k \in 1..Len(stored), m \in SyncedMails :
         /\ k = G!Row(r) /\ m = G!Handled(r) /\ m = stored[k] /\ m = stored'[k]
         /\ k = G!Min(run[r].todo) /\ G!IsStored(m)
  <2>1. G!Row(r) \in 1..Len(stored) /\ G!Handled(r) \in SyncedMails /\ G!IsStored(G!Handled(r))
    BY <1>1, HandledIsStored
  <2>2. G!Handled(r) = stored[G!Row(r)] /\ G!Row(r) = G!Min(run[r].todo) /\ stored' = stored
    BY <1>1 DEF G!Handled, G!Row
  <2> QED BY <2>1, <2>2
<1>3. run[r].todo \subseteq DOMAIN stored' /\ run[r].todo # {}
  BY <1>1, HandledIsStored
<1>4. G!RunFits(run[r])
  BY DEF G!IInv
<1>5. /\ work[m] = [analyses |-> work[m].analyses, drafts |-> work[m].drafts, processed |-> work[m].processed]
      /\ work[m].analyses \in Seq(Contexts) /\ work = [q \in SyncedMails |-> work[q]]
  BY DEF G!IInv, G!TypeOK
<1>6. /\ work[m].processed => work[m].analyses # <<>> /\ (mail[m].box = "INBOX" => work[m].drafts # {})
      /\ work[m].drafts \subseteq G!ToSet(work[m].analyses)
  BY DEF G!IInv, G!ProcessedIsPrepared
<1>7. run = [q \in Runs |-> run[q]]
  BY DEF G!IInv, G!TypeOK
<1>8. CASE G!AnalyzeMessage(r)
  <2>1. PICK new : new = [pc |-> IF mail[m].box = "INBOX" THEN "draft" ELSE "mark", todo |-> run[r].todo]
    OBVIOUS
  <2>2. /\ run[r].pc = "analyze" /\ work' = G!GetOrCreateAnalysis(m, run[r].sees)
        /\ run' = [run EXCEPT ![r] = new]
    BY <1>2, <1>8, <2>1 DEF G!AnalyzeMessage, G!RunAt
  <2>3. PICK sees \in Contexts : sees = run[r].sees
    BY <1>4, <2>2 DEF G!RunFits
  <2>4. PICK analyses \in Seq(Contexts) :
           /\ analyses # <<>> /\ G!ToSet(work[m].analyses) \subseteq G!ToSet(analyses)
           /\ work' = [work EXCEPT ![m].analyses = analyses]
    <3>1. CASE G!Contains(work[m].analyses, sees)
      <4>1. work' = work /\ work[m].analyses # <<>>
        BY <1>5, <2>2, <2>3, <3>1 DEF G!GetOrCreateAnalysis, G!Contains
      <4>2. work = [work EXCEPT ![m].analyses = work[m].analyses]
        BY <1>5
      <4> QED BY <1>5, <4>1, <4>2
    <3>2. CASE ~G!Contains(work[m].analyses, sees)
      <4>1. PICK analyses : analyses = Append(work[m].analyses, sees)
        OBVIOUS
      <4>2. work' = [work EXCEPT ![m].analyses = analyses]
        BY <2>2, <2>3, <3>2, <4>1 DEF G!GetOrCreateAnalysis
      <4>3. analyses \in Seq(Contexts) /\ analyses # <<>>
        BY <1>5, <4>1
      <4>4. G!ToSet(work[m].analyses) \subseteq G!ToSet(analyses)
        <5>1. ASSUME NEW q \in DOMAIN work[m].analyses
              PROVE  q \in DOMAIN analyses /\ analyses[q] = work[m].analyses[q]
          BY <1>5, <4>1
        <5> QED BY <5>1 DEF G!ToSet
      <4> QED BY <4>2, <4>3, <4>4
    <3> QED BY <3>1, <3>2
  <2>5. PICK done : done = [analyses |-> analyses, drafts |-> work[m].drafts, processed |-> work[m].processed]
    OBVIOUS
  <2>6. done.analyses = analyses /\ done.drafts = work[m].drafts
        /\ done = [analyses |-> done.analyses, drafts |-> done.drafts, processed |-> done.processed]
    BY <2>5
  <2>7. work' = [work EXCEPT ![m] = done]
    <3>1. done = [work[m] EXCEPT !.analyses = analyses]
      BY <1>5, <2>5
    <3>2. PICK f : f = work[m]
      OBVIOUS
    <3>3. work' = [work EXCEPT ![m] = [f EXCEPT !.analyses = analyses]]
      BY <2>4, <3>2
    <3> QED BY <3>1, <3>2, <3>3
  <2>8. done.processed => done.analyses # <<>> /\ (mail[m].box = "INBOX" => done.drafts # {})
    BY <1>6, <2>4, <2>5
  <2>9. done.drafts \subseteq G!ToSet(done.analyses)
    BY <1>6, <2>4, <2>6
  <2>10. run' = [q \in Runs |-> run'[q]]
    BY <1>7, <2>2
  <2>11. G!TypeOK' /\ G!ProcessedIsPrepared' /\ WorkGoesOn
    <3>1. done.analyses \in Seq(Contexts) /\ done.analyses # <<>>
      BY <2>4, <2>6
    <3> QED BY <1>1, <1>2, <2>6, <2>7, <2>8, <2>9, <2>10, <3>1, WorkOnOne
  <2>12. work'[m].analyses # <<>> /\ mail'[m].box = mail[m].box
    BY <1>1, <1>5, <2>4, <2>6, <2>7
  <2>13. /\ new.pc = IF mail[m].box = "INBOX" THEN "draft" ELSE "mark"
         /\ new.todo = run[r].todo
    BY <2>1
  <2>14. G!RunFits(new)'
    BY <1>2, <1>3, <2>12, <2>13 DEF G!RunFits
  <2> QED BY <1>1, <2>2, <2>11, <2>14, RunGoesOn
<1>9. CASE G!GenerateDraft(r)
  <2>1. PICK new : new = [pc |-> "mark", todo |-> run[r].todo]
    OBVIOUS
  <2>2. /\ run[r].pc = "draft" /\ run' = [run EXCEPT ![r] = new]
        /\ work' = [work EXCEPT ![m].drafts = @ \cup {G!Last(work[m].analyses)}]
    BY <1>2, <1>9, <2>1 DEF G!GenerateDraft, G!RunAt
  <2>3. work[m].analyses # <<>>
    BY <1>2, <1>4, <2>2 DEF G!RunFits
  <2>4. PICK drafts : drafts = work[m].drafts \cup {G!Last(work[m].analyses)}
    OBVIOUS
  <2>5. PICK done : done = [analyses |-> work[m].analyses, drafts |-> drafts, processed |-> work[m].processed]
    OBVIOUS
  <2>6. done.analyses = work[m].analyses /\ done.drafts = drafts
        /\ done = [analyses |-> done.analyses, drafts |-> done.drafts, processed |-> done.processed]
    BY <2>5
  <2>7. work' = [work EXCEPT ![m] = done]
    <3>1. done = [work[m] EXCEPT !.drafts = drafts]
      BY <1>5, <2>5
    <3>2. work' = [work EXCEPT ![m] = [work[m] EXCEPT !.drafts = drafts]]
      BY <2>2, <2>4
    <3> QED BY <3>1, <3>2
  <2>8. drafts \subseteq G!ToSet(work[m].analyses) /\ drafts # {}
    <3>1. Len(work[m].analyses) \in DOMAIN work[m].analyses
      BY <1>5, <2>3
    <3>2. G!Last(work[m].analyses) \in G!ToSet(work[m].analyses)
      BY <3>1 DEF G!Last, G!ToSet
    <3> QED BY <1>6, <2>4, <3>2
  <2>9. done.processed => done.analyses # <<>> /\ (mail[m].box = "INBOX" => done.drafts # {})
    BY <2>3, <2>6, <2>8
  <2>10. run' = [q \in Runs |-> run'[q]]
    BY <1>7, <2>2
  <2>11. G!TypeOK' /\ G!ProcessedIsPrepared' /\ WorkGoesOn
    <3>1. done.analyses \in Seq(Contexts) /\ done.drafts \subseteq G!ToSet(done.analyses) /\ done.drafts # {}
      BY <1>5, <2>6, <2>8
    <3> QED BY <1>1, <1>2, <2>3, <2>6, <2>7, <2>9, <2>10, <3>1, WorkOnOne
  <2>12. work'[m].analyses # <<>> /\ work'[m].drafts # {}
    BY <1>5, <2>3, <2>6, <2>7, <2>8
  <2>13. new.pc = "mark" /\ new.todo = run[r].todo
    BY <2>1
  <2>14. G!RunFits(new)'
    BY <1>2, <1>3, <2>12, <2>13 DEF G!RunFits
  <2> QED BY <1>1, <2>2, <2>11, <2>14, RunGoesOn
<1>10. CASE G!MarkProcessed(r)
  <2>1. PICK rest : rest = run[r].todo \ {k}
    OBVIOUS
  <2>2. PICK new : new = IF work[m].processed \/ rest = {} THEN [pc |-> "idle"] ELSE [pc |-> "read", todo |-> rest]
    OBVIOUS
  <2>3. /\ run[r].pc = "mark" /\ run' = [run EXCEPT ![r] = new]
        /\ work' = [work EXCEPT ![m].processed = TRUE]
    BY <1>2, <1>10, <2>1, <2>2 DEF G!MarkProcessed, G!RunAt, G!Idle
  <2>4. work[m].analyses # <<>> /\ (mail[m].box = "INBOX" => work[m].drafts # {})
    BY <1>2, <1>4, <2>3 DEF G!RunFits
  <2>5. PICK yes, done : yes = TRUE /\ done = [analyses |-> work[m].analyses, drafts |-> work[m].drafts, processed |-> yes]
    OBVIOUS
  <2>6. done.analyses = work[m].analyses /\ done.drafts = work[m].drafts
        /\ done = [analyses |-> done.analyses, drafts |-> done.drafts, processed |-> done.processed]
    BY <2>5
  <2>7. work' = [work EXCEPT ![m] = done]
    <3>1. done = [analyses |-> work[m].analyses, drafts |-> work[m].drafts, processed |-> yes]
      BY <2>5
    <3>2. done = [work[m] EXCEPT !.processed = yes]
      BY <1>5, <3>1
    <3>3. work' = [work EXCEPT ![m] = [work[m] EXCEPT !.processed = yes]]
      BY <2>3, <2>5
    <3> QED BY <3>2, <3>3
  <2>8. run' = [q \in Runs |-> run'[q]]
    BY <1>7, <2>3
  <2>9. G!TypeOK' /\ G!ProcessedIsPrepared' /\ WorkGoesOn
    <3>1. /\ done.analyses \in Seq(Contexts) /\ done.drafts \subseteq G!ToSet(done.analyses)
          /\ done.analyses # <<>> /\ (mail[m].box = "INBOX" => done.drafts # {})
      BY <1>5, <1>6, <2>4, <2>6
    <3>2. work[m].drafts # {} => done.drafts # {}
      BY <2>6
    <3> QED BY <1>1, <1>2, <2>6, <2>7, <2>8, <3>1, <3>2, WorkOnOne
  <2>10. G!RunFits(new)'
    <3>1. CASE work[m].processed \/ rest = {}
      <4>1. new.pc = "idle"
        BY <2>2, <3>1
      <4> QED BY <4>1 DEF G!RunFits
    <3>2. CASE ~(work[m].processed \/ rest = {})
      <4>1. new.pc = "read" /\ new.todo = rest /\ rest # {} /\ rest \subseteq DOMAIN stored'
        BY <1>3, <2>1, <2>2, <3>2
      <4> QED BY <4>1 DEF G!RunFits
    <3> QED BY <3>1, <3>2
  <2> QED BY <1>1, <2>3, <2>9, <2>10, RunGoesOn
<1> QED BY <1>8, <1>9, <1>10

\* Nothing is stored at first.
LEMMA MailStarts ==
  ASSUME G!Init
  PROVE  G!IInv
<1>1. stored = <<>> /\ \A m \in SyncedMails : work[m] = [analyses |-> <<>>, drafts |-> {}, processed |-> FALSE]
  BY DEF G!Init
<1>2. G!TypeOK
  <2>1. /\ mail \in [SyncedMails -> [box : Boxes, kind : {"root", "reply", "alone", "malformed"}, id : Ids]]
        /\ inMailbox \subseteq SyncedMails /\ context \in [SyncedMails -> Contexts]
    BY DEF G!Init
  <2>2. claim \in [Ids -> [owner : SyncedMails \cup {Nobody}, contested : BOOLEAN]]
    BY DEF G!Init
  <2>3. stored \in Seq(SyncedMails) /\ thread = [m \in SyncedMails |-> thread[m]]
    BY DEF G!Init
  <2>4. work = [m \in SyncedMails |-> work[m]] /\ sync = [s \in Syncs |-> sync[s]] /\ run = [r \in Runs |-> run[r]]
    BY DEF G!Init
  <2>5. \A m \in SyncedMails :
           /\ work[m] = [analyses |-> work[m].analyses, drafts |-> work[m].drafts, processed |-> work[m].processed]
           /\ work[m].analyses \in Seq(Contexts)
    <3> SUFFICES ASSUME NEW m \in SyncedMails
                 PROVE  /\ work[m] = [analyses |-> work[m].analyses, drafts |-> work[m].drafts, processed |-> work[m].processed]
                        /\ work[m].analyses \in Seq(Contexts)
      OBVIOUS
    <3>1. PICK no : work[m] = [analyses |-> <<>>, drafts |-> {}, processed |-> no]
      BY <1>1
    <3> QED BY <3>1
  <2> QED BY <2>1, <2>2, <2>3, <2>4, <2>5 DEF G!TypeOK
<1>3. G!StoredAreJoined
  BY DEF G!Init, G!StoredAreJoined, G!IsInjective, G!ToSet
<1>4. G!ProcessedIsPrepared
  BY <1>1 DEF G!ProcessedIsPrepared
<1>5. \A s \in Syncs : G!SyncFits(sync[s])
  BY DEF G!Init, G!Idle, G!SyncFits
<1>6. \A r \in Runs : G!RunFits(run[r])
  BY DEF G!Init, G!Idle, G!RunFits
<1> QED BY <1>2, <1>3, <1>4, <1>5, <1>6 DEF G!IInv

\* The invariant is inductive.
LEMMA MailInductive ==
  ASSUME G!ConstantsAreSane
  PROVE  /\ G!Init => G!IInv
         /\ G!IInv /\ [G!Next]_(G!vars) => G!IInv'
<1>1. G!Init => G!IInv
  BY MailStarts
<1>2. ASSUME G!IInv, [G!Next]_(G!vars) PROVE G!IInv'
  <2>1. CASE G!Arrive \/ G!ContextChanges
    BY <1>2, <2>1, OutsideMailSteps
  <2>2. ASSUME NEW s \in Syncs, G!Fetch(s) \/ G!SyncStep(s) \/ G!Fails(s) \/ G!SyncDies(s) PROVE G!IInv'
    BY <1>2, <2>2, ReadSteps, ThreadResolved, ClaimContested, MailStored DEF G!SyncStep
  <2>3. ASSUME NEW r \in Runs, G!ListUnprocessed(r) \/ G!RunStep(r) \/ G!RunStops(r) PROVE G!IInv'
    BY <1>2, <2>3, TurnSteps, PreparingSteps DEF G!RunStep
  <2>4. CASE UNCHANGED G!vars
    <3>1. UNCHANGED <<mail, inMailbox, claim, stored, thread, skipped, sync, context, work, run>>
      BY <2>4 DEF G!vars, G!server, G!rows
    <3>2. G!TypeOK' /\ G!ProcessedIsPrepared'
      BY <1>2, <3>1 DEF G!IInv, G!TypeOK, G!ProcessedIsPrepared, G!IsStored, G!Contains
    <3>3. G!StoredAreJoined'
      BY <1>2, <3>1 DEF G!IInv, G!StoredAreJoined, G!Malformed, G!Joined, G!Opens, G!IsInjective, G!ToSet
    <3>4. \A s \in Syncs : G!SyncFits(sync[s])'
      BY <1>2, <3>1 DEF G!IInv, G!SyncFits, G!Malformed, G!Joined, G!Opens
    <3>5. \A r \in Runs : G!RunFits(run[r])'
      BY <1>2, <3>1 DEF G!IInv, G!RunFits
    <3> QED BY <3>2, <3>3, <3>4, <3>5 DEF G!IInv
  <2> QED BY <1>2, <2>1, <2>2, <2>3, <2>4 DEF G!Next
<1> QED BY <1>1, <1>2

\* Of two stored mails that open a conversation with one id, one is not its owner.
LEMMA MailSays ==
  ASSUME G!IInv
  PROVE  G!MailIsSound
<1>1. stored \in Seq(SyncedMails) /\ mail \in [SyncedMails -> [box : Boxes, kind : {"root", "reply", "alone", "malformed"}, id : Ids]]
  BY DEF G!IInv, G!TypeOK
<1>2. \A m \in G!ToSet(stored) : m \in SyncedMails /\ m \notin G!Malformed /\ G!Joined(m, thread[m]) /\ m \notin skipped
  <2>1. \A m \in G!ToSet(stored) : m \in SyncedMails
    BY <1>1 DEF G!ToSet
  <2> QED BY <2>1 DEF G!IInv, G!StoredAreJoined
<1>3. ASSUME NEW m \in G!ToSet(stored)
      PROVE  /\ m \notin skipped /\ thread[m] \in {"own", mail[m].id}
             /\ G!Opens(m) => (thread[m] = mail[m].id <=> claim[mail[m].id].owner = m)
  BY <1>2 DEF G!Joined
<1>4. ASSUME NEW m \in G!ToSet(stored), NEW n \in G!ToSet(stored),
             m # n, G!Opens(m), G!Opens(n), mail[m].id = mail[n].id
      PROVE  claim[mail[m].id].contested
  <2>1. /\ claim[mail[m].id].owner # m => claim[mail[m].id].contested
        /\ claim[mail[n].id].owner # n => claim[mail[n].id].contested
    BY <1>2, <1>4 DEF G!Joined
  <2>2. PICK i : i = mail[m].id /\ i = mail[n].id
    BY <1>4
  <2>3. claim[i].owner # m \/ claim[i].owner # n
    BY <1>4
  <2> QED BY <2>1, <2>2, <2>3
<1>5. G!ThreadsAreSound
  BY <1>3, <1>4 DEF G!IInv, G!StoredAreJoined, G!ThreadsAreSound
<1> QED BY <1>5 DEF G!IInv, G!MailIsSound

\* The invariant of the mailboxes holds in every reachable state.
THEOREM MailInvariance == ASSUME G!ConstantsAreSane PROVE G!Spec => []G!IInv
  BY MailInductive, PTL DEF G!Spec

-----------------------------------------------------------------------------
(* Reviews of a package                                                    *)

\* The decisions are a chain, so the last of them is the only head.
LEMMA ChainHasOneHead ==
  ASSUME R!TypeOK, R!DecisionsAreAChain
  PROVE  /\ R!Heads = IF decisions = <<>> THEN {} ELSE {Len(decisions)}
         /\ R!Effective = IF decisions = <<>> THEN "none" ELSE decisions[Len(decisions)].decision
         /\ R!Overrides = IF decisions = <<>> THEN 0 ELSE Len(decisions) - 1
         /\ decisions # <<>> => (CHOOSE k \in R!Heads : \A j \in R!Heads : j <= k) = Len(decisions)
<1> DEFINE n == Len(decisions)
<1>1. /\ n \in Nat /\ DOMAIN decisions = 1..n /\ (decisions = <<>> <=> n = 0)
      /\ \A k \in 1..n : decisions[k].supersedes = k - 1
  BY DEF R!TypeOK, R!DecisionsAreAChain
<1> HIDE DEF n
<1>2. \A k \in 1..n : k \in R!Heads <=> k = n
  <2>1. ASSUME NEW k \in 1..n, k # n PROVE k \notin R!Heads
    <3>1. k + 1 \in 1..n /\ decisions[k + 1].supersedes = k
      BY <1>1, <2>1
    <3> QED BY <1>1, <3>1 DEF R!Heads
  <2>2. ASSUME n \in 1..n PROVE n \in R!Heads
    <3>1. \A j \in 1..n : decisions[j].supersedes # n
      BY <1>1
    <3> QED BY <1>1, <2>2, <3>1 DEF R!Heads
  <2> QED BY <2>1, <2>2
<1>3. R!Heads \subseteq 1..n
  BY <1>1 DEF R!Heads
<1>4. R!Heads = IF n = 0 THEN {} ELSE {n}
  <2>1. CASE n = 0
    BY <1>3, <2>1
  <2>2. CASE n # 0
    <3>1. n \in 1..n
      BY <1>1, <2>2
    <3> QED BY <1>2, <1>3, <2>2, <3>1
  <2> QED BY <2>1, <2>2
<1>5. n # 0 => (CHOOSE k \in R!Heads : \A j \in R!Heads : j <= k) = n
  <2> SUFFICES ASSUME n # 0 PROVE (CHOOSE k \in {n} : \A j \in {n} : j <= k) = n
    BY <1>4
  <2> QED BY <1>1
<1>6. R!Effective = IF n = 0 THEN "none" ELSE decisions[n].decision
  <2>1. CASE n = 0
    BY <1>4, <2>1 DEF R!Effective
  <2>2. CASE n # 0
    <3>1. R!Heads # {}
      BY <1>4, <2>2
    <3>2. PICK head : head = CHOOSE k \in R!Heads : \A j \in R!Heads : j <= k
      OBVIOUS
    <3>3. R!Effective = decisions[head].decision
      BY <3>1, <3>2 DEF R!Effective
    <3>4. head = n
      BY <1>5, <2>2, <3>2
    <3> QED BY <2>2, <3>3, <3>4
  <2> QED BY <2>1, <2>2
<1>7. R!Overrides = IF n = 0 THEN 0 ELSE n - 1
  <2> DEFINE later == {k \in DOMAIN decisions : decisions[k].supersedes # 0}
  <2>1. later = 2..n
    BY <1>1
  <2>2. Cardinality(2..n) = IF 2 > n THEN 0 ELSE n - 2 + 1
    BY <1>1, FS_Interval
  <2>3. R!Overrides = Cardinality(2..n)
    <3>1. R!Overrides = R!Cardinality(later)
      BY DEF R!Overrides
    <3>2. R!Cardinality(2..n) = Cardinality(2..n)
      BY DEF R!Cardinality, Cardinality
    <3> QED BY <2>1, <3>1, <3>2
  <2> QED BY <1>1, <2>2, <2>3
<1> QED BY <1>1, <1>4, <1>5, <1>6, <1>7 DEF n

\* Rows go on: what is approved stays so, revisions are only added, and what the
\* approved application rests on is not rejected.
RowsGoOn ==
    /\ reviews' \in [Reviews -> R!ReviewRow] /\ revisions' \in [Reviews -> Seq(BOOLEAN)]
    /\ seen' \in [Reviews -> [revision : Nat, acknowledged : BOOLEAN]]
    /\ \A r \in Reviews :
          /\ R!RowFits(r)'
          /\ reviews[r].status = "APPROVED" => reviews'[r].status = "APPROVED"
          /\ reviews'[r].status = "REJECTED" => reviews[r].status = "REJECTED" \/ R!MayReject(r)
          /\ Len(revisions[r]) <= Len(revisions'[r])
          /\ \A i \in 1..Len(revisions[r]) : revisions'[r][i] = revisions[r][i]

\* A step that leaves the rows alone.
LEMMA RowsRest ==
  ASSUME R!IInv, UNCHANGED <<reviews, revisions, seen>>
  PROVE  RowsGoOn
<1>1. /\ reviews \in [Reviews -> R!ReviewRow] /\ revisions \in [Reviews -> Seq(BOOLEAN)]
      /\ seen \in [Reviews -> [revision : Nat, acknowledged : BOOLEAN]]
  BY DEF R!IInv, R!TypeOK
<1>2. ASSUME NEW r \in Reviews
      PROVE  R!RowFits(r)' /\ Len(revisions[r]) \in Nat
  <2>1. R!RowFits(r)
    BY DEF R!IInv
  <2> QED BY <1>1, <2>1 DEF R!RowFits
<1> QED BY <1>1, <1>2 DEF RowsGoOn

\* One row is written.
LEMMA RowWritten ==
  ASSUME R!IInv, NEW r \in Reviews,
         reviews' \in [Reviews -> R!ReviewRow], revisions' \in [Reviews -> Seq(BOOLEAN)],
         seen' \in [Reviews -> [revision : Nat, acknowledged : BOOLEAN]],
         \A q \in Reviews \ {r} : reviews'[q] = reviews[q] /\ revisions'[q] = revisions[q] /\ seen'[q] = seen[q],
         R!RowFits(r)', reviews[r].status # "APPROVED",
         reviews'[r].status = "REJECTED" => R!MayReject(r),
         Len(revisions[r]) <= Len(revisions'[r]),
         \A i \in 1..Len(revisions[r]) : revisions'[r][i] = revisions[r][i]
  PROVE  RowsGoOn
<1>1. ASSUME NEW q \in Reviews \ {r}
      PROVE  R!RowFits(q)' /\ Len(revisions[q]) <= Len(revisions'[q])
  <2>1. R!RowFits(q) /\ Len(revisions[q]) \in Nat
    BY DEF R!IInv, R!TypeOK
  <2>2. reviews'[q] = reviews[q] /\ revisions'[q] = revisions[q] /\ seen'[q] = seen[q]
    BY <1>1
  <2> QED BY <2>1, <2>2 DEF R!RowFits
<1>2. ASSUME NEW q \in Reviews
      PROVE  /\ R!RowFits(q)'
             /\ reviews[q].status = "APPROVED" => reviews'[q].status = "APPROVED"
             /\ reviews'[q].status = "REJECTED" => reviews[q].status = "REJECTED" \/ R!MayReject(q)
             /\ Len(revisions[q]) <= Len(revisions'[q])
             /\ \A i \in 1..Len(revisions[q]) : revisions'[q][i] = revisions[q][i]
  BY <1>1
<1> QED BY <1>2 DEF RowsGoOn

\* What a client has read stays as it was while rows and decisions go on.
LEMMA ReadStays ==
  ASSUME R!IInv, RowsGoOn, NEW c \in Clients, client'[c] = client[c],
         application.status # "none" => application'.status # "none",
         Len(decisions) <= Len(decisions')
  PROVE  R!HasRead(c)'
<1>1. R!HasRead(c) /\ Len(decisions) \in Nat /\ Len(decisions)' \in Nat
  BY DEF R!IInv, R!TypeOK
<1>2. ASSUME client[c].pc = "approve"
      PROVE  /\ client[c].revision \in 1..Len(revisions'[client[c].review])
             /\ revisions'[client[c].review][client[c].revision] => client[c].acknowledged
  <2>1. PICK r \in Reviews : r = client[c].review
    BY <1>1, <1>2 DEF R!HasRead
  <2>2. client[c].revision \in 1..Len(revisions[r]) /\ (revisions[r][client[c].revision] => client[c].acknowledged)
    BY <1>1, <1>2, <2>1 DEF R!HasRead
  <2>3. /\ Len(revisions[r]) <= Len(revisions'[r]) /\ Len(revisions[r]) \in Nat /\ Len(revisions'[r]) \in Nat
        /\ revisions'[r][client[c].revision] = revisions[r][client[c].revision]
    BY <2>2 DEF RowsGoOn, R!IInv, R!TypeOK
  <2> QED BY <2>1, <2>2, <2>3
<1> QED BY <1>1, <1>2 DEF R!HasRead

ReviewStep == R!IInv' /\ R!ApprovesNoRejection

\* A step that decides nothing about the application.
LEMMA ReviewGoesOn ==
  ASSUME R!IInv, RowsGoOn, UNCHANGED decisions,
         R!TypeOK',
         \/ UNCHANGED application
         \/ application'.status # "APPROVED" /\ application.status = "none" /\ application'.review \in Reviews
         \/ R!TrackerCommand,
         client' = [c \in Clients |-> client'[c]],
         \A c \in Clients : client'[c] = client[c] \/ R!HasRead(c)'
  PROVE  ReviewStep
<1>1. /\ application.status # "none" => application'.status # "none"
      /\ application'.status # "none" => application'.review \in Reviews
      /\ application.status # "none" => application'.review = application.review
  BY DEF R!IInv, R!TypeOK, R!DecisionsRest, R!TrackerCommand, R!Moves
<1>2. \A c \in Clients : R!HasRead(c)'
  <2>1. Len(decisions) <= Len(decisions')
    BY DEF R!IInv, R!TypeOK
  <2> QED BY <1>1, <2>1, ReadStays
<1>3. R!DecisionsAreAChain'
  BY DEF R!IInv, R!DecisionsAreAChain
<1>4. R!DecisionsRest'
  BY <1>1 DEF R!IInv, R!DecisionsRest, RowsGoOn
<1>5. R!IInv'
  BY <1>2, <1>3, <1>4 DEF R!IInv, RowsGoOn
<1>6. R!ApprovesNoRejection
  <2> SUFFICES ASSUME R!Contradiction', ~R!TrackerCommand PROVE R!Contradiction
    BY DEF R!ApprovesNoRejection
  <2>1. UNCHANGED application
    BY DEF R!Contradiction
  <2>2. application.review \in Reviews
    BY <2>1 DEF R!Contradiction, R!IInv, R!DecisionsRest
  <2> QED BY <2>1, <2>2 DEF R!Contradiction, R!MayReject, RowsGoOn
<1> QED BY <1>5, <1>6 DEF ReviewStep

\* A call ends, or nobody's call changes.
CallsEnd == client' = [c \in Clients |-> client'[c]] /\ \A c \in Clients : client'[c] \in {client[c], R!Idle}

\* A call is over.
LEMMA CallEnds ==
  ASSUME R!IInv, UNCHANGED client \/ \E c \in Clients : R!Ends(c)
  PROVE  CallsEnd
<1>1. client = [c \in Clients |-> client[c]]
  BY DEF R!IInv
<1>2. CASE UNCHANGED client
  BY <1>1, <1>2 DEF CallsEnd
<1>3. ASSUME NEW c \in Clients, R!Ends(c)
      PROVE  CallsEnd
  <2>1. client' = [client EXCEPT ![c] = R!Idle]
    BY <1>3 DEF R!Ends, R!Becomes
  <2> QED BY <1>1, <2>1 DEF CallsEnd
<1> QED BY <1>2, <1>3

\* Who does nothing holds nothing old.
LEMMA IdleHasRead ==
  ASSUME NEW c \in Clients, client'[c] = R!Idle
  PROVE  R!HasRead(c)'
  BY DEF R!HasRead, R!Idle

\* A call begins, with what it has read.
LEMMA CallBegins ==
  ASSUME R!IInv, NEW c \in Clients, NEW call, R!Becomes(c, call), R!HasRead(c)',
         UNCHANGED <<inputs, package, reviews, revisions, link, application, decisions, seen>>
  PROVE  ReviewStep
<1>1. client' = [client EXCEPT ![c] = call] /\ client = [d \in Clients |-> client[d]]
  BY DEF R!Becomes, R!IInv
<1>2. client' = [d \in Clients |-> client'[d]] /\ \A d \in Clients : client'[d] = client[d] \/ R!HasRead(d)'
  BY <1>1
<1>3. RowsGoOn
  BY RowsRest
<1>4. R!TypeOK'
  BY DEF R!IInv, R!TypeOK
<1> QED BY <1>2, <1>3, <1>4, ReviewGoesOn

\* A page, a card or an export is read.
LEMMA ReaderSteps ==
  ASSUME R!IInv, NEW c \in Clients, NEW r \in Reviews, R!Patch(c, r) \/ R!Approve(c, r) \/ R!Reject(c, r)
  PROVE  ReviewStep
<1>1. UNCHANGED <<inputs, package, reviews, revisions, link, application, decisions, seen>>
  BY DEF R!Patch, R!Approve, R!Reject
<1>2. /\ client = [d \in Clients |-> client[d]] /\ R!RowFits(r) /\ reviews[r] \in R!ReviewRow
      /\ Len(revisions[r]) \in Nat /\ revisions[r] \in Seq(BOOLEAN)
  BY DEF R!IInv, R!TypeOK
<1>3. CASE R!Patch(c, r)
  <2>1. PICK expected \in 1..reviews[r].version : R!Becomes(c, [pc |-> "patch", review |-> r, expected |-> expected])
    BY <1>3 DEF R!Patch
  <2>2. PICK call : call = [pc |-> "patch", review |-> r, expected |-> expected]
    OBVIOUS
  <2>3. client'[c] = call /\ call.pc = "patch" /\ call.review = r /\ call.expected = expected
    BY <1>2, <2>1, <2>2 DEF R!Becomes
  <2>4. R!HasRead(c)'
    BY <1>2, <2>3 DEF R!HasRead, R!ReviewRow
  <2> QED BY <1>1, <2>1, <2>2, <2>4, CallBegins
<1>4. CASE R!Reject(c, r)
  <2>1. PICK expected \in 1..reviews[r].version : R!Becomes(c, [pc |-> "reject", review |-> r, expected |-> expected])
    BY <1>4 DEF R!Reject
  <2>2. PICK call : call = [pc |-> "reject", review |-> r, expected |-> expected]
    OBVIOUS
  <2>3. client'[c] = call /\ call.pc = "reject" /\ call.review = r /\ call.expected = expected
    BY <1>2, <2>1, <2>2 DEF R!Becomes
  <2>4. R!HasRead(c)'
    BY <1>2, <2>3 DEF R!HasRead, R!ReviewRow
  <2> QED BY <1>1, <2>1, <2>2, <2>4, CallBegins
<1>5. CASE R!Approve(c, r)
  <2>1. PICK acknowledged \in BOOLEAN :
           /\ reviews[r].overrides => acknowledged
           /\ R!Becomes(c, [pc |-> "approve", review |-> r, expected |-> reviews[r].version,
                            revision |-> Len(revisions[r]), acknowledged |-> acknowledged])
    BY <1>5 DEF R!Approve
  <2>2. PICK call : call = [pc |-> "approve", review |-> r, expected |-> reviews[r].version,
                            revision |-> Len(revisions[r]), acknowledged |-> acknowledged]
    OBVIOUS
  <2>3. /\ client'[c] = call /\ call.pc = "approve" /\ call.review = r /\ call.expected = reviews[r].version
        /\ call.revision = Len(revisions[r]) /\ call.acknowledged = acknowledged
    BY <1>2, <2>1, <2>2 DEF R!Becomes
  <2>4. /\ reviews[r].version = Len(revisions[r]) /\ Len(revisions[r]) > 0
        /\ revisions[r][Len(revisions[r])] => acknowledged
    BY <1>2, <1>5, <2>1 DEF R!RowFits, R!Approve, R!Pending
  <2>5. R!HasRead(c)'
    BY <1>1, <1>2, <2>3, <2>4 DEF R!HasRead, R!ReviewRow
  <2> QED BY <1>1, <2>1, <2>2, <2>5, CallBegins
<1> QED BY <1>3, <1>4, <1>5

\* An operator's press or override is read: an override names the last decision.
LEMMA TargetIsLoaded ==
  ASSUME R!IInv, NEW c \in Clients, NEW decision \in R!Finals, NEW way \in {"press", "override"},
         R!LoadTarget(c, decision, way)
  PROVE  ReviewStep
<1>1. /\ UNCHANGED <<inputs, package, reviews, revisions, link, application, decisions, seen>>
      /\ application.status # "none"
  BY DEF R!LoadTarget
<1>2. client = [d \in Clients |-> client[d]] /\ R!TypeOK /\ R!DecisionsAreAChain /\ Len(decisions) \in Nat
      /\ (decisions = <<>> <=> Len(decisions) = 0)
  BY DEF R!IInv, R!TypeOK
<1>3. PICK sup : sup = IF way = "press" THEN 0 ELSE CHOOSE k \in R!Heads : \A j \in R!Heads : j <= k
  OBVIOUS
<1>4. PICK call : call = [pc |-> "decide", decision |-> decision, kind |-> way,
                   header |-> R!Header(application.review),
                   supersedes |-> sup, key |-> <<way, R!Overrides>>]
  OBVIOUS
<1>5. R!Becomes(c, call)
  BY <1>3, <1>4 DEF R!LoadTarget
<1>6. /\ client'[c] = call /\ call.pc = "decide" /\ call.decision = decision /\ call.kind = way /\ call.supersedes = sup
      /\ call.key = <<way, R!Overrides>>
  BY <1>2, <1>4, <1>5 DEF R!Becomes
<1>7. IF way = "press" THEN sup = 0 /\ R!Overrides = 0
      ELSE sup \in 1..Len(decisions) /\ R!Overrides = sup - 1
  <2>1. CASE way = "press"
    <3>1. R!Effective = "none"
      BY <2>1 DEF R!LoadTarget
    <3>2. decisions = <<>>
      <4>1. decisions # <<>> => decisions[Len(decisions)].decision \in R!Finals
        <5> DEFINE Decision == [decision : R!Finals, supersedes : Nat, key : {"press", "override"} \X Nat]
        <5>1. decisions # <<>> => decisions[Len(decisions)] \in Decision
          <6> HIDE DEF Decision
          <6>1. decisions \in Seq(Decision)
            BY <1>2 DEF R!TypeOK, Decision
          <6> QED BY <1>2, <6>1
        <5> QED BY <5>1
      <4> QED BY <1>2, <3>1, <4>1, ChainHasOneHead DEF R!Finals
    <3> QED BY <1>2, <1>3, <2>1, <3>2, ChainHasOneHead
  <2>2. CASE way = "override"
    <3>1. R!Effective # "none"
      BY <2>2 DEF R!LoadTarget
    <3>2. decisions # <<>>
      BY <1>2, <3>1, ChainHasOneHead
    <3>3. sup = Len(decisions)
      BY <1>2, <1>3, <2>2, <3>2, ChainHasOneHead
    <3> QED BY <1>2, <2>2, <3>2, <3>3, ChainHasOneHead
  <2> QED BY <2>1, <2>2
<1>8. R!HasRead(c)'
  <2>1. CASE way = "press"
    <3>1. /\ client'[c].pc = "decide" /\ client'[c].kind = "press" /\ client'[c].supersedes = 0
          /\ client'[c].decision = decision /\ client'[c].key = <<"press", 0>>
      BY <1>6, <1>7, <2>1
    <3> QED BY <1>1, <3>1 DEF R!HasRead
  <2>2. CASE way = "override"
    <3>1. /\ client'[c].pc = "decide" /\ client'[c].kind = "override" /\ client'[c].supersedes = sup
          /\ client'[c].decision = decision /\ client'[c].key = <<"override", sup - 1>> /\ sup \in 1..Len(decisions)
      BY <1>6, <1>7, <2>2
    <3> QED BY <1>1, <3>1 DEF R!HasRead
  <2> QED BY <2>1, <2>2
<1> QED BY <1>1, <1>5, <1>8, CallBegins

\* Job, profile and package move on, the application is linked, the tracker commands.
LEMMA AroundSteps ==
  ASSUME R!IInv, R!Edit \/ R!Republish \/ R!TrackerCommand \/ (\E r \in Reviews : R!LinkApplication(r))
                 \/ UNCHANGED R!vars
  PROVE  ReviewStep
<1>1. /\ UNCHANGED <<reviews, revisions, link, decisions, client, seen>>
      /\ inputs' \in Inputs /\ package' \in [gen : Nat, inputs : Inputs]
  BY DEF R!IInv, R!TypeOK, R!Edit, R!Republish, R!TrackerCommand, R!LinkApplication, R!vars
<1>2. /\ application' \in [status : R!AppStatuses, review : Reviews \cup {NoReview}]
      /\ \/ UNCHANGED application
         \/ application'.status # "APPROVED" /\ application.status = "none" /\ application'.review \in Reviews
         \/ R!TrackerCommand
  <2>1. application \in [status : R!AppStatuses, review : Reviews \cup {NoReview}]
    BY DEF R!IInv, R!TypeOK
  <2>2. CASE R!TrackerCommand
    BY <2>1, <2>2 DEF R!TrackerCommand, R!Moves, R!AppStatuses
  <2>3. CASE \E r \in Reviews : R!LinkApplication(r)
    BY <2>3 DEF R!LinkApplication, R!AppStatuses
  <2>4. CASE R!Edit \/ R!Republish \/ UNCHANGED R!vars
    BY <2>1, <2>4 DEF R!Edit, R!Republish, R!vars
  <2> QED BY <2>2, <2>3, <2>4
<1>3. R!TypeOK'
  BY <1>1, <1>2 DEF R!IInv, R!TypeOK
<1>4. RowsGoOn
  BY <1>1, RowsRest
<1>5. client' = [c \in Clients |-> client'[c]]
  BY <1>1 DEF R!IInv
<1> QED BY <1>1, <1>2, <1>3, <1>4, <1>5, ReviewGoesOn

\* One row is written, and a call may end.
LEMMA RowStep ==
  ASSUME R!IInv, RowsGoOn, CallsEnd, UNCHANGED <<inputs, package, application, decisions>>,
         link' \in [ReviewGenerations -> Reviews \cup {NoReview}]
  PROVE  ReviewStep
<1>1. R!TypeOK'
  BY DEF R!IInv, R!TypeOK, RowsGoOn
<1>2. ASSUME NEW c \in Clients PROVE client'[c] = client[c] \/ R!HasRead(c)'
  BY IdleHasRead DEF CallsEnd
<1> QED BY <1>1, <1>2, ReviewGoesOn DEF CallsEnd

\* A review is created, with one revision that nobody has edited.
LEMMA ReviewBegins ==
  ASSUME R!IInv, NEW r \in Reviews, R!CreateReview(r), UNCHANGED <<inputs, package, application, decisions, client, seen>>,
         link' \in [ReviewGenerations -> Reviews \cup {NoReview}]
  PROVE  ReviewStep
<1>1. /\ reviews \in [Reviews -> R!ReviewRow] /\ revisions \in [Reviews -> Seq(BOOLEAN)] /\ inputs \in Inputs
      /\ seen \in [Reviews -> [revision : Nat, acknowledged : BOOLEAN]] /\ R!RowFits(r)
  BY DEF R!IInv, R!TypeOK
<1>2. PICK entry : entry = [status |-> "PENDING_REVIEW", version |-> 1, overrides |-> FALSE, inputs |-> inputs, approved |-> 0]
  OBVIOUS
<1>3. reviews' = [reviews EXCEPT ![r] = entry] /\ revisions' = [revisions EXCEPT ![r] = <<FALSE>>] /\ reviews[r].status = "none"
  BY <1>2 DEF R!CreateReview
<1>4. entry \in R!ReviewRow /\ entry.version = 1 /\ entry.overrides = FALSE /\ entry.status = "PENDING_REVIEW"
  BY <1>1, <1>2 DEF R!ReviewRow
<1>5. <<FALSE>> \in Seq(BOOLEAN) /\ Len(<<FALSE>>) = 1 /\ <<FALSE>>[1] = FALSE
  OBVIOUS
<1>6. Len(revisions[r]) \in Nat
  BY <1>1
<1>7. /\ reviews' \in [Reviews -> R!ReviewRow] /\ revisions' \in [Reviews -> Seq(BOOLEAN)]
      /\ reviews'[r] = entry /\ revisions'[r] = <<FALSE>>
      /\ \A q \in Reviews \ {r} : reviews'[q] = reviews[q] /\ revisions'[q] = revisions[q] /\ seen'[q] = seen[q]
  BY <1>1, <1>3, <1>4, <1>5
<1>8. R!RowFits(r)'
  <2>1. /\ reviews'[r].status = "PENDING_REVIEW" /\ reviews'[r].version = 1 /\ ~reviews'[r].overrides
        /\ Len(revisions'[r]) = 1 /\ ~revisions'[r][1]
    BY <1>4, <1>5, <1>7
  <2>2. reviews'[r].overrides = revisions'[r][1]
    <3>1. reviews'[r].overrides = FALSE /\ revisions'[r][1] = FALSE
      BY <1>4, <1>5, <1>7
    <3> QED BY <3>1
  <2> QED BY <2>1, <2>2 DEF R!RowFits
<1>9. Len(revisions[r]) = 0
  BY <1>1, <1>3 DEF R!RowFits
<1>10. RowsGoOn
  <2>1. Len(revisions'[r]) = 1 /\ reviews'[r].status = "PENDING_REVIEW" /\ UNCHANGED seen
    BY <1>4, <1>5, <1>7
  <2>2. Len(revisions[r]) <= Len(revisions'[r]) /\ \A i \in 1..Len(revisions[r]) : revisions'[r][i] = revisions[r][i]
    BY <1>9, <2>1
  <2>3. reviews[r].status # "APPROVED" /\ (reviews'[r].status = "REJECTED" => R!MayReject(r))
    BY <1>3, <2>1
  <2>4. seen' \in [Reviews -> [revision : Nat, acknowledged : BOOLEAN]]
    BY <1>1, <2>1
  <2> QED BY <1>7, <1>8, <2>2, <2>3, <2>4, RowWritten
<1>11. CallsEnd
  BY CallEnds
<1> QED BY <1>10, <1>11, RowStep

\* The last revision is approved, as it was seen.
LEMMA RowApproved ==
  ASSUME R!IInv, NEW r \in Reviews, NEW number, NEW acknowledged \in BOOLEAN,
         reviews[r].status = "PENDING_REVIEW", number = Len(revisions[r]),
         revisions[r][number] => acknowledged,
         reviews' = R!Approved(r, number), seen' = R!SeenAs(r, number, acknowledged), UNCHANGED revisions
  PROVE  RowsGoOn /\ reviews'[r].status = "APPROVED"
<1>1. /\ reviews \in [Reviews -> R!ReviewRow] /\ revisions \in [Reviews -> Seq(BOOLEAN)]
      /\ seen \in [Reviews -> [revision : Nat, acknowledged : BOOLEAN]] /\ R!RowFits(r)
      /\ reviews[r] \in R!ReviewRow /\ number \in Nat
  BY DEF R!IInv, R!TypeOK
<1>2. PICK entry : entry = [reviews[r] EXCEPT !.status = "APPROVED", !.approved = number]
  OBVIOUS
<1>3. /\ entry \in R!ReviewRow /\ entry.status = "APPROVED" /\ entry.approved = number
      /\ entry.version = reviews[r].version /\ entry.overrides = reviews[r].overrides
  BY <1>1, <1>2 DEF R!ReviewRow
<1>4. reviews' = [reviews EXCEPT ![r] = entry]
  BY <1>1, <1>2 DEF R!Approved
<1>5. PICK look : look = [revision |-> number, acknowledged |-> acknowledged]
  OBVIOUS
<1>6. /\ seen' = [seen EXCEPT ![r] = look] /\ look \in [revision : Nat, acknowledged : BOOLEAN]
      /\ look.revision = number /\ look.acknowledged = acknowledged
  BY <1>1, <1>5 DEF R!SeenAs
<1>7. /\ reviews' \in [Reviews -> R!ReviewRow] /\ revisions' \in [Reviews -> Seq(BOOLEAN)]
      /\ seen' \in [Reviews -> [revision : Nat, acknowledged : BOOLEAN]]
      /\ reviews'[r] = entry /\ seen'[r] = look /\ revisions'[r] = revisions[r]
      /\ \A q \in Reviews \ {r} : reviews'[q] = reviews[q] /\ revisions'[q] = revisions[q] /\ seen'[q] = seen[q]
  BY <1>1, <1>3, <1>4, <1>6
<1>8. R!RowFits(r)'
  <2>1. /\ reviews[r].version = number /\ number > 0 /\ reviews[r].overrides = revisions[r][number]
    BY <1>1 DEF R!RowFits
  <2>2. /\ reviews'[r].version = number /\ reviews'[r].overrides = revisions'[r][number]
        /\ Len(revisions'[r]) = number
    BY <1>3, <1>7, <2>1
  <2>3. reviews'[r].status = "APPROVED" /\ reviews'[r].approved = number /\ seen'[r].revision = number
    BY <1>3, <1>6, <1>7
  <2>4. revisions'[r][number] => seen'[r].acknowledged
    BY <1>6, <1>7
  <2> QED BY <2>1, <2>2, <2>3, <2>4 DEF R!RowFits
<1>9. /\ reviews[r].status # "APPROVED" /\ (reviews'[r].status = "REJECTED" => R!MayReject(r))
      /\ reviews'[r].status = "APPROVED"
  BY <1>3, <1>7
<1>10. Len(revisions[r]) <= Len(revisions'[r]) /\ \A i \in 1..Len(revisions[r]) : revisions'[r][i] = revisions[r][i]
  BY <1>1, <1>7
<1> QED BY <1>7, <1>8, <1>9, <1>10, RowWritten

\* A review is rejected that nothing rests on.
LEMMA RowRejected ==
  ASSUME R!IInv, NEW r \in Reviews, reviews[r].status = "PENDING_REVIEW", R!MayReject(r),
         reviews' = [reviews EXCEPT ![r].status = "REJECTED"], UNCHANGED <<revisions, seen>>
  PROVE  RowsGoOn
<1>1. /\ reviews \in [Reviews -> R!ReviewRow] /\ revisions \in [Reviews -> Seq(BOOLEAN)]
      /\ seen \in [Reviews -> [revision : Nat, acknowledged : BOOLEAN]] /\ R!RowFits(r)
      /\ reviews[r] \in R!ReviewRow
  BY DEF R!IInv, R!TypeOK
<1>2. PICK entry : entry = [reviews[r] EXCEPT !.status = "REJECTED"]
  OBVIOUS
<1>3. /\ entry \in R!ReviewRow /\ entry.status = "REJECTED"
      /\ entry.version = reviews[r].version /\ entry.overrides = reviews[r].overrides
  BY <1>1, <1>2 DEF R!ReviewRow
<1>4. /\ reviews' \in [Reviews -> R!ReviewRow] /\ reviews'[r] = entry
      /\ \A q \in Reviews \ {r} : reviews'[q] = reviews[q]
  BY <1>1, <1>2, <1>3
<1>5. R!RowFits(r)'
  <2>1. /\ reviews[r].version = Len(revisions[r]) /\ Len(revisions[r]) > 0
        /\ reviews[r].overrides = revisions[r][Len(revisions[r])]
    BY <1>1 DEF R!RowFits
  <2>2. /\ reviews'[r].version = Len(revisions[r]) /\ reviews'[r].overrides = revisions[r][Len(revisions[r])]
        /\ reviews'[r].status = "REJECTED"
    BY <1>3, <1>4, <2>1
  <2> QED BY <2>1, <2>2 DEF R!RowFits
<1>6. reviews[r].status # "APPROVED" /\ Len(revisions[r]) <= Len(revisions'[r])
  BY <1>1
<1> QED BY <1>1, <1>4, <1>5, <1>6, RowWritten

\* A revision is added.
LEMMA RowRevised ==
  ASSUME R!IInv, NEW r \in Reviews, NEW edited \in BOOLEAN, reviews[r].status = "PENDING_REVIEW",
         revisions' = [revisions EXCEPT ![r] = Append(@, edited)],
         reviews' = [reviews EXCEPT ![r].version = @ + 1, ![r].overrides = edited], UNCHANGED seen
  PROVE  RowsGoOn
<1>1. /\ reviews \in [Reviews -> R!ReviewRow] /\ revisions \in [Reviews -> Seq(BOOLEAN)]
      /\ seen \in [Reviews -> [revision : Nat, acknowledged : BOOLEAN]] /\ R!RowFits(r)
      /\ reviews[r] \in R!ReviewRow /\ revisions[r] \in Seq(BOOLEAN) /\ Len(revisions[r]) \in Nat
  BY DEF R!IInv, R!TypeOK
<1>2. PICK number, longer : number = reviews[r].version + 1 /\ longer = Append(revisions[r], edited)
  OBVIOUS
<1>3. number \in Nat /\ number = Len(revisions[r]) + 1
  BY <1>1, <1>2 DEF R!RowFits, R!ReviewRow
<1>4. /\ longer \in Seq(BOOLEAN) /\ Len(longer) = number /\ longer[number] = edited
      /\ \A i \in 1..Len(revisions[r]) : longer[i] = revisions[r][i]
  BY <1>1, <1>2, <1>3
<1>5. PICK entry : entry = [reviews[r] EXCEPT !.version = number, !.overrides = edited]
  OBVIOUS
<1>6. /\ entry \in R!ReviewRow /\ entry.status = "PENDING_REVIEW" /\ entry.version = number /\ entry.overrides = edited
  BY <1>1, <1>3, <1>5 DEF R!ReviewRow
<1>7. reviews' = [reviews EXCEPT ![r] = entry] /\ revisions' = [revisions EXCEPT ![r] = longer]
  BY <1>1, <1>2, <1>5
<1>8. /\ reviews' \in [Reviews -> R!ReviewRow] /\ revisions' \in [Reviews -> Seq(BOOLEAN)]
      /\ seen' \in [Reviews -> [revision : Nat, acknowledged : BOOLEAN]]
      /\ reviews'[r] = entry /\ revisions'[r] = longer
      /\ \A q \in Reviews \ {r} : reviews'[q] = reviews[q] /\ revisions'[q] = revisions[q] /\ seen'[q] = seen[q]
  BY <1>1, <1>4, <1>6, <1>7, Zenon
<1>9. R!RowFits(r)'
  <2>1. /\ reviews'[r].version = number /\ reviews'[r].status = "PENDING_REVIEW"
        /\ Len(revisions'[r]) = number /\ number > 0
    <3>1. reviews'[r].version = number /\ reviews'[r].status = "PENDING_REVIEW"
      BY <1>6, <1>8
    <3>2. number > 0
      BY <1>1, <1>3
    <3>3. Len(revisions'[r]) = number
      BY <1>4, <1>8
    <3> QED BY <3>1, <3>2, <3>3
  <2>2. reviews'[r].overrides = revisions'[r][number]
    BY <1>4, <1>6, <1>8
  <2> QED BY <2>1, <2>2 DEF R!RowFits
<1>10. /\ reviews[r].status # "APPROVED" /\ (reviews'[r].status = "REJECTED" => R!MayReject(r))
       /\ Len(revisions[r]) <= Len(revisions'[r])
  BY <1>1, <1>3, <1>4, <1>6, <1>8
<1>11. \A i \in 1..Len(revisions[r]) : revisions'[r][i] = revisions[r][i]
  BY <1>4, <1>8
<1> QED BY <1>8, <1>9, <1>10, <1>11, RowWritten

\* The writes of a request.
LEMMA ServiceSteps ==
  ASSUME R!IInv, NEW c \in Clients, R!CreateRevision(c) \/ R!DecideApproved(c) \/ R!DecideRejected(c)
  PROVE  ReviewStep
<1>1. /\ UNCHANGED <<inputs, package, link, application, decisions>> /\ CallsEnd
      /\ link' \in [ReviewGenerations -> Reviews \cup {NoReview}]
  BY CallEnds DEF R!CreateRevision, R!DecideApproved, R!DecideRejected, R!IInv, R!TypeOK
<1>2. client[c].pc \in {"patch", "approve", "reject"} /\ R!HasRead(c)
  BY DEF R!CreateRevision, R!DecideApproved, R!DecideRejected, R!IInv
<1>3. PICK r \in Reviews : r = client[c].review
  BY <1>2 DEF R!HasRead
<1>4. CASE UNCHANGED <<reviews, revisions, seen>>
  BY <1>1, <1>4, RowsRest, RowStep
<1>5. CASE R!CreateRevision(c)
  <2>1. CASE R!CasMatches(r, client[c].expected)
    <3>1. PICK edited \in BOOLEAN : /\ revisions' = [revisions EXCEPT ![r] = Append(@, edited)]
                                    /\ reviews' = [reviews EXCEPT ![r].version = @ + 1, ![r].overrides = edited]
      BY <1>3, <1>5, <2>1 DEF R!CreateRevision
    <3>2. reviews[r].status = "PENDING_REVIEW" /\ UNCHANGED seen
      BY <1>5, <2>1 DEF R!CreateRevision, R!CasMatches, R!Pending
    <3>3. RowsGoOn
      BY <3>1, <3>2, RowRevised
    <3> QED BY <1>1, <3>3, RowStep
  <2>2. CASE ~R!CasMatches(r, client[c].expected)
    BY <1>3, <1>4, <1>5, <2>2 DEF R!CreateRevision
  <2> QED BY <2>1, <2>2
<1>6. CASE R!DecideApproved(c)
  <2>1. CASE R!CasMatches(r, client[c].expected)
    <3>1. PICK number : number = client[c].revision
      OBVIOUS
    <3>2. PICK acknowledged \in BOOLEAN : acknowledged = client[c].acknowledged
      BY <1>2, <1>6 DEF R!HasRead, R!DecideApproved
    <3>3. /\ reviews' = R!Approved(r, number) /\ seen' = R!SeenAs(r, client[c].expected, acknowledged) /\ UNCHANGED revisions
      BY <1>3, <1>6, <2>1, <3>1, <3>2 DEF R!DecideApproved
    <3>4. client[c].pc = "approve"
      BY <1>6 DEF R!DecideApproved
    <3>5. client[c].expected = number /\ (revisions[r][number] => acknowledged)
      BY <1>2, <1>3, <3>1, <3>2, <3>4 DEF R!HasRead
    <3>6. reviews[r].status = "PENDING_REVIEW" /\ number = Len(revisions[r])
      <4>1. reviews[r].version = number /\ reviews[r].status = "PENDING_REVIEW"
        BY <2>1, <3>5 DEF R!CasMatches, R!Pending
      <4> QED BY <4>1 DEF R!IInv, R!RowFits
    <3>7. seen' = R!SeenAs(r, number, acknowledged)
      BY <3>3, <3>5
    <3>8. RowsGoOn
      BY <3>3, <3>5, <3>6, <3>7, RowApproved
    <3> QED BY <1>1, <3>8, RowStep
  <2>2. CASE ~R!CasMatches(r, client[c].expected)
    BY <1>3, <1>4, <1>6, <2>2 DEF R!DecideApproved
  <2> QED BY <2>1, <2>2
<1>7. CASE R!DecideRejected(c)
  <2>1. CASE R!CasMatches(r, client[c].expected) /\ R!MayReject(r)
    <3>1. reviews' = [reviews EXCEPT ![r].status = "REJECTED"] /\ UNCHANGED <<revisions, seen>>
      BY <1>3, <1>7, <2>1 DEF R!DecideRejected
    <3>2. reviews[r].status = "PENDING_REVIEW"
      BY <2>1 DEF R!CasMatches, R!Pending
    <3>3. RowsGoOn
      BY <2>1, <3>1, <3>2, RowRejected
    <3> QED BY <1>1, <3>3, RowStep
  <2>2. CASE ~(R!CasMatches(r, client[c].expected) /\ R!MayReject(r))
    BY <1>3, <1>4, <1>7, <2>2 DEF R!DecideRejected
  <2> QED BY <2>1, <2>2
<1> QED BY <1>5, <1>6, <1>7

\* Presses on the review card.
LEMMA ReviewCardSteps ==
  ASSUME R!IInv, NEW g \in ReviewGenerations, R!CardApproves(g) \/ R!CardRejects(g)
  PROVE  ReviewStep
<1>1. /\ UNCHANGED <<inputs, package, link, application, decisions, client, revisions>>
      /\ link' \in [ReviewGenerations -> Reviews \cup {NoReview}]
  BY DEF R!CardApproves, R!CardRejects, R!IInv, R!TypeOK
<1>2. CallsEnd
  BY <1>1, CallEnds
<1>3. PICK r \in Reviews : r = link[g]
  BY DEF R!CardApproves, R!CardRejects, R!IInv, R!TypeOK
<1>4. R!Unchanged(r)
  BY <1>3 DEF R!CardApproves, R!CardRejects
<1>5. reviews[r].status = "PENDING_REVIEW" /\ Len(revisions[r]) = 1 /\ ~revisions[r][1]
  <2>1. R!RowFits(r) /\ reviews[r].status = "PENDING_REVIEW" /\ reviews[r].version = 1 /\ ~reviews[r].overrides
    BY <1>4 DEF R!IInv, R!Unchanged, R!Pending
  <2>2. reviews[r].version = Len(revisions[r]) /\ (reviews[r].overrides = revisions[r][Len(revisions[r])])
    BY <2>1 DEF R!RowFits
  <2> QED BY <2>1, <2>2
<1>6. CASE R!CardApproves(g)
  <2>1. reviews' = R!Approved(r, 1) /\ seen' = R!SeenAs(r, 1, FALSE)
    BY <1>3, <1>6 DEF R!CardApproves
  <2>2. PICK number : number = 1
    OBVIOUS
  <2>3. PICK acknowledged \in BOOLEAN : acknowledged = FALSE
    OBVIOUS
  <2>4. RowsGoOn
    BY <1>1, <1>5, <2>1, <2>2, <2>3, RowApproved, Zenon
  <2> QED BY <1>1, <1>2, <2>4, RowStep
<1>7. CASE R!CardRejects(g)
  <2>1. reviews' = [reviews EXCEPT ![r].status = "REJECTED"] /\ R!MayReject(r) /\ UNCHANGED seen
    BY <1>3, <1>7 DEF R!CardRejects
  <2>2. RowsGoOn
    BY <1>1, <1>5, <2>1, RowRejected
  <2> QED BY <1>1, <1>2, <2>2, RowStep
<1> QED BY <1>6, <1>7

\* A decision continues the chain: a press is the first, and an override comes
\* after the one it supersedes, because its key would not be free otherwise.
LEMMA ChainGrows ==
  ASSUME R!IInv, NEW c \in Clients, client[c].pc = "decide", client[c].decision \in R!Finals,
         client[c].kind \in {"press", "override"}, R!KeyIsFree(c), R!AddDecision(c)
  PROVE  /\ R!DecisionsAreAChain'
         /\ decisions' \in Seq([decision : R!Finals, supersedes : Nat, key : {"press", "override"} \X Nat])
         /\ Len(decisions') = Len(decisions) + 1
         /\ decisions'[Len(decisions')].decision = client[c].decision
<1> DEFINE Decision == [decision : R!Finals, supersedes : Nat, key : {"press", "override"} \X Nat]
<1>1. PICK n \in Nat : n = Len(decisions)
  <2>1. Len(decisions) \in Nat
    BY DEF R!IInv, R!TypeOK
  <2> QED BY <2>1
<1>2. decisions \in Seq(Decision) /\ DOMAIN decisions = 1..n
  BY <1>1 DEF R!IInv, R!TypeOK
<1>3. R!HasRead(c)
  BY DEF R!IInv
<1>4. PICK entry : entry = [decision |-> client[c].decision, supersedes |-> client[c].supersedes, key |-> client[c].key]
  OBVIOUS
<1>5. /\ client[c].kind = "press" => client[c].supersedes = 0 /\ client[c].key = <<"press", 0>>
      /\ client[c].kind = "override" => client[c].supersedes \in 1..n /\ client[c].key = <<"override", client[c].supersedes - 1>>
  BY <1>1, <1>3 DEF R!HasRead
<1>6. /\ entry.decision = client[c].decision /\ entry.supersedes = client[c].supersedes /\ entry.key = client[c].key
      /\ entry \in Decision
  <2>1. client[c].supersedes \in Nat /\ client[c].key \in {"press", "override"} \X Nat
    <3>1. CASE client[c].kind = "press"
      BY <1>5, <3>1
    <3>2. CASE client[c].kind = "override"
      <4>1. PICK m \in Nat : m = client[c].supersedes - 1 /\ client[c].supersedes \in Nat
        BY <1>5, <3>2
      <4>2. client[c].key = <<"override", m>>
        BY <1>5, <3>2, <4>1
      <4> QED BY <4>1, <4>2
    <3> QED BY <3>1, <3>2
  <2> QED BY <1>4, <2>1
<1>7. decisions' = Append(decisions, entry)
  BY <1>4 DEF R!AddDecision
<1>8. /\ decisions' \in Seq(Decision) /\ Len(decisions') = n + 1 /\ decisions'[n + 1] = entry
      /\ \A k \in 1..n : decisions'[k] = decisions[k]
  <2> HIDE DEF Decision
  <2> QED BY <1>1, <1>2, <1>6, <1>7
<1>9. \A k \in 1..n : IF k = 1 THEN decisions[k].supersedes = 0 /\ decisions[k].key = <<"press", 0>>
                      ELSE decisions[k].supersedes = k - 1 /\ decisions[k].key = <<"override", k - 2>>
  BY <1>1 DEF R!IInv, R!DecisionsAreAChain
<1>10. IF n = 0 THEN entry.supersedes = 0 /\ entry.key = <<"press", 0>>
       ELSE entry.supersedes = n /\ entry.key = <<"override", n - 1>>
  <2>1. CASE client[c].kind = "press"
    <3>1. n = 0
      <4>1. n # 0 => 1 \in 1..n /\ decisions[1].key = <<"press", 0>>
        BY <1>9
      <4> QED BY <1>2, <1>5, <2>1, <4>1 DEF R!KeyIsFree
    <3> QED BY <1>5, <1>6, <2>1, <3>1
  <2>2. CASE client[c].kind = "override"
    <3>1. PICK m \in 1..n : m = client[c].supersedes /\ client[c].key = <<"override", m - 1>>
      BY <1>5, <2>2
    <3>2. m = n
      <4>1. SUFFICES ASSUME m # n PROVE FALSE
        OBVIOUS
      <4>2. m + 1 \in 1..n /\ m + 1 # 1 /\ (m + 1) - 2 = m - 1
        BY <3>1, <4>1
      <4>3. decisions[m + 1].key = <<"override", m - 1>>
        BY <1>9, <4>2
      <4> QED BY <1>2, <3>1, <4>2, <4>3 DEF R!KeyIsFree
    <3> QED BY <1>6, <3>1, <3>2
  <2> QED BY <2>1, <2>2
<1>11. R!DecisionsAreAChain'
  <2>1. ASSUME NEW k \in 1..(n + 1)
        PROVE  IF k = 1 THEN decisions'[k].supersedes = 0 /\ decisions'[k].key = <<"press", 0>>
               ELSE decisions'[k].supersedes = k - 1 /\ decisions'[k].key = <<"override", k - 2>>
    <3>1. CASE k \in 1..n
      BY <1>8, <1>9, <3>1
    <3>2. CASE k = n + 1
      <4>1. n = 0 \/ (k # 1 /\ k - 1 = n /\ k - 2 = n - 1)
        BY <3>2
      <4> QED BY <1>8, <1>10, <3>2, <4>1
    <3> QED BY <3>1, <3>2
  <2> QED BY <1>8, <2>1 DEF R!DecisionsAreAChain
<1> QED BY <1>1, <1>6, <1>8, <1>11

\* A decision is recorded: an APPROVE rests on an approved review.
LEMMA DecisionSteps ==
  ASSUME R!IInv, NEW c \in Clients, R!DecideApprove(c) \/ R!DecideSkip(c)
  PROVE  ReviewStep
<1>1. /\ UNCHANGED <<inputs, package, revisions, link>> /\ CallsEnd
      /\ link' \in [ReviewGenerations -> Reviews \cup {NoReview}]
      /\ client[c].pc = "decide"
  BY CallEnds DEF R!DecideApprove, R!DecideSkip, R!IInv, R!TypeOK
<1>2. /\ application.status # "none" /\ application.review \in Reviews
      /\ client[c].decision \in R!Finals /\ client[c].kind \in {"press", "override"}
      /\ application \in [status : R!AppStatuses, review : Reviews \cup {NoReview}]
  <2>1. R!HasRead(c)
    BY DEF R!IInv
  <2> QED BY <1>1, <2>1 DEF R!HasRead, R!IInv, R!TypeOK, R!DecisionsRest
<1>3. CASE UNCHANGED <<reviews, application, decisions, seen>>
  BY <1>1, <1>3, RowsRest, RowStep
<1>4. ASSUME R!KeyIsFree(c), R!AddDecision(c), RowsGoOn,
             application' \in [status : R!AppStatuses, review : Reviews \cup {NoReview}],
             application'.status # "none", application'.review = application.review,
             client[c].decision = "APPROVE" => reviews'[application.review].status = "APPROVED",
             application'.status = "APPROVED" => application.status = "APPROVED"
                                                \/ reviews'[application.review].status = "APPROVED"
      PROVE  ReviewStep
  <2>1. /\ R!DecisionsAreAChain'
        /\ decisions' \in Seq([decision : R!Finals, supersedes : Nat, key : {"press", "override"} \X Nat])
        /\ Len(decisions') = Len(decisions) + 1 /\ Len(decisions) \in Nat
        /\ decisions'[Len(decisions')].decision = client[c].decision
    <3>1. Len(decisions) \in Nat
      BY DEF R!IInv, R!TypeOK
    <3> QED BY <1>1, <1>2, <1>4, <3>1, ChainGrows
  <2>2. R!TypeOK'
    BY <1>1, <1>4, <2>1 DEF R!IInv, R!TypeOK, RowsGoOn
  <2>3. \A d \in Clients : R!HasRead(d)'
    <3>1. ASSUME NEW d \in Clients PROVE R!HasRead(d)'
      <4>1. client'[d] = client[d] \/ client'[d] = R!Idle
        BY <1>1 DEF CallsEnd
      <4>2. Len(decisions) <= Len(decisions')
        BY <2>1
      <4> QED BY <1>4, <4>1, <4>2, ReadStays, IdleHasRead
    <3> QED BY <3>1
  <2>4. R!DecisionsRest'
    BY <1>2, <1>4, <2>1 DEF R!DecisionsRest
  <2>5. R!IInv'
    BY <1>1, <1>4, <2>1, <2>2, <2>3, <2>4 DEF R!IInv, RowsGoOn, CallsEnd
  <2>6. R!ApprovesNoRejection
    <3>1. R!Contradiction' => R!Contradiction
      BY <1>2, <1>4 DEF R!Contradiction, RowsGoOn, R!MayReject
    <3> QED BY <3>1 DEF R!ApprovesNoRejection
  <2> QED BY <2>5, <2>6 DEF ReviewStep
<1>5. CASE R!DecideApprove(c)
  <2>1. client[c].decision = "APPROVE"
    BY <1>5 DEF R!DecideApprove
  <2>2. CASE R!KeyIsFree(c) /\ R!ReviewUnchanged(c) /\ application.status = "PACKAGE_READY"
    <3>1. PICK r \in Reviews : r = application.review
      BY <1>2
    <3>2. /\ R!AddDecision(c) /\ application' = [application EXCEPT !.status = "APPROVED"]
          /\ IF R!Pending(r)
             THEN reviews' = R!Approved(r, Len(revisions[r])) /\ seen' = R!SeenAs(r, client[c].header.version, FALSE)
             ELSE UNCHANGED <<reviews, seen>>
      BY <1>5, <2>2, <3>1 DEF R!DecideApprove
    <3>3. /\ application' \in [status : R!AppStatuses, review : Reviews \cup {NoReview}]
          /\ application'.status = "APPROVED" /\ application'.review = r
      BY <1>2, <3>1, <3>2 DEF R!AppStatuses
    <3>4. RowsGoOn /\ reviews'[r].status = "APPROVED"
      <4>1. R!PackageReady(r) /\ R!Header(r) = client[c].header
        BY <2>2, <3>1 DEF R!ReviewUnchanged
      <4>2. CASE R!Pending(r)
        <5>1. reviews[r].status = "PENDING_REVIEW" /\ ~reviews[r].overrides
          BY <4>1, <4>2 DEF R!PackageReady, R!Pending
        <5>2. PICK number : number = Len(revisions[r])
          OBVIOUS
        <5>3. R!RowFits(r)
          BY DEF R!IInv
        <5>4. reviews[r].version = number /\ reviews[r].overrides = revisions[r][number]
          BY <5>1, <5>2, <5>3 DEF R!RowFits
        <5>5. client[c].header.version = number
          BY <4>1, <5>4 DEF R!Header
        <5>6. PICK acknowledged \in BOOLEAN : acknowledged = FALSE
          OBVIOUS
        <5>7. reviews' = R!Approved(r, number) /\ seen' = R!SeenAs(r, number, acknowledged)
          BY <3>2, <4>2, <5>2, <5>5, <5>6
        <5>8. revisions[r][number] => acknowledged
          BY <5>1, <5>4
        <5> QED BY <1>1, <5>1, <5>2, <5>7, <5>8, RowApproved
      <4>3. CASE ~R!Pending(r)
        <5>1. reviews[r].status = "APPROVED" /\ UNCHANGED <<reviews, seen, revisions>>
          BY <1>1, <3>2, <4>1, <4>3 DEF R!PackageReady, R!Pending
        <5> QED BY <5>1, RowsRest
      <4> QED BY <4>2, <4>3
    <3> QED BY <1>4, <2>2, <3>1, <3>2, <3>3, <3>4
  <2>3. CASE ~(R!KeyIsFree(c) /\ R!ReviewUnchanged(c) /\ application.status = "PACKAGE_READY")
    BY <1>3, <1>5, <2>3 DEF R!DecideApprove
  <2> QED BY <2>2, <2>3
<1>6. CASE R!DecideSkip(c)
  <2>1. client[c].decision = "SKIP" /\ RowsGoOn /\ UNCHANGED <<reviews, seen>>
    BY <1>1, <1>6, RowsRest DEF R!DecideSkip
  <2>2. CASE R!KeyIsFree(c) /\ (client[c].kind = "override" => application.status = "APPROVED")
    <3>1. /\ R!AddDecision(c)
          /\ application' = IF client[c].kind = "press" THEN application ELSE [application EXCEPT !.status = "PACKAGE_READY"]
      BY <1>6, <2>2 DEF R!DecideSkip
    <3>2. /\ application' \in [status : R!AppStatuses, review : Reviews \cup {NoReview}]
          /\ application'.status # "none" /\ application'.review = application.review
          /\ application'.status = "APPROVED" => application.status = "APPROVED"
      BY <1>2, <3>1 DEF R!AppStatuses
    <3> QED BY <1>4, <2>1, <2>2, <3>1, <3>2
  <2>3. CASE ~(R!KeyIsFree(c) /\ (client[c].kind = "override" => application.status = "APPROVED"))
    BY <1>3, <1>6, <2>1, <2>3 DEF R!DecideSkip
  <2> QED BY <2>2, <2>3
<1> QED BY <1>5, <1>6

\* Nothing is reviewed at first.
LEMMA ReviewStarts == R!Init => R!IInv
<1> SUFFICES ASSUME R!Init PROVE R!IInv
  OBVIOUS
<1>1. R!TypeOK
  <2>1. reviews \in [Reviews -> R!ReviewRow]
    BY DEF R!Init, R!ReviewRow
  <2>2. /\ revisions \in [Reviews -> Seq(BOOLEAN)] /\ seen \in [Reviews -> [revision : Nat, acknowledged : BOOLEAN]]
        /\ decisions \in Seq([decision : R!Finals, supersedes : Nat, key : {"press", "override"} \X Nat])
    <3>1. decisions \in Seq([decision : R!Finals, supersedes : Nat, key : {"press", "override"} \X Nat])
      <4> DEFINE Decision == [decision : R!Finals, supersedes : Nat, key : {"press", "override"} \X Nat]
      <4> HIDE DEF Decision
      <4>1. decisions \in Seq(Decision)
        BY DEF R!Init
      <4> QED BY <4>1 DEF Decision
    <3>2. revisions \in [Reviews -> Seq(BOOLEAN)]
      BY DEF R!Init
    <3>3. seen \in [Reviews -> [revision : Nat, acknowledged : BOOLEAN]]
      BY DEF R!Init
    <3> QED BY <3>1, <3>2, <3>3
  <2>3. application \in [status : R!AppStatuses, review : Reviews \cup {NoReview}]
    BY DEF R!Init, R!AppStatuses
  <2>4. package \in [gen : Nat, inputs : Inputs] /\ inputs \in Inputs
    BY DEF R!Init
  <2> QED BY <2>1, <2>2, <2>3, <2>4 DEF R!Init, R!TypeOK
<1>2. /\ \A r \in Reviews : R!RowFits(r)
      /\ \A c \in Clients : R!HasRead(c)
      /\ R!DecisionsAreAChain /\ R!DecisionsRest
  BY DEF R!Init, R!RowFits, R!HasRead, R!Idle, R!DecisionsAreAChain, R!DecisionsRest
<1>3. client = [c \in Clients |-> client[c]]
  BY DEF R!Init
<1> QED BY <1>1, <1>2, <1>3 DEF R!IInv

\* The invariant is inductive, and no step approves over a rejection.
LEMMA ReviewInductive ==
  /\ R!Init => R!IInv
  /\ R!IInv /\ [R!Next]_(R!vars) => R!IInv' /\ R!ApprovesNoRejection
<1>1. ASSUME R!IInv, [R!Next]_(R!vars) PROVE ReviewStep
  <2>1. CASE R!Edit \/ R!Republish \/ R!TrackerCommand \/ (\E r \in Reviews : R!LinkApplication(r)) \/ UNCHANGED R!vars
    BY <1>1, <2>1, AroundSteps
  <2>2. ASSUME NEW r \in Reviews, R!Create(r) PROVE ReviewStep
    <3>1. /\ R!CreateReview(r) /\ UNCHANGED <<inputs, package, application, decisions, client, seen>>
          /\ link' \in [ReviewGenerations -> Reviews \cup {NoReview}]
      BY <1>1, <2>2 DEF R!Create, R!IInv, R!TypeOK
    <3> QED BY <1>1, <3>1, ReviewBegins
  <2>3. ASSUME NEW r \in Reviews, NEW g \in ReviewGenerations, R!RequestReview(g, r) PROVE ReviewStep
    <3>1. /\ R!CreateReview(r) /\ UNCHANGED <<inputs, package, application, decisions, client, seen>>
          /\ link' \in [ReviewGenerations -> Reviews \cup {NoReview}]
      BY <1>1, <2>3 DEF R!RequestReview, R!IInv, R!TypeOK
    <3> QED BY <1>1, <3>1, ReviewBegins
  <2>4. ASSUME NEW r \in Reviews, NEW c \in Clients, R!Patch(c, r) \/ R!Approve(c, r) \/ R!Reject(c, r)
        PROVE  ReviewStep
    BY <1>1, <2>4, ReaderSteps
  <2>5. ASSUME NEW g \in ReviewGenerations, R!CardApproves(g) \/ R!CardRejects(g) PROVE ReviewStep
    BY <1>1, <2>5, ReviewCardSteps
  <2>6. ASSUME NEW c \in Clients, R!CreateRevision(c) \/ R!DecideApproved(c) \/ R!DecideRejected(c) PROVE ReviewStep
    BY <1>1, <2>6, ServiceSteps
  <2>7. ASSUME NEW c \in Clients, NEW decision \in R!Finals, NEW way \in {"press", "override"},
               R!LoadTarget(c, decision, way)
        PROVE  ReviewStep
    BY <1>1, <2>7, TargetIsLoaded
  <2>8. ASSUME NEW c \in Clients, R!DecideApprove(c) \/ R!DecideSkip(c) PROVE ReviewStep
    BY <1>1, <2>8, DecisionSteps
  <2> QED BY <1>1, <2>1, <2>2, <2>3, <2>4, <2>5, <2>6, <2>7, <2>8 DEF R!Next
<1> QED BY <1>1, ReviewStarts DEF ReviewStep

\* The invariant says what the reviews and the decisions promise.
LEMMA ReviewSays == R!IInv => R!ReviewsAreSound
<1> SUFFICES ASSUME R!IInv PROVE R!ReviewsAreSound
  OBVIOUS
<1>1. R!TypeOK /\ R!DecisionsAreAChain
  BY DEF R!IInv
<1>2. R!ApprovedAsSeen
  <2>1. ASSUME NEW r \in Reviews, reviews[r].status = "APPROVED"
        PROVE  /\ reviews[r].approved = seen[r].revision /\ reviews[r].approved = Len(revisions[r])
               /\ revisions[r][reviews[r].approved] => seen[r].acknowledged
    BY <2>1 DEF R!IInv, R!RowFits
  <2> QED BY <2>1 DEF R!ApprovedAsSeen
<1>3. R!DecisionsAgree
  <2>1. R!Cardinality(R!Heads) <= 1
    <3>1. R!Cardinality(R!Heads) = Cardinality(R!Heads)
      BY DEF R!Cardinality, Cardinality
    <3>2. CASE decisions = <<>>
      BY <1>1, <3>1, <3>2, ChainHasOneHead, FS_EmptySet
    <3>3. CASE decisions # <<>>
      <4>1. R!Heads = {Len(decisions)}
        BY <1>1, <3>3, ChainHasOneHead
      <4>2. Cardinality({Len(decisions)}) = 1
        BY FS_Singleton
      <4> QED BY <3>1, <4>1, <4>2
    <3> QED BY <3>2, <3>3
  <2>2. R!Effective = "APPROVE" => reviews[application.review].status = "APPROVED"
    BY <1>1, ChainHasOneHead DEF R!IInv, R!DecisionsRest
  <2> QED BY <2>1, <2>2 DEF R!DecisionsAgree
<1> QED BY <1>1, <1>2, <1>3 DEF R!ReviewsAreSound

\* The invariant of the reviews holds in every reachable state.
THEOREM ReviewInvariance == R!Spec => []R!IInv
<1>1. R!IInv /\ [R!Next]_(R!vars) => R!IInv'
  BY ReviewInductive
<1> QED BY <1>1, ReviewInductive, PTL DEF R!Spec

-----------------------------------------------------------------------------
(* The specification that runs one of the parts                            *)

\* The row of an application is what its history says, no mail decides, and a
\* follow-up is due from a contact that happened (application_tracker.py, _write).
THEOREM TrackerOfRun == MCSpec => []TrackerIsSound
<1>1. MCInit => (part = "tracker" => T!IInv)
  BY TrackerConstants, TrackerInductive DEF MCInit
<1>2. (part = "tracker" => T!IInv) /\ [MCNext]_mcvars => (part = "tracker" => T!IInv)'
  <2> SUFFICES ASSUME part = "tracker" => T!IInv, [MCNext]_mcvars, part' = "tracker" PROVE T!IInv'
    OBVIOUS
  <2>1. part = "tracker" /\ [T!Next]_(T!vars)
    BY DEF MCNext, mcvars, tracker, T!vars
  <2> QED BY <2>1, TrackerConstants, TrackerInductive
<1>3. (part = "tracker" => T!IInv) => TrackerIsSound
  BY DEF T!IInv, TrackerIsSound
<1> QED BY <1>1, <1>2, <1>3, PTL DEF MCSpec

\* A card or a notification arrives at most once.
THEOREM CardOfRun == MCSpec => []OneMessagePerTarget
<1>1. MCInit => (part = "cards" => N!IInv)
  BY CardConstants, CardInductive DEF MCInit
<1>2. (part = "cards" => N!IInv) /\ [MCNext]_mcvars => (part = "cards" => N!IInv)'
  <2> SUFFICES ASSUME part = "cards" => N!IInv, [MCNext]_mcvars, part' = "cards" PROVE N!IInv'
    OBVIOUS
  <2>1. part = "cards" /\ [N!Next]_(N!vars)
    BY DEF MCNext, mcvars, cards, N!vars
  <2> QED BY <2>1, CardConstants, CardInductive
<1>3. (part = "cards" => N!IInv) => OneMessagePerTarget
  BY CardSays DEF OneMessagePerTarget
<1> QED BY <1>1, <1>2, <1>3, PTL DEF MCSpec

\* At most one card per vacancy is in the chat and its row tells the truth of it.
THEOREM FeedOfRun == MCSpec => []FeedIsSound
<1>1. MCInit => (part = "feed" => F!IInv)
  BY FeedConstants, FeedInductive DEF MCInit
<1>2. (part = "feed" => F!IInv) /\ [MCNext]_mcvars => (part = "feed" => F!IInv)'
  <2> SUFFICES ASSUME part = "feed" => F!IInv, [MCNext]_mcvars, part' = "feed" PROVE F!IInv'
    OBVIOUS
  <2>1. part = "feed" /\ [F!Next]_(F!vars)
    BY DEF MCNext, mcvars, feed, F!vars
  <2> QED BY <2>1, FeedConstants, FeedInductive
<1>3. (part = "feed" => F!IInv) => FeedIsSound
  BY DEF F!IInv, F!TypeOK, F!FeedIsSound, FeedIsSound
<1> QED BY <1>1, <1>2, <1>3, PTL DEF MCSpec

\* The entry of a package and the messages about it agree.
THEOREM PackageOfRun == MCSpec => []PackageIsSound
<1>1. MCInit => (part = "preparation" => P!IInv)
  BY PackageConstants, PackageInductive DEF MCInit
<1>2. (part = "preparation" => P!IInv) /\ [MCNext]_mcvars => (part = "preparation" => P!IInv)'
  <2> SUFFICES ASSUME part = "preparation" => P!IInv, [MCNext]_mcvars, part' = "preparation" PROVE P!IInv'
    OBVIOUS
  <2>1. part = "preparation" /\ [P!Next]_(P!vars)
    BY DEF MCNext, mcvars, preparation, P!vars
  <2> QED BY <2>1, PackageConstants, PackageInductive
<1>3. (part = "preparation" => P!IInv) => PackageIsSound
  BY DEF P!IInv, P!PackageIsSound, PackageIsSound
<1> QED BY <1>1, <1>2, <1>3, PTL DEF MCSpec

\* A thread named by an id holds at most one mail that opens it, a second one
\* is kept apart and the id contested; a mail counts as processed only when its
\* analysis and its draft are stored (gmail_repository.py,
\* _resolve_thread_for_message; automation_gmail.py).
THEOREM MailOfRun == MCSpec => []MailIsSound
<1>1. MCInit => (part = "mailbox" => G!IInv)
  BY MailConstants, MailInductive DEF MCInit
<1>2. (part = "mailbox" => G!IInv) /\ [MCNext]_mcvars => (part = "mailbox" => G!IInv)'
  <2> SUFFICES ASSUME part = "mailbox" => G!IInv, [MCNext]_mcvars, part' = "mailbox" PROVE G!IInv'
    OBVIOUS
  <2>1. part = "mailbox" /\ [G!Next]_(G!vars)
    BY DEF MCNext, mcvars, gmail, G!vars, G!server, G!rows
  <2> QED BY <2>1, MailConstants, MailInductive
<1>3. (part = "mailbox" => G!IInv) => MailIsSound
  BY MailSays DEF MailIsSound
<1> QED BY <1>1, <1>2, <1>3, PTL DEF MCSpec

\* What reviews and decisions keep, and that a rejection is not approved over
\* (application_submission_readiness.py, set_decision).
THEOREM ReviewOfRun == MCSpec => ReviewsAreSound
<1> DEFINE Inv == part = "review" => R!IInv
<1>1. MCInit => Inv
  BY ReviewInductive DEF MCInit
<1>2. Inv /\ [MCNext]_mcvars => Inv' /\ [part = "review" => R!ApprovesNoRejection]_review
  <2> SUFFICES ASSUME Inv, [MCNext]_mcvars
               PROVE  Inv' /\ (part = "review" => R!ApprovesNoRejection)
    OBVIOUS
  <2>1. CASE part # "review"
    BY <2>1 DEF MCNext, mcvars
  <2>2. CASE part = "review"
    <3>1. [R!Next]_(R!vars)
      BY <2>2 DEF MCNext, mcvars, review, R!vars
    <3> QED BY <2>2, <3>1, ReviewInductive
  <2> QED BY <2>1, <2>2
<1>3. Inv => (part = "review" => R!ReviewsAreSound)
  BY ReviewSays
<1> QED BY <1>1, <1>2, <1>3, PTL DEF MCSpec, ReviewsAreSound

\* Where another part runs, eligibility rests.
THEOREM EligibilityOfRun == MCSpec => NoReplyIsOverlooked /\ AnchorIsLastMail
<1>1. MCInit => Init
  BY DEF MCInit
<1>2. [MCNext]_mcvars => [Next]_vars
  BY DEF MCNext, mcvars, eligibility
<1> QED BY <1>1, <1>2, Unanswered, LastMail, PTL DEF MCSpec, Spec
=============================================================================
