---------------------------- MODULE MailJudgement ----------------------------
(***************************************************************************)
(* What is concluded from a mail of an employer: what it says               *)
(* (app/agents/email_classifier.py, application_response_classifier.py),    *)
(* which job and which application it is about (app/services/               *)
(* email_matching.py, application_correlation.py), who wrote it             *)
(* (sender_authentication.py), whether a person must look at it             *)
(* (gmail_message_analysis.py, application_response_processor.py), and      *)
(* whether the mailboxes were read to the end.  Pure; what a pattern finds   *)
(* in a text is an input.                                                   *)
(***************************************************************************)
EXTENDS Integers, FiniteSets, Sequences, SequencesExt

CONSTANTS
    None,
    PerPage,   \* MAX_MESSAGES_PER_SYNC
    MaxPages   \* MAX_APPLICATION_SCAN_PAGES

TheOnly(set) == CHOOSE x \in set : TRUE
IsOne(set) == Cardinality(set) = 1

-----------------------------------------------------------------------------
(* What a mail says                                                          *)

\* A text is a set of sentences, each with its mentions of a category (in a
\* negated clause or not) and with words that a decision is pending.
Precedence == <<"OFFER", "REJECTION", "INTERVIEW_RESCHEDULE", "INTERVIEW_INVITATION",
                "WITHDRAWAL_OR_POSITION_CLOSED", "REQUEST_FOR_INFORMATION", "APPLICATION_RECEIVED">>

ContradictRejection == {"OFFER", "INTERVIEW_INVITATION", "INTERVIEW_RESCHEDULE"}

MatchedCategories(text) ==
    UNION {{m.category : m \in {n \in s.mentions :
                                  /\ ~n.negated
                                  /\ ~(n.category = "REJECTION" /\ n.openEnded /\ s.pending)}} :
              s \in text.sentences}

Classified(category, confidence) == [category |-> category, confidence |-> confidence]

ResolveCategory(matched) ==
    IF "REJECTION" \in matched /\ matched \cap ContradictRejection # {} THEN Classified("OTHER", "LOW")
    ELSE IF matched = {} THEN Classified("UNKNOWN", "LOW")
    ELSE Classified(SelectSeq(Precedence, LAMBDA c : c \in matched)[1], "HIGH")

ClassifyEmail(text) ==
    LET base == ResolveCategory(MatchedCategories(text)) IN
    IF base.category # "UNKNOWN" THEN base
    ELSE IF text.automated THEN Classified("AUTOMATED_NOTIFICATION", "MEDIUM")
    ELSE IF text.recruiting THEN Classified("GENERAL_RECRUITER_MESSAGE", "LOW")
    ELSE base

\* What the lifecycle of an application understands; a text says "marker", an
\* affirmed technical interview, "invitation" to one, or "review".
ClassifyResponse(text) ==
    LET base == ClassifyEmail(text)
        as(class) == [class |-> class, confidence |-> base.confidence]
        sure(class) == [class |-> class, confidence |-> "HIGH"]
    IN  CASE base.category \in {"INTERVIEW_INVITATION", "INTERVIEW_RESCHEDULE"} ->
               as(IF "marker" \in text.says THEN "TECHNICAL_INTERVIEW_INVITATION" ELSE "INTERVIEW_INVITATION")
          [] base.category = "APPLICATION_RECEIVED" -> as("RECEIPT_CONFIRMATION")
          [] base.category \in {"REQUEST_FOR_INFORMATION", "REJECTION", "OFFER"} -> as(base.category)
          [] base.category \in {"UNKNOWN", "GENERAL_RECRUITER_MESSAGE", "AUTOMATED_NOTIFICATION"} ->
               (IF "invitation" \in text.says THEN sure("TECHNICAL_INTERVIEW_INVITATION")
                ELSE IF "review" \in text.says THEN sure("UNDER_REVIEW_NOTICE")
                ELSE as(IF base.category = "UNKNOWN" THEN "UNKNOWN" ELSE "OTHER_APPLICATION_MESSAGE"))
          [] OTHER -> as("OTHER_APPLICATION_MESSAGE")

-----------------------------------------------------------------------------
(* Which job a mail is about                                                 *)

\* A job, and what of it the mail repeats: its name, its site's domain, words of
\* its title, its place.  tokens are the ids found in a text and its URLs, in
\* their order; full is the posting's own reference.
MaxReferenceTokens == 10
Tokens(found) == {t \in found : Cardinality({u \in found : u < t}) < MaxReferenceTokens}

SharesReference(job, mail) ==
    Tokens(job.tokens) \cap Tokens(mail.tokens) # {} \/ (job.full # None /\ job.full \in mail.full)

AtMost(n, m) == IF n < m THEN n ELSE m

Score(job, mail) ==
    (IF job.company THEN 35 ELSE 0) + (IF job.site = mail.domain /\ mail.domain # None /\ ~mail.free THEN 20 ELSE 0)
    + 6 * AtMost(job.distinctive, 4) + 2 * AtMost(job.generic, 3) + (IF job.place THEN 8 ELSE 0)

AmbiguityMargin == 10
ConfidenceOf(score) == IF score >= 70 THEN "HIGH" ELSE IF score >= 30 THEN "MEDIUM" ELSE "LOW"

Found(job, type, confidence) == [job |-> job, type |-> type, confidence |-> confidence]
Ambiguous(confidence) == Found(None, "AMBIGUOUS", confidence)
TypeFor(job) == IF job.applied THEN "APPLICATION" ELSE "JOB_ONLY"

\* prior: what the other mails of the thread were found to be about, the latest first.
ByThread(prior, jobs) ==
    LET id == prior[1].job
        known == {j \in jobs : j.id = id}
    IN  Found(id, IF known = {} THEN prior[1].type ELSE TypeFor(TheOnly(known)), "LOW")

ByScore(mail, jobs) ==
    LET near(scored) == {j \in scored : \A k \in scored : Score(j, mail) >= Score(k, mail) - AmbiguityMargin}
        top(close) == CHOOSE j \in close : \A k \in close : Score(j, mail) >= Score(k, mail)
        only(j) == Found(j.id, TypeFor(j), ConfidenceOf(Score(j, mail)))
        from(close) ==
            IF close = {} THEN Found(None, "UNMATCHED", "LOW")
            ELSE IF IsOne(close) THEN only(TheOnly(close))
            ELSE Ambiguous(ConfidenceOf(Score(top(close), mail)))
    IN  from(near({j \in jobs : Score(j, mail) > 0}))

MatchEmail(mail, jobs, prior) ==
    LET history == {prior[k].job : k \in DOMAIN prior}
        byName(job) == IF IsOne(history) /\ history # {job.id} THEN Ambiguous("HIGH") ELSE Found(job.id, TypeFor(job), "HIGH")
        from(named) ==
            IF IsOne(named) THEN byName(TheOnly(named))
            ELSE IF named # {} THEN Ambiguous("HIGH")
            ELSE IF IsOne(history) THEN ByThread(prior, jobs)
            ELSE ByScore(mail, jobs)
    IN  from({j \in jobs : SharesReference(j, mail)})

RequiresHumanReview(match, classified) ==
    \/ match.type = "AMBIGUOUS" \/ match.confidence = "LOW" \/ classified.confidence = "LOW"
    \/ match.type # "UNMATCHED" \/ classified.category # "UNKNOWN"

-----------------------------------------------------------------------------
(* Which application a mail is about                                         *)

Rank(confidence) == CASE confidence = "HIGH" -> 3 [] confidence = "MEDIUM" -> 2 [] confidence = "LOW" -> 1 [] OTHER -> 0

Grade(signals) ==
    CASE \/ "DOMAIN" \in signals /\ signals \cap {"ROLE", "REFERENCE"} # {}
         \/ {"REFERENCE", "COMPANY"} \subseteq signals -> "HIGH"
      [] \/ "DOMAIN" \in signals /\ signals \cap {"COMPANY", "THREAD"} # {}
         \/ "COMPANY" \in signals /\ signals \cap {"ROLE", "SENDER"} # {} -> "MEDIUM"
      [] OTHER -> IF signals # {} THEN "LOW" ELSE "NONE"

\* The response window, in hours from the submission.
InResponseWindow(application, mail) ==
    /\ mail.at # None /\ application.submitted # None
    /\ mail.at - application.submitted \in (-1)..(365 * 24)

\* The one application that a known sender speaks for.
SenderSpeaksFor(mail, pool) ==
    LET named == {a \in pool : "COMPANY" \in a.signals}
        peers(a) == {b \in pool \ {a} : b.employer = a.employer}
    IN  IF mail.sender /\ IsOne(named) THEN {a \in named : a.seen /\ a.employer # None /\ peers(a) = {}} ELSE {}

Result(status, application, confidence, signals) ==
    [status |-> status, application |-> application, confidence |-> confidence, signals |-> signals]
Unmatched == Result("UNMATCHED", None, "NONE", {})

\* Not a reply of an employer, or without a time that can be trusted.
IsDisregarded(mail) == mail.outbound \/ mail.own \/ mail.platform \/ mail.at = None

\* The signs of every application that the mail may answer; the best of them.
Evaluated(mail, pool) ==
    {[id |-> a.id, signals |-> a.signals \cup (IF a \in SenderSpeaksFor(mail, pool) THEN {"SENDER"} ELSE {})] : a \in pool}
TopRanked(set) == {e \in set : \A f \in set : Rank(Grade(e.signals)) >= Rank(Grade(f.signals))}
MostSigns(set) == {e \in set : \A f \in set : Cardinality(e.signals) >= Cardinality(f.signals)}

Correlate(mail, applications) ==
    LET from(winners) ==
            IF winners = {} THEN Unmatched
            ELSE LET winner == CHOOSE e \in winners : TRUE IN
                 IF IsOne(winners) THEN Result("MATCHED", winner.id, Grade(winner.signals), winner.signals)
                 ELSE Result("AMBIGUOUS", None, Grade(winner.signals), {})
    IN  IF IsDisregarded(mail) THEN Unmatched
        ELSE from(MostSigns(TopRanked({e \in Evaluated(mail, {a \in applications : InResponseWindow(a, mail)}) :
                                          e.signals # {}})))

NeedsSender(signals) == "SENDER" \in signals /\ Rank(Grade(signals \ {"SENDER"})) < Rank("MEDIUM")

-----------------------------------------------------------------------------
(* What the processor makes of it                                            *)

Reviewable == {"RECEIPT_CONFIRMATION", "UNDER_REVIEW_NOTICE", "INTERVIEW_INVITATION",
               "TECHNICAL_INTERVIEW_INVITATION", "REQUEST_FOR_INFORMATION", "OFFER", "REJECTION"}
Terminal == {"REJECTED", "WITHDRAWN", "OFFER"}

Answers(class) ==
    CASE class = "RECEIPT_CONFIRMATION" -> {"RECEIVED", "UNDER_REVIEW"}
      [] class = "UNDER_REVIEW_NOTICE" -> {"UNDER_REVIEW"}
      [] class = "INTERVIEW_INVITATION" -> {"INTERVIEW", "TECHNICAL_INTERVIEW"}
      [] class = "TECHNICAL_INTERVIEW_INVITATION" -> {"TECHNICAL_INTERVIEW"}
      [] OTHER -> {}

\* decided: what the operator recorded of the application, and when.
OperatorActedSince(application, mail, class) ==
    \E d \in application.decided : d.status \in Answers(class) \cup Terminal /\ d.at >= mail.at

\* writes: an event is recorded for the application; review: a person is asked.
Verdict(application, writes, review) == [application |-> application, writes |-> writes, review |-> review]

\* The applications that a mail without any sign may be about: its sender wrote
\* about them before.
KnownFor(mail, applications) ==
    IF IsDisregarded(mail) \/ ~mail.sender THEN {} ELSE {a \in applications : InResponseWindow(a, mail) /\ a.seen}

Process(mail, applications, class) ==
    LET known == KnownFor(mail, applications)
        isHandled == IsOne(known) /\ OperatorActedSince(TheOnly(known), mail, class)
        from(c) ==
            CASE c.status = "UNMATCHED" -> Verdict(None, FALSE, known # {} /\ class \in Reviewable /\ ~isHandled)
              [] c.status = "AMBIGUOUS" -> Verdict(None, FALSE, class \in Reviewable)
              [] c.status = "MATCHED" ->
                   IF mail.processed THEN Verdict(c.application, FALSE, FALSE)
                   ELSE IF Rank(c.confidence) < Rank("MEDIUM") THEN Verdict(c.application, FALSE, class \in Reviewable)
                   ELSE IF NeedsSender(c.signals) THEN Verdict(c.application, FALSE, TRUE)
                   ELSE Verdict(c.application, TRUE,
                                /\ class \in {"OFFER", "REJECTION"}
                                /\ \E a \in applications : a.id = c.application /\ a.status \notin Terminal)
    IN  from(Correlate(mail, applications))

-----------------------------------------------------------------------------
(* Who wrote it                                                              *)

\* An Authentication-Results header: who added it, whether it can be read at all,
\* and its results; a result names the domains of header.from it speaks of.
SenderAuth(headers, fromHeaders, domain) ==
    LET top == headers[1]
        dmarc == SelectSeq(top.results, LAMBDA r : r.method = "dmarc")
    IN  IF \/ fromHeaders # 1 \/ domain = None \/ headers = <<>>
           \/ ~top.readable \/ ~top.trusted
           \/ \E k \in DOMAIN top.results : top.results[k].malformed
           \/ Len(dmarc) # 1
        THEN "UNVERIFIED"
        ELSE IF Len(dmarc[1].from) # 1 THEN "UNVERIFIED"
        ELSE IF dmarc[1].result = "fail" THEN "FAILED"
        ELSE IF dmarc[1].result = "pass" /\ dmarc[1].from[1] = domain THEN "DMARC_ALIGNED"
        ELSE "UNVERIFIED"

-----------------------------------------------------------------------------
(* The mailboxes of the applicant                                            *)

\* A box: its mails by uid, each with a Message-ID (or None) and its kind: "good",
\* "poison" (never readable) or "late" (readable from the second page); the page
\* that fails, if any, and the page that the deadline cuts after one mail.
Page(box, n, known) ==
    LET unknown == DOMAIN box.mails \ known
        oldest == {u \in unknown : Cardinality({v \in unknown : v < u}) < PerPage}
        tried == IF n = box.cut THEN {u \in oldest : \A v \in oldest : u <= v} ELSE oldest
        readable(u) == box.mails[u].kind = "good" \/ (box.mails[u].kind = "late" /\ n > 1)
        permanent == {u \in tried : box.mails[u].kind = "poison"}
    IN  [got |-> {u \in tried : readable(u)}, permanent |-> permanent, cut |-> n = box.cut,
         skipped |-> Cardinality(unknown) - Cardinality(oldest) + Cardinality({u \in tried : ~readable(u)})]

\* The reading of a box, page by page, until nothing is left, nothing comes any
\* more, or it fails.
ReadPage(s, page) ==
    [s EXCEPT !.handled = @ \cup page.got \cup page.permanent, !.got = @ \o SetToSortSeq(page.got, <), !.page = page,
              !.earlier = @ + (IF s.page = None THEN 0 ELSE Cardinality(s.page.permanent)),
              !.stopped = page.cut \/ page.skipped = 0 \/ page.got \cup page.permanent = {}]

Scan(box) ==
    LET start == [handled |-> {}, got |-> <<>>, earlier |-> 0, page |-> None, error |-> FALSE, stopped |-> FALSE]
        next(s, n) ==
            IF s.stopped THEN s
            ELSE IF n = box.fails THEN [s EXCEPT !.error = TRUE, !.stopped = TRUE]
            ELSE ReadPage(s, Page(box, n, s.handled))
        after[n \in 0..MaxPages] == IF n = 0 THEN start ELSE next(after[n - 1], n)
    IN  after[MaxPages]

IsComplete(scan) ==
    /\ ~scan.error
    /\ scan.page # None => ~scan.page.cut /\ scan.earlier + scan.page.skipped = 0

\* The mails that were read of all boxes, as <<box, uid>>, without one whose
\* Message-ID was read before, in this box or in an earlier one.
Merged(boxes, scans) ==
    LET id(pair) == boxes[pair[1]].mails[pair[2]].id
        first(read) == {read[k] : k \in {m \in DOMAIN read : id(read[m]) = None \/ \A n \in 1..(m - 1) : id(read[n]) # id(read[m])}}
    IN  first(FlattenSeq([b \in DOMAIN boxes |-> [k \in DOMAIN scans[b].got |-> <<b, scans[b].got[k]>>]]))

-----------------------------------------------------------------------------
(* What must hold                                                            *)

\* A text that rejects and also invites or offers moves nothing and proposes
\* nothing, whatever else it says; and a text is only a rejection if it says so
\* in a clause that is not negated.
ContradictionMovesNothing(text) ==
    LET holds(matched, class) ==
            /\ "REJECTION" \in matched /\ matched \cap ContradictRejection # {} => class \notin Reviewable
            /\ class = "REJECTION" => \E s \in text.sentences : \E m \in s.mentions : m.category = "REJECTION" /\ ~m.negated
            /\ class = "OFFER" => "OFFER" \in matched
    IN  holds(MatchedCategories(text), ClassifyResponse(text).class)

\* One more job in the pool never turns a mail about one job into a mail about
\* another of the jobs that were there; a job is never named against the
\* reference of the mail, or against the one job of its thread, and a thread about
\* two jobs counts for nothing; the words that many postings share, or a place, are
\* no evidence; and a person looks at every mail.
MatchIsNoGuess(mail, jobs, prior) ==
    LET named == {j.id : j \in {k \in jobs : SharesReference(k, mail)}}
        history == {prior[k].job : k \in DOMAIN prior}
        holds(found) ==
            /\ \A k \in jobs : found.job \in {None, k.id, MatchEmail(mail, jobs \ {k}, prior).job}
            /\ named # {} => found.job \in named \cup {None} /\ found.confidence = "HIGH"
            /\ found.job # None /\ IsOne(history) => found.job \in history
            /\ ~IsOne(history) => found = MatchEmail(mail, jobs, <<>>)
            /\ found.job # None /\ found.confidence # "LOW" =>
                  \E j \in jobs : /\ j.id = found.job
                                  /\ \/ SharesReference(j, mail) \/ j.company \/ j.distinctive > 0
                                     \/ j.site = mail.domain /\ ~mail.free
            /\ \A class \in {"UNKNOWN", "AUTOMATED_NOTIFICATION"} :
                  RequiresHumanReview(found, Classified(class, "MEDIUM"))
    IN  holds(MatchEmail(mail, jobs, prior))

\* Nothing is written that the mail alone would not justify: a known sender never
\* lifts an application over the threshold, nor decides between two of one
\* employer.
SenderOnlySupports(mail, applications, class) ==
    LET holds(verdict, alone) ==
            \A a \in applications :
                verdict.writes /\ verdict.application = a.id =>
                    /\ Rank(Grade(a.signals)) >= Rank("MEDIUM") /\ Rank(alone.confidence) <= Rank(Grade(a.signals))
                    /\ alone.application # a.id =>
                          \A b \in applications \ {a} : InResponseWindow(b, mail) => b.employer # a.employer
    IN  holds(Process(mail, applications, class), Correlate([mail EXCEPT !.sender = FALSE], applications))

\* An answer that matters and names an application, or comes from a sender it
\* knows, is recorded, or a person is asked, or one has already acted on every
\* application that it can be about.
NothingIsDropped(mail, applications, class) ==
    LET isTakenUp(verdict) ==
            \/ verdict.writes \/ verdict.review
            \/ /\ KnownFor(mail, applications) # {}
               /\ \A a \in KnownFor(mail, applications) : OperatorActedSince(a, mail, class)
    IN  /\ class \in Reviewable /\ ~IsDisregarded(mail) /\ ~mail.processed
        /\ \E a \in applications : InResponseWindow(a, mail) /\ (a.signals # {} \/ (mail.sender /\ a.seen))
        => isTakenUp(Process(mail, applications, class))

\* What a sender's domain is believed for, it was told by one clause of the
\* topmost header; nothing below it or added to it makes it believed.
BeliefHasOneSource(headers, fromHeaders, domain) ==
    SenderAuth(headers, fromHeaders, domain) = "DMARC_ALIGNED" =>
        /\ SenderAuth(SubSeq(headers, 1, 1), 1, domain) = "DMARC_ALIGNED"
        /\ \A k \in DOMAIN headers[1].results :
              LET r == headers[1].results[k] IN r.method = "dmarc" => r.result = "pass" /\ r.from = <<domain>>
        /\ \A k \in DOMAIN headers[1].results :
              LET without == [headers[1] EXCEPT !.results = RemoveAt(@, k)] IN
              SenderAuth(<<without>>, 1, domain) \in {"DMARC_ALIGNED", "UNVERIFIED"}

\* A reading that is reported complete handed over every mail of every box, each
\* Message-ID once.
ScanTellsTheTruth(boxes) ==
    LET id(p) == boxes[p[1]].mails[p[2]].id
        all == UNION {{b} \X DOMAIN boxes[b].mails : b \in DOMAIN boxes}
        holds(scans, merged) ==
            /\ \A p, q \in merged : p # q /\ id(p) # None => id(p) # id(q)
            /\ (\A b \in DOMAIN boxes : IsComplete(scans[b])) =>
                  \A p \in all : IF id(p) = None THEN p \in merged ELSE \E q \in merged : id(q) = id(p)
        of(scans) == holds(scans, Merged(boxes, scans))
    IN  of([b \in DOMAIN boxes |-> Scan(boxes[b])])

=============================================================================
