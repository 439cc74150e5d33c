--------------------------- MODULE PackageReview ---------------------------
(***************************************************************************)
(* The review of an application package and the three ways to decide it:   *)
(* the REST service (app/services/review_package.py), the buttons of the    *)
(* review card in Telegram (app/services/telegram_bewerbung_approval.py)    *)
(* and the operator card that also moves the application                    *)
(* (app/services/telegram_operator_control.py).                             *)
(*                                                                          *)
(* A REST request and an operator press read first and write later, by a    *)
(* compare-and-swap; a press on the review card runs under the locks of     *)
(* profile, job and package from its first read to its commit.              *)
(***************************************************************************)
EXTENDS Naturals, Sequences, FiniteSets

CONSTANTS
    Reviews,      \* review ids
    Clients,      \* REST requests, operator presses and overrides under way
    Inputs,       \* job content and profile version
    Generations,  \* generations of the prepared package
    MaxVersion,   \* bound: revisions of one review
    MaxDecisions, \* bound: operator decisions
    NoReview

VARIABLES
    inputs,     \* the inputs as they are now
    package,    \* the prepared package: its generation, its inputs
    reviews,    \* header rows: status, version, overrides, inputs, approved revision
    revisions,  \* revisions[r][n]: revision n holds manual edits
    link,       \* link[g]: the review that the card of generation g decides
    app,        \* the application: the review it is linked to, its status
    decisions,  \* operator decisions of the application, oldest first
    client,     \* client[c]: what c has read
    seen        \* history: seen[r], the revision that was approved and how

vars == <<inputs, package, reviews, revisions, link, app, decisions, client, seen>>

Finals == {"APPROVE", "SKIP"}
Idle == [pc |-> "idle"]
AppStatuses == {"none", "PACKAGE_READY", "APPROVED", "SUBMITTED"}

ReviewRow == [status : {"none", "PENDING_REVIEW", "APPROVED", "REJECTED"}, version : Nat,
              overrides : BOOLEAN, inputs : Inputs, approved : Nat]

TypeOK ==
    /\ inputs \in Inputs
    /\ package \in [gen : Nat, inputs : Inputs]
    /\ reviews \in [Reviews -> ReviewRow]
    /\ revisions \in [Reviews -> Seq(BOOLEAN)]
    /\ link \in [Generations -> Reviews \cup {NoReview}]
    /\ app \in [status : AppStatuses, review : Reviews \cup {NoReview}]
    /\ decisions \in Seq([decision : Finals, supersedes : Nat, key : {"press", "override"} \X Nat])
    /\ seen \in [Reviews -> [revision : Nat, acknowledged : BOOLEAN]]

Init ==
    /\ inputs \in Inputs
    /\ package \in [gen : {1}, inputs : {inputs}]
    /\ reviews = [r \in Reviews |-> [status |-> "none", version |-> 0, overrides |-> FALSE,
                                     inputs |-> inputs, approved |-> 0]]
    /\ revisions = [r \in Reviews |-> <<>>]
    /\ link = [g \in Generations |-> NoReview]
    /\ app = [status |-> "none", review |-> NoReview]
    /\ decisions = <<>>
    /\ client = [c \in Clients |-> Idle]
    /\ seen = [r \in Reviews |-> [revision |-> 0, acknowledged |-> FALSE]]

Becomes(c, record) == client' = [client EXCEPT ![c] = record]
Ends(c) == Becomes(c, Idle)
Pending(r) == reviews[r].status = "PENDING_REVIEW"

-----------------------------------------------------------------------------
(* Job, profile and package move on                                         *)

Edit ==
    /\ inputs' \in Inputs \ {inputs}
    /\ UNCHANGED <<package, reviews, revisions, link, app, decisions, client, seen>>

Republish ==
    /\ package.gen + 1 \in Generations
    /\ package' = [gen |-> package.gen + 1, inputs |-> inputs]
    /\ UNCHANGED <<inputs, reviews, revisions, link, app, decisions, client, seen>>

-----------------------------------------------------------------------------
(* The review service                                                       *)

CreateReview(r) ==
    /\ reviews[r].status = "none"
    /\ reviews' = [reviews EXCEPT ![r] = [status |-> "PENDING_REVIEW", version |-> 1,
                       overrides |-> FALSE, inputs |-> inputs, approved |-> 0]]
    /\ revisions' = [revisions EXCEPT ![r] = <<FALSE>>]

\* Duplicates are legal for REST callers.
Create(r) ==
    /\ CreateReview(r)
    /\ UNCHANGED <<inputs, package, link, app, decisions, client, seen>>

Patch(c, r) ==
    /\ client[c].pc = "idle"
    /\ Pending(r)
    /\ \E expected \in 1..reviews[r].version :
           Becomes(c, [pc |-> "patch", review |-> r, expected |-> expected])
    /\ UNCHANGED <<inputs, package, reviews, revisions, link, app, decisions, seen>>

\* Mutant: a review that is pending is taken for unchanged.
CasMatchesPending(r, expected) == Pending(r)

\* What every write asks of the row at its very moment.
CasMatches(r, expected) == Pending(r) /\ reviews[r].version = expected

CreateRevision(c) ==
    LET r == client[c].review IN
    /\ client[c].pc = "patch"
    /\ IF CasMatches(r, client[c].expected)
       THEN /\ client[c].expected < MaxVersion
            /\ \E edited \in BOOLEAN :
                   /\ revisions' = [revisions EXCEPT ![r] = Append(@, edited)]
                   /\ reviews' = [reviews EXCEPT ![r].version = @ + 1, ![r].overrides = edited]
       ELSE UNCHANGED <<reviews, revisions>>
    /\ Ends(c)
    /\ UNCHANGED <<inputs, package, link, app, decisions, seen>>

Fresh(r) == reviews[r].inputs = inputs

\* The version a person saw is the one read; manual edits need an acknowledgment.
Approve(c, r) ==
    /\ client[c].pc = "idle"
    /\ Pending(r) /\ Fresh(r)
    /\ \E acknowledged \in BOOLEAN :
           /\ reviews[r].overrides => acknowledged
           /\ Becomes(c, [pc |-> "approve", review |-> r, expected |-> reviews[r].version,
                          revision |-> Len(revisions[r]), acknowledged |-> acknowledged])
    /\ UNCHANGED <<inputs, package, reviews, revisions, link, app, decisions, seen>>

Approved(r, revision) == [reviews EXCEPT ![r].status = "APPROVED", ![r].approved = revision]
SeenAs(r, revision, acknowledged) ==
    [seen EXCEPT ![r] = [revision |-> revision, acknowledged |-> acknowledged]]

DecideApproved(c) ==
    LET r == client[c].review IN
    /\ client[c].pc = "approve"
    /\ IF CasMatches(r, client[c].expected)
       THEN /\ reviews' = Approved(r, client[c].revision)
            /\ seen' = SeenAs(r, client[c].expected, client[c].acknowledged)
       ELSE UNCHANGED <<reviews, seen>>
    /\ Ends(c)
    /\ UNCHANGED <<inputs, package, revisions, link, app, decisions>>

Reject(c, r) ==
    /\ client[c].pc = "idle"
    /\ Pending(r)
    /\ \E expected \in 1..reviews[r].version :
           Becomes(c, [pc |-> "reject", review |-> r, expected |-> expected])
    /\ UNCHANGED <<inputs, package, reviews, revisions, link, app, decisions, seen>>

\* Mutant: a review is rejected whatever rests on it.
MayAlwaysReject(r) == TRUE

\* Refused while the application that rests on the review is approved.
MayReject(r) == ~(app.review = r /\ app.status = "APPROVED")

DecideRejected(c) ==
    LET r == client[c].review IN
    /\ client[c].pc = "reject"
    /\ reviews' = IF CasMatches(r, client[c].expected) /\ MayReject(r)
                  THEN [reviews EXCEPT ![r].status = "REJECTED"] ELSE reviews
    /\ Ends(c)
    /\ UNCHANGED <<inputs, package, revisions, link, app, decisions, seen>>

-----------------------------------------------------------------------------
(* The review card                                                          *)

PackageCurrent(g) == package.gen = g /\ package.inputs = inputs

\* "Zur Pruefung": the card of a generation decides one review, however often pressed.
RequestReview(g, r) ==
    /\ PackageCurrent(g)
    /\ link[g] = NoReview
    /\ CreateReview(r)
    /\ link' = [link EXCEPT ![g] = r]
    /\ UNCHANGED <<inputs, package, app, decisions, client, seen>>

\* Only the first revision was shown on the card.
Unchanged(r) == Pending(r) /\ reviews[r].version = 1 /\ ~reviews[r].overrides

CardApproves(g) ==
    LET r == link[g] IN
    /\ r # NoReview
    /\ Unchanged(r) /\ PackageCurrent(g) /\ Fresh(r)
    /\ reviews' = Approved(r, 1)
    /\ seen' = SeenAs(r, 1, FALSE)
    /\ UNCHANGED <<inputs, package, revisions, link, app, decisions, client>>

\* A stale package may still be rejected.
CardRejects(g) ==
    LET r == link[g] IN
    /\ r # NoReview
    /\ Unchanged(r) /\ MayReject(r)
    /\ reviews' = [reviews EXCEPT ![r].status = "REJECTED"]
    /\ UNCHANGED <<inputs, package, revisions, link, app, decisions, client, seen>>

-----------------------------------------------------------------------------
(* The application and its operator                                         *)

LinkApplication(r) ==
    /\ app.status = "none"
    /\ reviews[r].status # "none"
    /\ app' = [status |-> "PACKAGE_READY", review |-> r]
    /\ UNCHANGED <<inputs, package, reviews, revisions, link, decisions, client, seen>>

Moves(from, to) ==
    /\ app.status = from
    /\ app' = [app EXCEPT !.status = to]

\* The tracker's own command follows the transition table and asks no review.
TrackerCommand ==
    /\ Moves("PACKAGE_READY", "APPROVED") \/ Moves("APPROVED", "SUBMITTED")
    /\ UNCHANGED <<inputs, package, reviews, revisions, link, decisions, client, seen>>

\* The final decisions that no later one supersedes, and the one in effect.
Heads ==
    {k \in DOMAIN decisions : \A j \in DOMAIN decisions : decisions[j].supersedes # k}
Effective == IF Heads = {} THEN "none" ELSE decisions[CHOOSE k \in Heads : \A j \in Heads : j <= k].decision
Overrides == Cardinality({k \in DOMAIN decisions : decisions[k].supersedes # 0})

PackageReady(r) ==
    /\ reviews[r].status \in {"PENDING_REVIEW", "APPROVED"} /\ Fresh(r)
    /\ Pending(r) => ~reviews[r].overrides

Header(r) == [status |-> reviews[r].status, version |-> reviews[r].version]

\* A press counts only while no final decision is recorded, an override only when one is.
LoadTarget(c, decision, kind) ==
    /\ client[c].pc = "idle"
    /\ app.status # "none"
    /\ IF kind = "press"
       THEN Effective = "none" /\ app.status = "PACKAGE_READY"
       ELSE Effective \notin {"none", decision} /\ (decision = "SKIP" => app.status = "APPROVED")
    /\ decision = "APPROVE" => app.status = "PACKAGE_READY" /\ PackageReady(app.review)
    /\ Becomes(c, [pc |-> "decide", decision |-> decision, kind |-> kind,
                   header |-> Header(app.review),
                   supersedes |-> IF kind = "press" THEN 0
                                  ELSE CHOOSE k \in Heads : \A j \in Heads : j <= k,
                   key |-> <<kind, Overrides>>])
    /\ UNCHANGED <<inputs, package, reviews, revisions, link, app, decisions, seen>>

\* UNIQUE(idempotency_key): one decision per kind and generation of overrides.
KeyIsFree(c) == \A k \in DOMAIN decisions : decisions[k].key # client[c].key

\* The review as it is under its lock is the one that was shown.
ReviewUnchanged(c) == PackageReady(app.review) /\ Header(app.review) = client[c].header

AddDecision(c) ==
    decisions' = Append(decisions, [decision |-> client[c].decision,
                     supersedes |-> client[c].supersedes, key |-> client[c].key])

\* Decision, review and application change in one transaction, or none does.
DecideApprove(c) ==
    LET r == app.review IN
    /\ client[c].pc = "decide" /\ client[c].decision = "APPROVE"
    /\ IF KeyIsFree(c) /\ ReviewUnchanged(c) /\ app.status = "PACKAGE_READY"
       THEN /\ Len(decisions) < MaxDecisions
            /\ AddDecision(c)
            /\ app' = [app EXCEPT !.status = "APPROVED"]
            /\ IF Pending(r)
               THEN /\ reviews' = Approved(r, Len(revisions[r]))
                    /\ seen' = SeenAs(r, client[c].header.version, FALSE)
               ELSE UNCHANGED <<reviews, seen>>
       ELSE UNCHANGED <<reviews, app, decisions, seen>>
    /\ Ends(c)
    /\ UNCHANGED <<inputs, package, revisions, link>>

\* A press records the decision alone; an override takes the approval back.
DecideSkip(c) ==
    /\ client[c].pc = "decide" /\ client[c].decision = "SKIP"
    /\ IF KeyIsFree(c) /\ (client[c].kind = "override" => app.status = "APPROVED")
       THEN /\ Len(decisions) < MaxDecisions
            /\ AddDecision(c)
            /\ app' = IF client[c].kind = "press" THEN app
                      ELSE [app EXCEPT !.status = "PACKAGE_READY"]
       ELSE UNCHANGED <<app, decisions>>
    /\ Ends(c)
    /\ UNCHANGED <<inputs, package, reviews, revisions, link, seen>>

Next ==
    \/ Edit \/ Republish \/ TrackerCommand
    \/ \E r \in Reviews :
           \/ Create(r) \/ LinkApplication(r)
           \/ \E g \in Generations : RequestReview(g, r)
           \/ \E c \in Clients : Patch(c, r) \/ Approve(c, r) \/ Reject(c, r)
    \/ \E g \in Generations : CardApproves(g) \/ CardRejects(g)
    \/ \E c \in Clients :
           \/ CreateRevision(c) \/ DecideApproved(c) \/ DecideRejected(c)
           \/ \E decision \in Finals, kind \in {"press", "override"} : LoadTarget(c, decision, kind)
           \/ DecideApprove(c) \/ DecideSkip(c)

Spec == Init /\ [][Next]_vars

-----------------------------------------------------------------------------
(* Properties                                                               *)

\* What is approved is the revision that the approver saw, it is the last one,
\* and manual edits in it were acknowledged (review_package.py, approve;
\* telegram_bewerbung_approval.py, _approve; telegram_operator_control.py,
\* _approve_review_locked).
ApprovedAsSeen ==
    \A r \in Reviews : reviews[r].status = "APPROVED" =>
        /\ reviews[r].approved = seen[r].revision
        /\ reviews[r].approved = Len(revisions[r])
        /\ revisions[r][reviews[r].approved] => seen[r].acknowledged

\* One decision of the operator is in effect, and an APPROVE in effect rests on
\* an approved review (telegram_operator_repository.py, effective_final_decision).
DecisionsAgree ==
    /\ Cardinality(Heads) <= 1
    /\ Effective = "APPROVE" => reviews[app.review].status = "APPROVED"

ReviewsAreSound == TypeOK /\ ApprovedAsSeen /\ DecisionsAgree

Contradiction == app.status = "APPROVED" /\ reviews[app.review].status = "REJECTED"

\* No order of REST requests, card presses, operator presses and overrides makes
\* an application approved on a rejected review; only the tracker's own command
\* can (review_package_repository.py, decide_review).
ApprovesNoRejection == Contradiction' => Contradiction \/ TrackerCommand
NoApprovalOnRejection == [][ApprovesNoRejection]_vars

-----------------------------------------------------------------------------
(* Why it holds                                                             *)

\* A row counts its revisions and knows the last of them; what is approved is the
\* last, as the approver saw it.
RowFits(r) ==
    LET row == reviews[r]
        last == Len(revisions[r]) IN
    /\ row.version = last
    /\ IF row.status = "none" THEN last = 0 ELSE last > 0 /\ row.overrides = revisions[r][last]
    /\ row.status = "APPROVED" =>
           row.approved = last /\ seen[r].revision = last /\ (revisions[r][last] => seen[r].acknowledged)

\* What a client has read: the revision it approves is as it was, and an override
\* has the number of the decision that it supersedes.
HasRead(c) ==
    LET call == client[c] IN
    /\ call.pc \in {"patch", "approve", "reject"} => call.review \in Reviews /\ call.expected \in Nat
    /\ call.pc = "approve" =>
           /\ call.revision = call.expected /\ call.revision \in 1..Len(revisions[call.review])
           /\ call.acknowledged \in BOOLEAN
           /\ revisions[call.review][call.revision] => call.acknowledged
    /\ call.pc = "decide" =>
           /\ app.status # "none" /\ call.decision \in Finals /\ call.kind \in {"press", "override"}
           /\ IF call.kind = "press" THEN call.supersedes = 0 /\ call.key = <<"press", 0>>
              ELSE call.supersedes \in 1..Len(decisions) /\ call.key = <<"override", call.supersedes - 1>>

\* One press, and overrides each of the decision before it.
DecisionsAreAChain ==
    \A k \in 1..Len(decisions) :
        IF k = 1 THEN decisions[k].supersedes = 0 /\ decisions[k].key = <<"press", 0>>
        ELSE decisions[k].supersedes = k - 1 /\ decisions[k].key = <<"override", k - 2>>

DecisionsRest ==
    /\ app.status # "none" => app.review \in Reviews
    /\ decisions # <<>> =>
           /\ app.status # "none"
           /\ decisions[Len(decisions)].decision = "APPROVE" => reviews[app.review].status = "APPROVED"

IInv ==
    /\ TypeOK /\ client = [c \in Clients |-> client[c]]
    /\ \A r \in Reviews : RowFits(r)
    /\ \A c \in Clients : HasRead(c)
    /\ DecisionsAreAChain /\ DecisionsRest
=============================================================================
