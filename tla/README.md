# Verification of job-triage

TLA+ specifications of job-triage, TLC configurations that check them on small
instances, and TLAPS proofs of what matters most.  They cover the protocols,
whose correctness depends on the order in which processes, threads and database
statements happen to run, and the judgements, whose correctness depends on how
many small rules play together.  Paths are relative to `src/`.

## 1. The system

job-triage collects job postings, scores them, prepares applications and
follow-ups, reads a Gmail mailbox and talks to its operator over a REST API, a
web page and Telegram.  Several processes work on one database (PostgreSQL or
SQLite): uvicorn workers, one of which polls Telegram, and a scheduler
(`app/scheduler.py`); scripts are started by hand.  There is no lock server.
Every exclusion is a conditional `UPDATE ... WHERE` whose row count is the
verdict (a *CAS*), a unique or partial unique index, a row lock, or a lease with
an expiry time; every external effect (a mail, a draft, a Telegram message) lies
between two commits, so a death in between leaves a row that tells only half of
what happened.

| Component | State | Operations | What must hold | Hard because |
|---|---|---|---|---|
| Response drafts (`services/response_draft_send.py`) | revisions of a reply, one decision each, one send row each | generate, approve, reject, send, reconcile | one reply per mail received, as approved; rows tell the truth | concurrent requests, death around the provider call, revisions that supersede each other |
| Follow-ups (`services/follow_up_send.py`, `follow_up_eligibility.py`) | proposals, decisions, send rows, a lease per mail thread | propose, approve, send under the thread lock | no follow-up once a reply is stored; one per anchor mail | a sync runs beside the send; the lease can lapse while mail is transmitted |
| Automation lease (`db/automation_repository.py`, `services/automation.py`, `collector_exclusion.py`) | one RUNNING row per account key, with a lease | start, renew, reconcile, finish, extend, yield | one collector run at a time; nobody overwrites a successor's verdict | heartbeat threads, late commits, two keys of one account, threads that outlive their run |
| Schedule and digest (`services/scheduler.py`, `app/scheduler.py`) | a schedule row, a delivery row per day | claim, retry, mark, reconcile | one cycle per interval, one digest per day | several pollers, death while sending |
| Outbound SMTP (`providers/email/smtp.py`) | a phase under a lock, a worker thread, a deadline | send | "not sent" is only reported when it is true | the deadline races the worker |
| IMAP sessions (`providers/email/imap*.py`, `imap_deadline.py`) | a socket, a watchdog's timer | fetch, append, look up | no session for ever; a failure says what is known | a server that trickles, a timer between birth and registration of a socket |
| Gmail application drafts (`services/gmail_application_draft.py`) | a ledger with leases, attempts, an armed flag | claim, take over, arm, append, finalise, reconcile | one draft per application | APPEND with unknown outcome |
| Gmail ingestion (`db/gmail_repository.py`, `services/automation_gmail.py`) | messages, threads, Message-ID claims, skips | sync, analyse, draft, mark | each message once, in one thread, processed in the end | overlapping syncs, poison mails, duplicate Message-IDs |
| Application tracker (`services/application_tracker.py`, `application_response_processor.py`) | an application, its events | command, scan, transition | row and history agree; a mail never decides | concurrent scans, decisions on a stale status |
| Packages, reviews, cards (`services/telegram_bewerbung*.py`, `review_package.py`, `telegram_operator_*.py`) | preparations, previews, revisions, decisions, cards | prepare, show, decide, override, notify | what is approved is what was shown; one message per card | stale buttons, three ways to decide |
| Vacancy feed (`services/telegram_vacancy_feed.py`) | a review row per job | queue, send, decide, reconcile | one card per vacancy | sweeps of two lease holders, `/review` |
| Vacancies (`db/repositories.py`, `services/collector_runner.py`, `ba_refresh.py`, `collectors/xing_email.py`) | jobs, references, watermarks | collect, score, refresh, import | one row per posting; a score fits its row | collectors, refresh and imports write the same rows; a mailbox is renumbered |
| Company research (`services/company_research.py`) | rows and aliases of a name | research, record, promote | one identity per row, newer results win | requests that overtake each other |
| Candidate profile (`db/candidate_profile_repository.py`) | one row with trust per fact | patch, configure, export, import | what the candidate confirmed stays | read, decide, then CAS |
| Fit cache, rescore (`services/fit_cache.py`, `scripts/offline_rescore_stage12.py`) | matches, assessments, evidence files | match, assess, preview, apply | what is stored was computed from what it names | inputs change between statements |
| Judgements (`agents/*`, `services/job_fit_assessment.py`, `send_readiness.py`, `pre_submit_validation.py`, `email_matching.py`, `application_correlation.py`) | none | score, match, assess, gate, classify, correlate | see section 3 | hundreds of rules, each fed by the ones before |
| Shared limits, offloading, Telegram bot, HTTP, UI, documents, migrations | hits, revocations, sessions | - | - | not modelled, see section 6 |

`PROJECT.json` lists every component with its status, under `hazards` the places
where an order or a combination nobody tested could do harm, and under `map` the
source lines of each definition.

## 2. Modules

Most modules are one component: its tables, threads and requests are variables,
and an action is one database statement (or one section under a lock, or one
call of a provider) together with the Python that runs up to the next one.
Between two actions everybody else may move, and the process may die.  Five
modules are pure: operators over a vacancy, a candidate, a package or a mail,
with the properties as predicates of their arguments.

| Module | Models | Run | Proved in |
|---|---|---|---|
| `AtMostOnceSend` | abstract: the promise of every outbound channel | as the property `KeepsPromise` of three runs | each implementation's module |
| `ResponseDraftSend` | replies: drafts, decisions, send rows | `draft_send` | `ResponseDraftSend_proofs` |
| `FollowUpSend` | follow-ups, the lease of a thread, the sync as its rival | `follow_up_send`, `follow_up_live`, `follow_up_stall` | `FollowUpSend_proofs` |
| `FollowUpEligibility` | the rule that decides that a mail is unanswered | `follow_up_eligibility` | `FollowUpEligibility_proofs` |
| `AutomationLease` | collector runs: cycles, manual runs, heartbeats | `collection`, `smtp_send` | `AutomationLease_proofs` |
| `AutomationSchedule` | the schedule row and its workers | `schedule` | `AutomationSchedule_proofs` |
| `DigestDelivery` | the daily digest | `digest_delivery` | `DigestDelivery_proofs` |
| `SmtpSend` | one call of the SMTP provider | `smtp_send` | `SmtpSend_proofs` |
| `GmailApplicationDraft` | the ledger of Gmail drafts, its threads and the SKIP | `gmail_draft` | `GmailApplicationDraft_proofs` |
| `ImapSession` | one session of any of the four IMAP clients | `smtp_send`, `imap_failures` | `SmtpSend_proofs` |
| `GmailSync` | sync, threads, analyses and prepared answers | `follow_up_eligibility`, `digest_delivery` | `FollowUpEligibility_proofs` |
| `ApplicationTracker` | an application, its history, scans and commands | `follow_up_eligibility`, `submitted_is_dated` | `FollowUpEligibility_proofs` |
| `PackagePreparation` | the package of a vacancy and its preview | `follow_up_eligibility` | `FollowUpEligibility_proofs` |
| `PackageReview` | a review and its three ways to be decided | `follow_up_eligibility` | `FollowUpEligibility_proofs` |
| `OperatorMessages` | operator cards and notices | `follow_up_eligibility` | `FollowUpEligibility_proofs` |
| `VacancyFeed` | the cards of new vacancies | `follow_up_eligibility` | `FollowUpEligibility_proofs` |
| `XingCollection` | digests, watermark, identity of XING postings | `collection` | `AutomationLease_proofs` (the mark) |
| `JobRecords` | vacancies under collectors, imports and a refresh | `schedule` | `AutomationSchedule_proofs` |
| `CompanyResearch` | rows and alias of one company name | `schedule` | `AutomationSchedule_proofs` |
| `CandidateProfile` | facts and their trust | `schedule` | `AutomationSchedule_proofs` |
| `OfflineRescore` | scoring all stored vacancies again | `schedule` | `AutomationSchedule_proofs` |
| `FitCache` | matches, drafts and assessments beside edits | `schedule` | `AutomationSchedule_proofs` |
| `JobScoring`, `JobFit`, `JobMatch` | pure: score, assessment, match | `follow_up_send` | - |
| `SubmissionGates` | pure: readiness of a package, check of its files | `follow_up_send` | - |
| `MailJudgement` | pure: what a mail says, to whom it belongs, who wrote it | `collection` | - |

An `MC...` module is what TLC checks: the components that one question concerns,
side by side.  A variable `part` is chosen in the initial state; the behaviour
runs that part and leaves the others at rest, so the instance is the union of its
parts and not their product.  For the pure modules a part is a set of cases
(`MCCases`): the initial states are the cases, and there are no steps.
`MCCollection` holds the parts manual, late, digests, text, about, reply, sender
and scan; `MCAutomationSchedule` schedule, vacancies, company, candidate,
rescore and cache; `MCFollowUpEligibility` eligibility, tracker, mailbox,
preparation, review, cards and feed; `MCDigestDelivery` digest and mail; `MCSmtpSend`
smtp, lease and imap; `MCAssessments` followUp, scoring, fit, match, chain, gate
and files.

### AtMostOnceSend

Two functions over subjects: `outcome[s]` in `open`, `trying`, `sent`,
`unknown`, and `deliveries[s]`.  A subject is an inbound message that may be
answered, the candidate's mail that may be followed up, or the date of a digest.
An attempt begins only where nothing was delivered, a delivery happens only
from `trying` or `unknown` and only once, and `unknown` and `sent` are never
left for `open`.  `ResponseDraftSend`, `FollowUpSend`, `DigestDelivery` and
`OperatorMessages` each define `Promise == INSTANCE AtMostOnceSend WITH ...`: the
outcome of a subject is read off the statuses of all its rows, the most advanced
one first.  For the first three `KeepsPromise` is checked and proved, for
`OperatorMessages`, where a subject is a card or a notice, it is proved only
(`CardRefinement`).

### ResponseDraftSend

`draftStatus`, `approval` and `row` are `response_drafts`,
`response_draft_approvals` and `response_draft_sends`; `current` is the revision
whose generation hash is that of the message now, `sender` what
`derive_reply_recipient` and the DMARC check yield for the message as stored.
`Decide` is the decision endpoint up to its commit, `SendStart` and `SendStep`
the send endpoint statement by statement: the builder and its checks, the
search for a live send of the message, the insert under the partial unique
index, `begin_retry`, the gate `begin_transmission`, the provider call, and the
marks, each of which may find its row moved or may not commit.
`mailed` and `deliveries` record what left; no code reads them.

### FollowUpSend and FollowUpEligibility

`FollowUpSend` is one job with its one thread.  `holder` and `lease` are
`lock_token` and `lock_expires_at` of `gmail_threads`; a request takes the lock
(`Contend`), revalidates, claims, renews the lease from a heartbeat and calls
the provider (`Guard`), and ends.  `Sync(m)` is the sync storing message
`m`: it takes the same lock, inserts, releases.  A holder that dies leaves the
token `Ghost`, which nobody else owns.  Messages are numbered by arrival and may
be stored in any order, so the anchor of a proposal may move.

`FollowUpEligibility` is the rule itself: which row is the latest outbound one,
which the latest inbound one, and how untrusted arrival stamps are treated.  The
two reads are two statements; rows appear in between.  It is the rule that
`FollowUpSend` treats as one read.  The provider's clock and the service's are
taken to agree: with skewed clocks an untrusted stamp could be early.

### AutomationLease, AutomationSchedule, DigestDelivery

`AutomationLease`: a row of `automation_runs` is named by its attempt and its
key.  A cycle claims one key and then looks for live runs of the other; a manual
run claims all keys in sorted order and stops where one is refused.  Renewals,
final updates and extensions are conditional on the holder's own live lease, and
may compare with a `now` that was read up to `MaxLag` ticks earlier.  `worker[p]`
is the time for which a thread of an interrupted run may still work.
`ConstantsAssumption` says what `lock_account_keys` gives: at most two keys, a
cycle has one of them, a manual run has all of them in one order.

`AutomationSchedule`: `get_or_create_schedule`, the unlocked read, the claim and
the pointer update are four steps; a worker may be held up or die between any of
them, and `Tick` passes any amount of time.

`DigestDelivery`: a poll fixes its date and its cutoff when it begins; the row
of a date is inserted, retried, marked and given up by conditional updates.

### SmtpSend and ImapSession

`SmtpSend` is the two threads of `GmailSmtpProvider.send` and what they share
under `gate_lock`.  Each socket operation may hang, fail or succeed; the deadline
may fire at any moment.  `attempted` and `accepted` record what happened on the
wire; `verdict` what the caller is told.  The send modules take over its
contract: a definite failure for certain did not leave, everything else may
have.

`ImapSession` is a worker that dials, logs in and talks, and the timer thread of
the watchdog that closes the socket under it.  The socket is born, bound to the
watchdog and registered in separate steps; a reply that was read ahead may still
be answered after the close.  The four clients differ in what they translate and
what they count.

### GmailApplicationDraft

`state`, `attempt`, `armed`, `leaseOver` and `age` are one row of
`gmail_application_drafts`.  `claim_token` and `marker` are drawn anew for each
attempt that uses them, so the number of the attempt stands for both; a marker
that collides is drawn again in the code before anything is written.  A press
reads without a lock, locks and claims, arms (`Revalidate`, `BeginAppend`), hands
the APPEND to a thread, waits, and records the evidence with repeated reads when
a commit is lost.  `Withdraw` is the operator's SKIP, refused while an armed
attempt is pending.  `LookUp` is the press that searches the mailbox.
`wire[a]` is what the mail server did with the draft of attempt `a`.
Rendering, attachment and configuration checks before the claim end the press
without a write and are left out.

### Mail, applications, packages

`GmailSync`: a sync fetches the oldest unknown UIDs, resolves a thread, claims
the Message-ID of a mail that opens one and stores; a run of the automation
analyses, drafts and marks.  `ApplicationTracker`: `_write` is one unit of work
(an event, and the row by CAS); a scan decides on the status it read before it.
`PackagePreparation`: one row with two fenced claims; the token of a package is
the generation that published it.  `PackageReview`: REST and operator presses
read first and write by CAS, a press on the review card runs under locks.
`OperatorMessages`: a ledger row without a token; whoever inserted it writes the
outcome if it still says SENDING.  `VacancyFeed`: a row with a claim, swept,
decided and reconciled.

### Vacancies, companies, the candidate

`JobRecords` scores before it writes and scores again when the row it locks has
another type; a refresh plans, then updates and creates under a re-check.
`XingCollection` has mails by number, a renumbering of the mailbox, postings that
only their text and their number tell apart, and the watermark's CAS.
`CompanyResearch` follows a request from the look-up to the answer through each
collision of identity and alias.  `CandidateProfile` keeps a field, a language
and a search setting with their sources; `Check` and the CAS are two steps.
`OfflineRescore` extends `JobScoring`: the score that the script writes is the
function the collectors use.  `FitCache` stores what a row was computed from and
leaves what an assessment says to `JobFit`.

### The pure modules

`JobScoring`, `JobFit` and `JobMatch` take what the extractors find in a text
(the skills, the level, the place, the requirements) and are the rules over it:
scores, gates and rescue; criteria, decision, tier; requirements, coverage,
warnings, claims.  `SubmissionGates` takes the records of a package with their
pins and says whether it could be sent, and takes a directory with its manifest
and says whether it may be submitted.  `MailJudgement` is the classifier's
precedence, the matcher of mails and jobs, the correlation with an application,
the DMARC verdict over parsed headers, and the page-wise scan of the mailboxes.

## 3. Runs

| Run | Instance | Distinct states | Question |
|---|---|---|---|
| `draft_send` | 2 revisions of 1 message, 2 requests, 1 death | 185,000 | one reply, as approved, truthful rows, stranded rows resolved |
| `follow_up_send` | 2 proposals of one anchor, 2 requests, 1 reply, 1 death; the cases of `JobScoring`, `JobFit`, `JobMatch`, `SubmissionGates` | 496,000 | one follow-up, none beside a reply; sound assessments and gates |
| `follow_up_live` | 2 anchors, a reply between them, 1 death | 177,000 | moving anchors; mail is stored in the end |
| `follow_up_eligibility` | 2 mails, 2 replies, 3 instants, 2 of them in one second; 2 scans and a command; 3 mails and 2 syncs; 2 presses; 2 reviewers; 2 senders of cards; 2 sweeps and a command | 1.9 million | what is decided about an application |
| `digest_delivery` | 2 pollers, 2 dates; 2 mails, one sync and one run that start again | 60,000 | one digest a date, stranded claims, every mail handled |
| `smtp_send` | one call; 2 cycles of one key with 2 deaths; one IMAP session | 47,000 | what a verdict means, and what must end |
| `collection` | a cycle and a manual run with 2 keys; 2 late cycles of one key; 2 digests and 2 runs; the cases of `MailJudgement` | 1.2 million | who collects, what is stored, how mails are read |
| `schedule` | 3 workers, 2 intervals; 2 writers and a refresh; 2 requests on a company; 2 editors and an import; 3 starts of a rescore; 2 preparers and 2 writers of the cache | 1.9 million | what changes under a run |
| `gmail_draft` | 2 presses, 2 attempts, 1 death | 525,000 | one draft, none after a SKIP, no attempt pending for ever |
| `follow_up_stall`, `imap_failures`, `submitted_is_dated` | small | - | findings, section 7 |

What the properties ask, beside what their names say:

- `KeepsPromise` is the refinement of `AtMostOnceSend`; `SentAsApproved` that a
  mail leaves only with the recipient that was approved and while its approval
  stands; `StatusTellsTheTruth` that SENT rows were sent and rows that may be
  retried were not.
- `OneProvableRun`: no two runs that could prove, by their own live rows, that
  they are alone.  `CompletedRanAlone`: a run that records COMPLETED was not
  overtaken.  `OrphanIsFenced`: while a thread of an interrupted run may work,
  nobody else is provable.
- `NoReplyIsOverlooked`, `AnchorIsLastMail`: the decision is right for the stored
  thread whatever appeared between its two reads, with untrusted stamps.
- `MailIsSound`: threads join only what their Message-IDs justify; processed
  means that analysis and draft are durable.  `EveryMailIsHandled`: a batch full
  of mails that cannot be parsed hides no later one.
- `TrackerIsSound`: the row is the projection of its events; no mail ends an
  application or brings an ended one back.
- `PackageIsSound`, `ReviewsAreSound`: the preview tells what was shown; what is
  approved is the last revision and the one the approver saw; one decision is in
  effect, and nothing approves an application on a rejected review.
- `OneMessagePerTarget`, `FeedIsSound`: one card at most, and the row knows it.
- `JobRowsAreSound`: a score fits the type its row has; a status moves by the
  table; a refresh makes no twins.  `ResearchIsSound`: rows keep their identity,
  newer results win, answers name the right company.  `ProfileIsSound`: what was
  confirmed stays; an import invents no trust.  `StoredIsTrue`, `WritesAreLawful`:
  what is stored was computed from what it names, an assessment is not replaced
  by an earlier one, and the script writes exactly what a person reviewed.
- `MailIsReadRight`: no digest lies behind the confirmed mark unprocessed, and a
  posting is stored once, whatever is read again (`XingCollection`); of a mail
  (`MailJudgement`), a text that contradicts itself moves nothing, one more job in the pool never makes another
  job the match, a known sender only supports, an answer that matters is recorded
  or a person is asked, one clause of the topmost header is what a sender is
  believed for, and a reading reported as complete was.
- `AssessmentsAreSound`: APPLY and the best tiers are earned whatever gate changed
  them; a skill, a language level or a dated fact more never costs anything; only
  confirmed facts count; measuring a way agrees with what was said before; a
  package that is ready is one chain of current records, warranted by trusted
  facts, and its files are those that were checked.
- `ResultIsAccepted`, `DefiniteIsFinal`, `SessionIsHonest`: what the callers of
  SMTP and IMAP conclude from a verdict stays true afterwards.

Why the bounds are enough.  The protocols are decided by conditional updates of
one row, so a violation needs one actor that acts and one that acted in its
back: two requests, presses or workers, with one death or one lost commit to
leave a row half done, and a third actor where a takeover of a takeover matters
(`schedule`).  Each instance was checked to reach the case it is for: for every
property there is a plausible slip in the code (listed under `mutants`) that TLC
finds in the same instance.  Times are chosen so that each order of the
deadlines involved occurs: a lease shorter and longer than a lag, an extension
longer than the worker's deadline, an outage of several intervals.  Cases of the
pure modules vary together what some rules read together and leave the rest at
an ordinary value.  What the proofs cover does not depend on bounds at all.

Bounds that appear as guards: `MaxCrashes` (deaths), `MaxAttempts` (attempts of
a row), `MaxNow`, `MaxTime` and `MaxRuns` (clocks and run ids), `LastDate`
(dates), `MaxLag` (age of a holder's `now`), `MaxEvents`, `MaxVersion`,
`MaxDecisions`, `MaxGenerations`, `MaxEpoch`, `MaxSends`, `MaxNamed` (histories),
`MaxRecoveryReads` (a constant of the code).  Symmetry is used for requests,
workers and mails of runs without liveness only.  `CHECK_DEADLOCK FALSE` stands
where the system may really be at rest with nothing left to do: all mail stored,
every request answered, the clock at its bound, a case that only is.

### Fairness

Fairness is asked of what the code drives by itself, never of a user, a server
or a race that has to be won, except where a property names it as a premise.

- `ResponseDraftSend`: a request that is being served executes its next
  statement or dies.  That requests keep arriving is the premise of
  `StrandedSendIsResolved`: the code has no sweeper, only the next request
  reconciles.
- `AutomationLease`: time passes, a run that was begun goes on, a heartbeat that
  was told to stop ends.  That somebody keeps being refused is the premise of
  `AbandonedSlotIsFreed`.
- `FollowUpSend`: time passes, a served request goes on (the provider call has a
  total deadline), the sync is repeated by the scheduler.
- `DigestDelivery`: time passes, the digest hour comes, workers are restarted
  and poll; strong fairness of a poll's first two statements says that not every
  poll dies before them.  The premise of `StrandedClaimIsResolved` is that the
  date lasts.
- `GmailSync`: syncs and runs are started again by the scheduler, and faults of a
  mail that can be parsed cease: a mail that fails for ever is not handled.
- `SmtpSend`: the caller never blocks for long.  The worker may hang for ever in
  a socket call until its socket is aborted; only then is it fair.
- `ImapSession`: the watchdog's timer fires, and a thread whose call can return
  (its socket is closed, or the call is local) goes on.  Nothing is asked of the
  server.
- `GmailApplicationDraft`: threads run, leases and attempts age, the session's
  deadline ends a provider call.  That presses keep coming, while the package is
  approved, is the premise of `StrandedAttemptIsResolved`.

## 4. Proofs

A proof module extends the module it is about, or the `MC...` module that puts
several side by side, and assumes only what the modules assume by name:
`ConstantsAssumption` (and `SecondAssumption` in `FollowUpEligibility`: an
instant cut to the second is not later than itself).  No bound on the number of
requests, workers, revisions, dates or attempts is used.

Four proof modules extend an `MC...` module.  `FollowUpEligibility_proofs` has all
seven parts of its run: the rule of eligibility, the tracker, the mailboxes, the
packages, the reviews, the cards and the feed; `AutomationSchedule_proofs` all
six of its own: the schedule, the vacancies, the companies, the profile, the
rescore and the cache; `SmtpSend_proofs` the SMTP call and the IMAP session;
`AutomationLease_proofs` the lease and the digests of XING.  Each part has a
theorem about its own specification (`T!Spec => []T!IInv` and the like), and one
that carries it to the specification that the run checks, where the part is one
of several (`TrackerOfRun`, `MailOfRun`, `VacanciesOfRun`, ...).  Where a part
needs something of its constants, its module says so in `ConstantsAreSane`: never
more than that a bound is a number, that a "nothing" is not a value, that mails
are numbered, that commands ask for statuses there are.  The `MC...` module
assumes it by name for its instance, and TLC evaluates it.  An inductive
invariant stands in its module under "Why it holds", "Why it is sound" or "Why
no digest is passed over", and was checked by TLC on the run's instance before
it was proved.

**ResponseDraftSend.** At most one reply is not inductive: a request in
`transmit` could deliver a second time.  `IInv` adds why it cannot.
`LiveRowIsUnique` is the partial index: of all revisions of a message one row is
live.  `OwnerHoldsRow` and `OwnerIsUnique` say that a request past the gate has
its row PENDING or UNCERTAIN with `attempted` set, and has it alone, because the
gate is a CAS on `attempted`.  `MailedIsRecorded` and `OwnerKnowsOutcome` tie
the deliveries to rows and program counters, `RequestIsApproved` the recipient to
the decision.  From it follow `OneReply`, `NoApprovalNoSend`, `TruthfulStatus`,
and `Refinement`: every step is one of `AtMostOnceSend` or a stutter.  The
refinement proof first shows what the outcome of a message is when one of its
rows is live, when none is, and that a step on one row leaves the other messages
alone.

**FollowUpSend.** The same shape with one place per anchor instead of per
message (`Invariance`, `OneFollowUp`, `TruthfulStatus`, `Refinement`); anchors
move under the proposals while they are sent, so `NothingRaced` is needed only
for what leaves, not for the count.  `NoFollowUpBesideReply` needs the lease of
the thread.  `GuardInv` says that a writer that inserts holds a live guard
(`WriterHoldsGuard`), and that therefore what a sender saw under its guard stays
true while the guard is its own and live (`SenderSeesThread`): a message can be
stored only by a holder, and there is one.  The theorem's hypothesis
`~WriterMayStall` says that an insert ends within its lease.  It is not a
convenience: nothing renews the writer's lease, and without the hypothesis TLC
refutes the statement (`follow_up_stall`).  It says nothing of a sender whose own
lease lapsed: there a mail that is already being transmitted may meet a reply,
which the code detects after the fact (`JudgeExclusivity`).

**AutomationLease.** `IInv` (`Invariance`) has the index (`OneRunningRow`), what
a claim, a renewal and a final update may touch (`ClaimIsInRange`,
`NothingRecorded`) and `LeaseOutlivesWorker`: an extension is granted only by an
update that matches, and is longer than the worker's deadline even with the
greatest lag.  It holds for every lag (`OneSlotPerKey`, `LeaseCoversWorker`).

Exclusion between two keys is claim-then-verify without a lock: a run inserts
its row and then looks for a live row of the other key.  `ExclusionInv` is the
argument.  Of two runs that claimed different first keys and hold their rows,
the later one sees the other (`OneSawTheOther`); whoever judges beside an active
run has seen it (`ActiveIsSeen`); so no two are active and hold the row they
claimed first (`OneActiveHolder`), and a run that was overtaken has lost its row
for good and cannot record COMPLETED (`OvertakenHasLost`).  `Exclusion` proves it
inductive, and `OneRun`, `CompletedAlone` and `OrphanFenced` follow.  All four
have the hypothesis `VerdictIsFinal`: either updates take effect with the clock
they were computed from (`MaxLag = 0`), or all runs claim the same key first, so
that the index alone decides.  With a late renewal and two different first keys
`OneProvableRun` is false, see section 7.  At least three distinct keys would
break it as well; `lock_account_keys` gives two at most.

**XingCollection** (`DigestInvariance`, `DigestsOfRun`: `NoDigestIsPassedOver`).
The mark is moved by a run that read the mailbox long ago, under a numbering that
may be gone, and runs overlap.  Two facts make that harmless.  `ProgressFits` and
`RunFits` speak only of the numbering the mailbox has now, and `Numberings` says
that one that was left never comes back, so whatever a late run writes for an
old numbering is no claim about this one.  `ReadsRightly` says what a run holds
in the present one: its candidates are all the mails after the mark it set out
from that were there when it looked, and what it says it handled it did.  Mails
keep their UIDs while the numbering lasts and what was processed stays so, hence
`Handled` stays; and `WatermarkIsRight` is the point of the rule that the mark
stops before the first gap: everything up to it was handled, from whichever of
the two baselines it is counted.  That postings are stored once is not proved
(section 5).

**DigestDelivery.** The shape of `ResponseDraftSend` with one row per date: one
worker between claim and verdict of a date, and its row PENDING, or UNCERTAIN
when a poll gave it up.  `OneDigest` and `Refinement` follow.

**AutomationSchedule.** `ClaimsAreSpaced` rests on
`NextFollowsLastClaim`: a claimed row is due an interval after its last claim,
and whoever runs took its `at` from a claim.  A worker held up between its read
and its claim compares with the value it read, so the claim of an old value
fails.  `SlotHasOneRunner` follows from the same invariant.

**JobRecords** (`VacancyInvariance`, `VacanciesOfRun`).  A collector computes a
score, a refresh plans its updates, and both write later, over rows that others
have changed.  No version guards them; two things do.  The transaction that
writes a row takes the type the row has by then, and computes the score again when
that is not the type it was computed for (`Reconciled`), so `ScoreFitsType` is
inductive however old the score was.  And a refresh looks at each row again before
it updates it and at the references before it creates one, so all that its plan
must be is about postings that were brought (`PlansAreOfPostings`).
`NothingBeforeTheRow` says that of a posting
without a row nothing is known, and that a command names a row there is, for
rows are not deleted.  The steps of a refresh apply a set of updates; the model
writes that as one function over the rows, so no induction is needed.

**CandidateProfile** (`ProfileInvariance`, `ProfileOfRun`).  `_trust_downgrades`
and `_outranked` judge a row that was read before the UPDATE.  `PlansArePermitted`
is why that suffices: whoever still has the version of the row has planned what
the row as it is now permits.  `FilesAreOfTheCandidate` says what the script
cannot bring in (of its facts only a setting may come from a document), and
`RowBegins` that an import finds no row but creates one.

**CompanyResearch** (`ResearchInvariance`, `ResearchOfRun`).
`AttemptsAreDistinct`: an unfinished attempt has a number that no row carries.
`ReadingsAge`: what it read of the rows is still so, or their versions tell.
`RowsAreEarned`: only a result brings a row to a second version; so an attempt
whose version is gone was overtaken by a result, and is dropped for no less.  The
proof corrected the property: `AnswersAreHonest` used to say that a dropped
attempt is always answered with a row that holds a result.  It is not: three
requests and a fifth attempt, beyond the instance of the run, let a failed
attempt insert a row with the name alone after the domain is known
(`record_failed_attempt`, section 7), and a later attempt may be told
of that row.  `Stray` names the case.

**OfflineRescore** (`RescoreInvariance`, `WritesOfRun`).  A run that may write
carries what it was approved for: `Approving` ties its preview, its profile and
the answers of the copy it read.  `WritersAreReady` says what it holds: evidence
on record from the moment it asks for the lock, and, from its second look at the
profile to its commit, the row lock that keeps the profile.  That the vacancies are those of the
preview is no invariant: the commit looks, under the table lock, and
`NothingHasDrifted` turns what it sees into equality.

**FitCache** (`CacheInvariance`, `CacheOfRun`, `WritesOfRun`).  A process reads
the version and the facts in two statements, so the facts may be newer than the
version they are filed under.  `FactsAreOfTheVersion` says that this shows: then
the version is no longer the profile's, and never will be again.
`AssessmentsStand` has the same shape for an assessment and its key: it was made
from all that the key names, and, while the key's version is the profile's, from
its facts.  `Now` counts the changes, for `CacheGoesForward`.

**ApplicationTracker** (`TrackerSound`, `TrackerOfRun`).  A scan or a command
decides on a row it read before.  `WorkIsPermitted`: whoever still has the row's
version has what the row permits; so the conditional update is what makes every
check before it true when it counts.  `RowIsLawful` has the constraints of the
table, without which a receipt that a mail confirms could be refused.

**OperatorMessages** (`CardInvariance`, `OneMessage`).  A card's row names no
owner, so nothing in a row tells whose claim it is.  `ClaimIsAlone` says why
none is needed: whoever claimed a message and has not recorded the outcome finds
the row SENDING, or UNCERTAIN when somebody gave it up, and neither may be
claimed again.  `OutcomeIsTrue` ties the row to the chat: a row that may be
claimed has reached it never, one that says SENT has reached it once.

`CardRefinement` adds that every step is one of `AtMostOnceSend`, or invisible to
it.  The step that needs the invariant is the delivery: the chat gets the card
from a row that says SENDING or UNCERTAIN and that has reached it never, which is
`ClaimIsAlone` and `OutcomeIsTrue`.  `VacancyFeed` does not implement that
specification as it stands, although at most one card leaves: one reconciliation
gives up all stale claims in a statement, where the promise moves one subject at
a time, and the operator may settle a card whose fate nobody knew.

**VacancyFeed** (`FeedInvariance`, `FeedSound`).  Here a claim has a token, and a
row can return to the queue.  `ClaimIsAlone`: a sender that lost its claim lost
it to a reconciliation or to the operator, and such a card is not sent again by
itself; so of all senders one is between claim and mark.  `SenderKnows` is what that one
may conclude of its card, `OperatorHolds` why no sweep takes up what the operator
sent (it is out, his, or held), and `BudgetHolds` that a claimable row has an
attempt left.  One lemma per kind of step says how a row may move (`RowMoves`)
and which senders go on (`LetsGo`); steps that hand nothing over share
`FeedQuiet`.

**PackagePreparation** (`PackageInvariance`, `PackageSound`).
`LedgerIsConsistent` needs `ClaimIsForInputs`: the row of the owner still names
the inputs its letter was written for.  `PreviewTellsTheTruth` needs
`GenerationsAreOrdered` (the generation about to be published is new, so nothing
was shown of it) and `MessagesAreCounted`: while a row says NONE no press is
about to show its package, and of two presses with a summary of one package one
came after a refusal.  A press that was overtaken still sends, which is why both
speak of generations and not of the row's latest one.

**GmailSync** (`MailInvariance`, `MailOfRun`).  Overlapping syncs give mails to
threads in several statements: claim the Message-ID, find another owner, record
that the id is contested, insert.  `Joined` is what is true of a mail from the
moment its thread is chosen: it opened the thread of its id as the owner, or it
found another owner and said so.  Owners and contests stay, so of two stored
mails that open one conversation one has contested the id (`StoredAreJoined`), and
a thread of that id holds one of them.  `SyncFits` carries it through the
statements of a sync, `RunFits` what a run has prepared of the mail that it is
about to mark: analyses and drafts are only added, so what was there when it
looked is there when it marks.

**PackageReview** (`ReviewInvariance`, `ReviewOfRun`).  `HasRead` is what a client
carries between its read and its write: the revision it approves is as it was
shown, for revisions are only added, and the key of a decision is that of the
decision before it.  `DecisionsAreAChain` follows from the unique key: the press
is the first, and each override follows one, so there is one head.
`DecisionsRest` and `RowFits` tie the head and the row: an approved review is
never edited or rejected, so the approval that the head rests on stays.

**SmtpSend.** `PhaseIsShared` and `OutcomeIsOfWorker` say what each thread may
conclude from the phase under the lock; a definite failure is reported only from
`cancelled`, or by a worker that never came to `sending`.

**ImapSession** (`SessionInvariance`, `SessionOfRun`).  The server may do
anything and the timer fire at any moment, also between the birth of a socket and
its registration.  `ClosedByTheTimer`: a socket is closed by the timer alone, and
only after it set the flag; so a session that ends without the flag was cut off
by nobody, and `AskedIsAnswered` says that then every mail it asked for was
answered, one way or another.  `SentOnce` follows the one APPEND: it is written by
the thread that then waits for the answer, and a verdict after it is definite
only if the server refused it.

**FollowUpEligibility.** `StampsAreNotEarly` is the invariant: a stamp may be
late, a trusted one is exact.  The latest inbound row by stamp then bounds all
others, which is why one row is enough (`Unanswered`, `LastMail`).

**GmailApplicationDraft.** `IInv` has four parts beside types and the truth
itself.  `AttemptsHaveOneHolder`: a press holds its attempt until its thread has
ended, and takeovers always make a new one.  `NothingSentEarly`: an attempt that
is not armed has nothing on the wire.  `AppendsArePermitted`: a thread that may
still append works for the row's armed attempt, which is not withdrawn while its
request waits in time.  `EvidenceIsSound`: evidence never says more than the
wire.  One lemma per action, then `LedgerTruth` and `WithdrawalIsRespected`.

## 5. Only model-checked

- All liveness: `StrandedSendIsResolved`, `StrandedClaimIsResolved`,
  `StrandedAttemptIsResolved`, `EveryMailIsHandled`, `MailIsStored`,
  `WorkerIsInterrupted`, `AbandonedSlotIsFreed`, `SessionEnds`.  Liveness under
  fairness and `ENABLED` are beyond the prover.
- The pure modules (`AssessmentsAreSound`, and what `MailIsReadRight` says of
  the mails of employers): their rules count, sort and fold over sets and sequences, and what a
  fold yields for every input needs induction over data.  They are checked over
  all cases of small facts.
- `PostingsAreStoredOnce` of `XingCollection`: how many vacancies of one text there
  are depends on which blocks of a mail are new, and the new ones are taken out
  of it by a fold over the mail.

## 6. Not modelled, and abstractions

- What a regular expression or a parser finds in a text: an input of the model.
  Rendering, layout, wording.  Delivery after a server accepted a mail.
- `requirement extraction and documents`, `shared limits, revocations and
  sign-in`, `offloading and the process lock`, the Telegram bot, the HTTP API and
  UI, and migrations; `PROJECT.json` gives the reason of each.
- Clocks of several machines: within a module, `now` is one clock; in
  `AutomationLease` a `now` may be old when it takes effect.
- Isolation beyond single statements: an UPDATE, an INSERT or a read is atomic,
  the statements of a handler are not, and a commit may be lost.  In
  `GmailApplicationDraft`, where SQLite and PostgreSQL differ in row locks, the
  database without them is modelled; `OfflineRescore` and `FitCache` have the
  isolation levels of PostgreSQL that the scripts ask for.
- `ImapSession`: the child process that resolves a name is part of one step; the
  third binding of a socket in `open()` has no effect.  `CandidateProfile`: three
  facts stand for all.  `FitCache`: a batch has one vacancy.  `JobFit`: the
  start date, which moves no tier.  `JobMatch`: dated facts, because an
  additional trusted experience without dates can turn a PARTIAL to UNKNOWN.
  `MailJudgement`: the addresses of a sender are not canonicalised, and the
  mailbox is not renumbered between two pages.

## 7. Findings

`follow_up_stall`.  The comment at `app/db/gmail_repository.py:677` says that a
new message of a thread that a follow-up send is guarding cannot commit until
the send releases the guard.  `upsert_message` (`:758`) takes a lease of
`THREAD_LOCK_TTL_SECONDS`, does not renew it and does not look at it again
before `db.commit()`.  A writer that outlasts its lease (a blocked insert, a
stopped process) loses the thread to a send and then commits the reply beside
it.

`imap_failures`.  `app/providers/email/base.py:147` says that callers catch one
error type of the inbox provider.  `_connect` (`app/providers/email/imap.py:829`)
translates only `imaplib.IMAP4.error` of the login, and `_fetch_sync` only
`OSError` of the commands: a socket that the watchdog closes during the login,
and an abort of SELECT, STATUS or SEARCH, leave the provider as they are.

`submitted_is_dated`.  `docs/DAILY_OPERATIONS.md:525` says that each SUBMITTED
application gets a date for its follow-up.  `_followup_values`
(`app/services/application_tracker.py:161`) reads `submitted_at` of the row as it
was before the transition that sets it, so the date stays NULL.

Disagreements of a comment and the code that a run of their own would add little
to:

- `automation_repository.py:78-103` says that an expired-looking row of the other
  key is re-read because its expiry "is not trusted", and `automation.py:550` that
  two cycles of different keys can never both run.  The re-read after a lost
  CAS looks at the expiry again: a renewal that was computed earlier and takes
  effect only then revives a row that the other cycle has just judged expired, and both
  go on.  `OneProvableRun` is therefore checked and proved where such a renewal
  cannot be late, or all runs claim the same key first.
- `gmail_message_analysis.py:113-168`: an unmatched mail of unknown category is
  said to need no review; since every unmatched mail has confidence LOW, each
  needs one.  `email_matching.py` promises every near-tied candidate and returns
  five at most.  `application_correlation.py` calls the sender evidence only; as
  one sign more it can decide between applications to two employers.
- `collector_runner.py:203-206` honours a configured seniority that the rescore's
  `load_scoring_context` does not, although its docstring speaks of one
  implementation.
- `candidate_profile_repository.py:351-353`: a document that repeats a confirmed
  value relabels it, and a later document may then change it.
- `pre_submit_validation.py:459-462`: a profile without address or telephone
  number skips the check that the PDF names them; `presubmit_check.py:108` binds
  a file to the current profile version whatever version it was made from.
- `repositories.py:1140`: a row with a known domain and one with only the name
  "should never coexist"; a failed attempt that races a promotion leaves both, and
  a request of the same name may then be answered with the empty one (`Stray`).

Two gaps that no document promises to close are recorded as hazards with a
note: a decision may be recorded for a revision that was superseded a moment
ago, and a lease may lapse during the provider call after the heartbeat's last
look.

## 8. Plan

1. A promise with retries and withdrawals, as `AtMostOnceSend` is without, that
   `VacancyFeed` and `GmailApplicationDraft` implement.
2. `PostingsAreStoredOnce`, with the new blocks of a mail as a function instead of
   a fold.
3. `SharedState`: hits, refunds and revocations at capacity.
4. The gap of `follow_up_send.py:640` as a property of its own: what is said of a
   verdict whose lease lapsed.
