------------------------ MODULE MCFollowUpEligibility ------------------------
(***************************************************************************)
(* What is decided about an application, for TLC: the eligibility of a     *)
(* follow-up (two mails of the candidate, two replies, two instants to a   *)
(* second), the tracker, the synchronisation of the mailbox, the           *)
(* preparation of an application package, the decisions on its review, the *)
(* cards that ask the operator for them, and the feed that shows vacancies.*)
(* A behaviour runs one of the seven; the others do not start.             *)
(***************************************************************************)
EXTENDS FollowUpEligibility, TLC

CONSTANTS x1, x2, y1, y2,  \* interchangeable values, which the parts share
          Scans, Operators, TrackedMails, Accounts, Targets,    \* tracker
          Classes, MaxTime, MaxEvents, Never,
          SyncedMails, Ids, Boxes, Syncs, Runs, Batch, Limit,   \* mailbox
          Contexts, Nobody, Off,
          Reviews, Clients, Inputs, ReviewGenerations, MaxVersion,  \* review
          MaxDecisions, NoReview,
          Presses, MaxGenerations, MaxAttempts,                 \* preparation
          Cards, Events, Commands, Scan,                        \* cards
          Jobs, Sweeps, Manuals, MaxSends                       \* feed

VARIABLES part,
          app, events, employerMail, scanner, clock, refused,
          mail, inMailbox, claim, stored, thread, skipped, sync, context, work, run,
          inputs, package, reviews, revisions, link, application, decisions, client, seen,
          identity, offered, prep, letters, published, shown, press,
          row, recorded, command, delivered,
          job, vacancyRow, sender, sends

eligibility == vars
tracker == <<app, events, employerMail, scanner, clock, refused>>
gmail == <<mail, inMailbox, claim, stored, thread, skipped, sync, context, work, run>>
review == <<inputs, package, reviews, revisions, link, application, decisions, client, seen>>
preparation == <<identity, offered, prep, letters, published, shown, press>>
cards == <<row, recorded, command, delivered>>
feed == <<job, vacancyRow, sender, sends>>

T == INSTANCE ApplicationTracker WITH
        Mails <- TrackedMails, mail <- employerMail, worker <- scanner, now <- clock
G == INSTANCE GmailSync WITH Mails <- SyncedMails, arrived <- inMailbox
R == INSTANCE PackageReview WITH app <- application, Generations <- ReviewGenerations
P == INSTANCE PackagePreparation WITH inputs <- identity
N == INSTANCE OperatorMessages WITH events <- recorded, arrived <- delivered
F == INSTANCE VacancyFeed WITH row <- vacancyRow

ASSUME TrackerConstants == T!ConstantsAreSane
ASSUME CardConstants == N!ConstantsAreSane
ASSUME PackageConstants == P!ConstantsAreSane
ASSUME FeedConstants == F!ConstantsAreSane
ASSUME MailConstants == G!ConstantsAreSane

TwoInstants(t) == t - (t % 2)

Symmetry == Permutations({x1, x2}) \cup Permutations({y1, y2})

MCInit ==
    /\ part \in {"eligibility", "tracker", "mailbox", "preparation", "review", "cards", "feed"}
    /\ Init
    /\ IF part = "tracker" THEN T!Init
       ELSE /\ app = Off /\ events = Off /\ employerMail = Off
            /\ scanner = Off /\ clock = Off /\ refused = Off
    /\ IF part = "mailbox" THEN G!Init
       ELSE /\ mail = Off /\ inMailbox = Off /\ claim = Off /\ stored = Off /\ thread = Off
            /\ skipped = Off /\ sync = Off /\ context = Off /\ work = Off /\ run = Off
    /\ IF part = "review" THEN R!Init
       ELSE /\ inputs = Off /\ package = Off /\ reviews = Off /\ revisions = Off /\ link = Off
            /\ application = Off /\ decisions = Off /\ client = Off /\ seen = Off
    /\ IF part = "preparation" THEN P!Init
       ELSE /\ identity = Off /\ offered = Off /\ prep = Off /\ letters = Off
            /\ published = Off /\ shown = Off /\ press = Off
    /\ IF part = "cards" THEN N!Init ELSE row = Off /\ recorded = Off /\ command = Off /\ delivered = Off
    /\ IF part = "feed" THEN F!Init ELSE job = Off /\ vacancyRow = Off /\ sender = Off /\ sends = Off

MCNext ==
    /\ UNCHANGED part
    /\ \/ part = "eligibility" /\ Next /\ UNCHANGED <<tracker, gmail, review, preparation, cards, feed>>
       \/ part = "tracker" /\ T!Next /\ UNCHANGED <<eligibility, gmail, review, preparation, cards, feed>>
       \/ part = "mailbox" /\ G!Next /\ UNCHANGED <<eligibility, tracker, review, preparation, cards, feed>>
       \/ part = "preparation" /\ P!Next /\ UNCHANGED <<eligibility, tracker, gmail, review, cards, feed>>
       \/ part = "review" /\ R!Next /\ UNCHANGED <<eligibility, tracker, gmail, preparation, cards, feed>>
       \/ part = "cards" /\ N!Next /\ UNCHANGED <<eligibility, tracker, gmail, review, preparation, feed>>
       \/ part = "feed" /\ F!Next /\ UNCHANGED <<eligibility, tracker, gmail, review, preparation, cards>>

mcvars == <<part, eligibility, tracker, gmail, review, preparation, cards, feed>>
MCSpec == MCInit /\ [][MCNext]_mcvars

\* What the history of an application keeps (ApplicationTracker).
TrackerIsSound == part = "tracker" => T!TrackerIsSound

\* What threads and prepared answers keep (GmailSync).
MailIsSound == part = "mailbox" => G!MailIsSound

\* The ledger of a package, and what it says of the messages (PackagePreparation).
PackageIsSound == part = "preparation" => P!PackageIsSound

\* What reviews and decisions keep, and that a rejection is not approved over
\* (PackageReview).
ReviewsAreSound ==
    /\ [](part = "review" => R!ReviewsAreSound)
    /\ [][part = "review" => R!ApprovesNoRejection]_review

\* A card or a notification arrives once (OperatorMessages).
OneMessagePerTarget == part = "cards" => N!OneMessagePerTarget

\* What the vacancy feed keeps (VacancyFeed).
FeedIsSound == part = "feed" => F!FeedIsSound

=============================================================================
