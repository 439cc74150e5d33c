\* Eligibility: two mails and two replies, arriving and stored in any order.
\* Tracker: two scans of two accounts and a command.  Mailbox: three mails, two
\* overlapping reads, one automation run.  Preparation: two presses,
\* two input identities and generations.  Review: two clients of one review.  Cards:
\* two invocations, a card and two events.  Feed: two sweeps and a command compete
\* for a vacancy.
CONSTANTS
    x1 = x1  x2 = x2  y1 = y1  y2 = y2
    Mails = {x1, x2, y1, y2}
    Outbound = {x1, x2}
    Delay = 1
    Second <- TwoInstants
    NoMail = NoMail
    MaxNow = 2
    Scans = {x1, x2}
    Operators = {u1}
    TrackedMails = {m1}
    Accounts = {y1, y2}
    Targets = {"SUBMITTED", "RECEIVED", "REJECTED"}
    Classes = {"RECEIPT_CONFIRMATION", "REJECTION"}
    MaxTime = 1
    MaxEvents = 4
    Never = Never
    SyncedMails = {1, 2, 3}
    Ids = {i1}
    Boxes = {"INBOX"}
    Syncs = {x1, x2}
    Runs = {g1}
    Batch = 1
    Limit = 1
    Contexts = {0}
    Nobody = Nobody
    Off = Off
    Reviews = {v1}
    Clients = {x1, x2}
    Inputs = {y1, y2}
    ReviewGenerations = {1, 2}
    MaxVersion = 3
    MaxDecisions = 3
    NoReview = NoReview
    Presses = {x1, x2}
    MaxGenerations = 2
    MaxAttempts = 2
    Cards = {0}
    Events = {1}
    Commands = {x1, x2}
    Scan = 2
    Jobs = {j1}
    Sweeps = {x1, x2}
    Manuals = {u1}
    MaxSends = 3
SPECIFICATION MCSpec
SYMMETRY Symmetry
INVARIANTS TrackerIsSound MailIsSound PackageIsSound OneMessagePerTarget FeedIsSound
PROPERTIES NoReplyIsOverlooked AnchorIsLastMail ReviewsAreSound
CHECK_DEADLOCK FALSE
