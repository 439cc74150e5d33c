\* Two revisions of one message, two concurrent requests, one crash.
CONSTANTS
    d1 = d1  d2 = d2  m1 = m1
    Drafts <- TwoRevisions
    Messages <- OneMessage
    MessageOf <- TwoRevisionsOf
    Requests = {r1, r2}
    Addresses = {alice}
    NoDraft = NoDraft
    Unsafe = Unsafe
    MaxCrashes = 1
SPECIFICATION FairSpec
INVARIANTS SentAsApproved StatusTellsTheTruth
PROPERTIES KeepsPromise StrandedSendIsResolved
CHECK_DEADLOCK FALSE
