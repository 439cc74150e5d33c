\* Digest: two workers poll through two dates and die anywhere; the second date
\* does not end.  Mail: two mails, one sync and one run that start again and again.
CONSTANTS
    w1 = w1  w2 = w2
    Workers = {w1, w2}
    LastDate = 2
    TTL = 2
    Mails = {1, 2}
    Ids = {i1}
    Boxes = {"INBOX"}
    Syncs = {s1}
    Runs = {g1}
    Batch = 1
    Limit = 1
    Contexts = {0}
    Nobody = Nobody
    Off = Off
SPECIFICATION MCSpec
PROPERTIES KeepsPromise StrandedClaimIsResolved EveryMailIsHandled
CHECK_DEADLOCK FALSE
