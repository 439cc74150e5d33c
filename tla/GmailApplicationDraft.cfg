\* Two presses, two attempts, one death.
CONSTANTS
    o1 = o1  o2 = o2
    Ops = {o1, o2}
    MaxAttempts = 2
    MaxCrashes = 1
SPECIFICATION FairSpec
INVARIANT LedgerTellsTheTruth
PROPERTIES NoAppendAfterWithdrawal StrandedAttemptIsResolved
CHECK_DEADLOCK FALSE
