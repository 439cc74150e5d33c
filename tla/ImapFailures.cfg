\* The same instance: how a session of the inbox sync fails.
CONSTANTS
    restCycle = restCycle  restCycle2 = restCycle2
    key = key
    TTL = 1
    Extension = 2
    Deadline = 1
    MaxLag = 0
    MaxCrashes = 2
    Nobody = Nobody
    Mails = 3
    Addresses = 2
    NoSocket = NoSocket
SPECIFICATION MCSpec
INVARIANT FailuresAreClassified
CHECK_DEADLOCK FALSE
