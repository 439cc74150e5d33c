\* SMTP: one call of send, whatever the server and the deadline do.  Lease: two
\* cycles under one key, two deaths.  IMAP: three mails, two addresses, any server.
CONSTANTS
    restCycle = restCycle  restCycle2 = restCycle2
    key = key
    TTL = 1
    Extension = 2
    Deadline = 1
    MaxLag = 0
    MaxCrashes = 2
    Nobody = Nobody
    Mails = 3
    Addresses = 2
    NoSocket = NoSocket
SPECIFICATION MCSpec
INVARIANTS DefiniteIsFinal ResultIsAccepted SessionIsHonest
PROPERTIES WorkerIsInterrupted AbandonedSlotIsFreed SessionEnds
CHECK_DEADLOCK FALSE
