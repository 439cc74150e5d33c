\* Manual, late: two attempts of which one may die.  Digests: two mails with two
\* vacancies of one text, two overlapping runs, two numberings of the mailbox.
\* Mails: MCCases.
CONSTANTS
    restCycle = restCycle  manualRun = manualRun
    Procs = {restCycle, manualRun}
    Keys = {"rest", "scheduler"}
    Manual = {manualRun}
    KeysOf <- EachItsKeys
    TTL = 1
    Extension = 3
    Deadline = 2
    MaxLag = 0
    MaxCrashes = 1
    Nobody = Nobody
    x1 = x1  x2 = x2  y1 = y1  y2 = y2
    Off = Off
    None = None  Stale = Stale
    Mails = {y1, y2}
    Digests <- TwoOfOneText
    NotDigest = NotDigest
    Blank = ""
    Runs = {x1, x2}
    MaxEpoch = 2
SPECIFICATION MCSpec
SYMMETRY Symmetry
INVARIANTS OneProvableRun CompletedRanAlone OrphanIsFenced MailIsReadRight
CHECK_DEADLOCK FALSE
