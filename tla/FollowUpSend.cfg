\* Two proposals for one anchor, two requests, a reply that the sync stores.
\* The cases of an assessment are those of MCCases.
CONSTANTS
    p1 = p1  p2 = p2  r1 = r1  r2 = r2
    Messages <- MailAndReply
    Outbound <- OneAnchor
    Proposals = {p1, p2}
    AnchorOf <- SameAnchor
    Requests = {r1, r2}
    Nobody = Nobody  NoProposal = NoProposal  Ghost = Ghost
    TTL = 1
    WriterMayStall = FALSE
    MaxCrashes = 1
    Off = Off  None = None  Stale = Stale
SPECIFICATION MCSpec
SYMMETRY Symmetry
INVARIANTS StatusTellsTheTruth AssessmentsAreSound
PROPERTIES NoFollowUpAfterReply KeepsPromise
CHECK_DEADLOCK FALSE
