\* A writer's insert outlasts the lease it is made under.
CONSTANTS
    p1 = p1  p2 = p2  r1 = r1  r2 = r2
    Messages <- MailAndReply
    Outbound <- OneAnchor
    Proposals = {p1}
    AnchorOf <- OnlyP1
    Requests = {r1}
    Nobody = Nobody  NoProposal = NoProposal  Ghost = Ghost
    TTL = 1
    WriterMayStall = TRUE
    MaxCrashes = 0
SPECIFICATION Spec
PROPERTY ReplyWaitsForTheSend
CHECK_DEADLOCK FALSE
