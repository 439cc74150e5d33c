\* Two anchors with a proposal each: a second mail of the candidate moves the
\* anchor; one death while the request or the sync holds the guard.
CONSTANTS
    p1 = p1  p2 = p2  r1 = r1  r2 = r2
    Messages <- MailReplyMail
    Outbound <- TwoAnchors
    Proposals = {p1, p2}
    AnchorOf <- EachAnchor
    Requests = {r1}
    Nobody = Nobody  NoProposal = NoProposal  Ghost = Ghost
    TTL = 1
    WriterMayStall = FALSE
    MaxCrashes = 1
SPECIFICATION FairSpec
PROPERTY MailIsStored
CHECK_DEADLOCK FALSE
