--------------------------- MODULE MCFollowUpSend ---------------------------
(***************************************************************************)
(* Instances of FollowUpSend for TLC: the candidate's mail, a reply, a     *)
(* second mail; two proposals for the first mail, or one for each.         *)
(***************************************************************************)
EXTENDS FollowUpSend, TLC

CONSTANTS p1, p2, r1, r2

MailAndReply == 1..2
MailReplyMail == 1..3
OneAnchor == {1}
TwoAnchors == {1, 3}
OnlyP1 == (p1 :> 1)
SameAnchor == (p1 :> 1) @@ (p2 :> 1)
EachAnchor == (p1 :> 1) @@ (p2 :> 3)
Symmetry == Permutations({r1, r2})

=============================================================================
