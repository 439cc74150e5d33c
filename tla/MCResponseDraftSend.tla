------------------------ MODULE MCResponseDraftSend ------------------------
(***************************************************************************)
(* Instances of ResponseDraftSend for TLC: revisions d1 and d2 answer the  *)
(* same message m1.                                                        *)
(***************************************************************************)
EXTENDS ResponseDraftSend, TLC

CONSTANTS d1, d2, m1

TwoRevisions == {d1, d2}
OneMessage == {m1}
TwoRevisionsOf == [d \in TwoRevisions |-> m1]

=============================================================================
