----------------------- MODULE MCGmailApplicationDraft -----------------------
(***************************************************************************)
(* An instance of GmailApplicationDraft for TLC: two presses compete for   *)
(* the row.                                                                *)
(***************************************************************************)
EXTENDS GmailApplicationDraft, TLC

CONSTANTS o1, o2

=============================================================================
