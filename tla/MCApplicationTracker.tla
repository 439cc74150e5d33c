------------------------- MODULE MCApplicationTracker -------------------------
(***************************************************************************)
(* The tracker of an application alone, for TLC: one command, no mail.     *)
(***************************************************************************)
EXTENDS ApplicationTracker

===============================================================================
