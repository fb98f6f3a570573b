--------------------------- MODULE MCMailboxWalk ---------------------------
(* TLC instance of MailboxWalk. *)
EXTENDS MailboxWalk

\* The second envelope's header alone is over the byte budget.
MCEntrySize(h) == IF h = 2 THEN 3 ELSE 1
=============================================================================
