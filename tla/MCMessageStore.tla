--------------------------- MODULE MCMessageStore ---------------------------
(* TLC instance of MessageStore. *)
EXTENDS MessageStore
=============================================================================
