----------------------------- MODULE MCAccounts -----------------------------
(* Model-checking instance of Accounts: see MCAccounts.cfg. *)
EXTENDS Accounts

=============================================================================
