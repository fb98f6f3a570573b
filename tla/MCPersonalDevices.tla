-------------------------- MODULE MCPersonalDevices --------------------------
(* TLC instance of PersonalDevices. *)
EXTENDS PersonalDevices

MCVals == SUBSET Edits
=============================================================================
