------------------------------ MODULE MCDrafts ------------------------------
(***************************************************************************)
(* Drafts on two devices, of which one keeps copies.                       *)
(***************************************************************************)
EXTENDS Drafts
CONSTANTS c1, c2, d1, d2, p

\* The second composer is a later one of the same tab, or on the other device.
TwoComposers == {[c \in {c1, c2} |-> d1], [c \in {c1, c2} |-> IF c = c1 THEN d1 ELSE d2]}
OneComposer == [{c1} -> {d1, d2}]
=============================================================================
