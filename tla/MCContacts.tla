------------------------------ MODULE MCContacts ------------------------------
(***************************************************************************)
(* A contact on two devices whose directory entry moves to another key, or *)
(* goes away.                                                              *)
(***************************************************************************)
EXTENDS Contacts

Answer(k) == [ed |-> k, x |-> k, cust |-> FALSE, legacy |-> FALSE, bad |-> FALSE, tier2 |-> FALSE]
MCAnswers == {Answer(1), Answer(2), [Answer(0) EXCEPT !.legacy = TRUE]}
\* Bridged mail is signed with the bridge's key, which is nobody's in the directory.
Bridge == 9
MCMessages ==
    [key : {1, 2}, att : {"none", "bad"}, receipt : {"none"}] \cup
    [key : {2}, att : {"none"}, receipt : {"bad"}] \cup
    [key : {Bridge}, att : {"bad", "weak", "good"}, receipt : {"none"}] \cup
    [key : {Bridge}, att : {"good"}, receipt : {"bad", "failed"}]
MCFilters == {[keys |-> {}, deny |-> TRUE, addr |-> FALSE], [keys |-> {2}, deny |-> FALSE, addr |-> TRUE]}
=============================================================================
