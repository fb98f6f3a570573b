------------------------------ MODULE MCCodec ------------------------------
EXTENDS Codec

Said == {[rich |-> FALSE, content |-> c] : c \in {Blank, 5, LongText}} \cup {[rich |-> TRUE, content |-> 7]}
SaidNothing == Said \cup {[rich |-> FALSE, content |-> 0], [rich |-> TRUE, content |-> ImageOnly]}
Boundaries == UNION {{c - 5, c - 4, c - 3, c} : c \in SIZE_CLASSES \cup {2 * MB, 16 * MB}} \cup {0, 1}
=============================================================================
