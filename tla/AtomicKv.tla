------------------------------ MODULE AtomicKv ------------------------------
(***************************************************************************)
(* What personal storage promises of a key that is never deleted: a write  *)
(* is one atomic step that counts the version up by one, so a version      *)
(* names one value for ever and whoever compares versions compares values. *)
(***************************************************************************)
EXTENDS Naturals

CONSTANTS Keys, Vals, None

VARIABLE store      \* key -> [ver, val], or None

Version(k) == IF store[k] = None THEN 0 ELSE store[k].ver

Init == store \in [Keys -> {None} \cup [ver : {1}, val : Vals]]

Write(k, v) == store' = [store EXCEPT ![k] = [ver |-> Version(k) + 1, val |-> v]]

Next == \E k \in Keys, v \in Vals : Write(k, v)

Spec == Init /\ [][Next]_store
=============================================================================
