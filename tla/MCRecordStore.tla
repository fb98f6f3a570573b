---------------------------- MODULE MCRecordStore ----------------------------
(* TLC instance of RecordStore: an address that is rotated twice or freed by   *)
(* its domain's root, which is replaced once.                                  *)
EXTENDS RecordStore, TLC

E12 == [sig |-> 1, after |-> None, from |-> "k1", to |-> "k2", rev |-> 2, by |-> "k1", attested |-> TRUE]
E21 == [sig |-> 2, after |-> 1, from |-> "k2", to |-> "k1", rev |-> 3, by |-> "k2", attested |-> TRUE]
E23 == [sig |-> 3, after |-> 1, from |-> "k2", to |-> "k3", rev |-> 3, by |-> "rk", attested |-> TRUE]

Id(key, rev, issued, chain) ==
    [key |-> key, recovery |-> "rk", rev |-> rev, issued |-> issued, issuer |-> "i1", chain |-> chain]

MCIdentities == {
    Id("k1", 1, 0, <<>>), Id("k1", 1, 1, <<>>),
    Id("k2", 2, 0, <<E12>>), Id("k1", 3, 0, <<E12, E21>>), Id("k3", 3, 0, <<E12, E23>>),
    Id("k3", 2, 0, <<>>)}

MCDars == {
    [root |-> "R1", old |-> {}, rev |-> 1, rotation |-> TRUE, reserves |-> FALSE],
    [root |-> "R2", old |-> {"R1"}, rev |-> 2, rotation |-> TRUE, reserves |-> TRUE]}

MCRemovals == {
    [keys |-> {"k1"}, rev |-> 1, by |-> "R1"], [keys |-> {"k1"}, rev |-> 1, by |-> "k1"],
    [keys |-> {"k2"}, rev |-> 2, by |-> "R1"], [keys |-> {"k1", "k2"}, rev |-> 2, by |-> "R2"]}

MCBlocklists == {[blocked |-> {"i1"}, rev |-> 1, by |-> "R1"]}

MCHistories == {<<E12>>, <<E12, E21>>}

Empty == [k \in Kinds |-> None]
D1 == [root |-> "R1", old |-> {}, rev |-> 1, rotation |-> TRUE, reserves |-> FALSE]
Bound == [Empty EXCEPT !["dar"] = D1, !["identity"] = Id("k1", 1, 0, <<>>)]
Rotated == [Bound EXCEPT !["identity"] = Id("k2", 2, 0, <<E12>>), !["history"] = <<E12>>]
MCStores == {Empty, Bound, Rotated}
MCBundled == {D1}

Symmetry == Permutations(Procs)
=============================================================================
