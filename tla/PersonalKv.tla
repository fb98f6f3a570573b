----------------------------- MODULE PersonalKv -----------------------------
(***************************************************************************)
(* The personal key-value store of one account                             *)
(* (internal/relay/personalkv_store.go): sealed blobs with a version for   *)
(* compare-and-swap.  Put holds the store's mutex from its read to its     *)
(* write; Delete does not take it.                                         *)
(*                                                                         *)
(* Clients delete records (contacts, flags, drafts, sent mail) and never   *)
(* delete the singleton documents (settings/app, settings/labels).         *)
(***************************************************************************)
EXTENDS Naturals

CONSTANTS
    Docs,        \* keys of singleton documents
    Records,     \* keys of records
    Existing,    \* the documents an earlier session has written already
    Vals,        \* what a blob can say once opened
    Procs,       \* request handlers
    None,
    MaxVersion   \* bound: versions of one key

Keys == Docs \cup Records
Versions == 1..MaxVersion

ASSUME PersonalKvAssumption ==
    /\ Docs \cap Records = {}
    /\ Existing \subseteq Docs
    /\ MaxVersion \in Nat \ {0}
    /\ None \notin [ver : Versions, val : Vals]
    /\ None \notin [key : Keys, val : Vals, expect : 0..MaxVersion, cur : 0..MaxVersion]

VARIABLES
    rec,        \* key -> [ver, val], or None
    put,        \* handler -> the Put it is in the middle of, or None
    issued      \* history: the versions handed out for each key

kvars == <<rec, put, issued>>

TypeOK ==
    /\ rec \in [Keys -> {None} \cup [ver : Versions, val : Vals]]
    /\ put \in [Procs -> {None} \cup
                    [key : Keys, val : Vals, expect : 0..MaxVersion, cur : 0..MaxVersion]]
    /\ issued \in [Keys -> SUBSET Versions]

Version(k) == IF rec[k] = None THEN 0 ELSE rec[k].ver

Init ==
    /\ rec \in [Keys -> {None} \cup [ver : {1}, val : Vals]]
    /\ \A k \in Keys : rec[k] # None <=> k \in Existing
    /\ put = [p \in Procs |-> None]
    /\ issued = [k \in Keys |-> {1} \cap {Version(k)}]

-----------------------------------------------------------------------------

MutexFree == \A p \in Procs : put[p] = None

\* Put takes the mutex, reads the stored version and compares.
PutRead(p, k, v, expected) ==
    /\ MutexFree
    /\ expected # 0 => Version(k) = expected
    /\ Version(k) < MaxVersion
    /\ put' = [put EXCEPT ![p] =
                  [key |-> k, val |-> v, expect |-> expected, cur |-> Version(k)]]
    /\ UNCHANGED <<rec, issued>>

\* The comparison fails: ErrKvConflict, and nothing has changed.
PutConflict(k, expected) ==
    /\ MutexFree
    /\ expected # 0 /\ Version(k) # expected
    /\ UNCHANGED kvars

\* Mutant: the version is the one the client expected, counted up.
PutWriteExpected(p) ==
    LET r == put[p]
    IN  /\ r # None
        /\ r.expect < MaxVersion
        /\ rec' = [rec EXCEPT ![r.key] = [ver |-> r.expect + 1, val |-> r.val]]
        /\ issued' = [issued EXCEPT ![r.key] = @ \cup {r.expect + 1}]
        /\ put' = [put EXCEPT ![p] = None]

\* Put writes under the version it read, counted up, and lets the mutex go.
PutWrite(p) ==
    LET r == put[p]
    IN  /\ r # None
        /\ rec' = [rec EXCEPT ![r.key] = [ver |-> r.cur + 1, val |-> r.val]]
        /\ issued' = [issued EXCEPT ![r.key] = @ \cup {r.cur + 1}]
        /\ put' = [put EXCEPT ![p] = None]

\* The datastore could not be written; the caller is told.
PutFailed(p) ==
    /\ put[p] # None
    /\ put' = [put EXCEPT ![p] = None]
    /\ UNCHANGED <<rec, issued>>

\* Delete goes straight to the datastore.
Delete(k) ==
    /\ k \in Records
    /\ rec' = [rec EXCEPT ![k] = None]
    /\ UNCHANGED <<put, issued>>

\* The process stops and starts again on the same datastore.
Crash ==
    /\ put' = [p \in Procs |-> None]
    /\ UNCHANGED <<rec, issued>>

\* Clients that may ask for anything.
Next ==
    \/ \E p \in Procs, k \in Keys, v \in Vals, e \in 0..MaxVersion : PutRead(p, k, v, e)
    \/ \E k \in Keys, e \in 0..MaxVersion : PutConflict(k, e)
    \/ \E p \in Procs : PutWrite(p) \/ PutFailed(p)
    \/ \E k \in Records : Delete(k)
    \/ Crash

Spec == Init /\ [][Next]_kvars

-----------------------------------------------------------------------------
(* Properties.                                                             *)

\* The version that a Put of a document in progress is about to answer with was
\* never handed out before, so two devices that hold the same version of a
\* document hold the same document.
DocVersionsFresh ==
    \A p \in Procs :
        put[p] # None /\ put[p].key \in Docs => put[p].cur + 1 \notin issued[put[p].key]

\* The documents behave as the atomic store does: read-compare-write is one step,
\* whatever number of handlers, failed writes and restarts.  Records are left out:
\* a Delete between the read and the write of a Put is undone by the write.
Atomic == INSTANCE AtomicKv WITH Keys <- Docs, store <- [k \in Docs |-> rec[k]]
DocsAreAtomic == Atomic!Spec
=============================================================================
