------------------------------- MODULE Mailbox -------------------------------
(***************************************************************************)
(* The durable mailbox (internal/relay/mailbox.go): mail held until its    *)
(* owner deletes it.  A message is a pair <<recipient, envelope hash>> and *)
(* has three keys: its header, under the time it was stored, its body, and *)
(* an index entry that holds the header's key.                             *)
(*                                                                         *)
(* The store has no lock.  Store looks the index up and then commits one   *)
(* batch; Delete reads the index and then commits one batch; any other     *)
(* operation may come in between.  A batch is atomic (leveldb).            *)
(***************************************************************************)
EXTENDS Naturals

CONSTANTS
    Rx,         \* recipient keys (hex X25519)
    Hashes,     \* envelope hashes
    Procs,      \* request handlers, and the bridge working on its own mailbox
    MaxTime,    \* bound: readings of the clock
    None        \* no index entry

Times    == 0..MaxTime
Messages == Rx \X Hashes
Headers  == Messages \X Times     \* header keys: <<message, stored at>>

ASSUME MailboxAssumption == MaxTime \in Nat /\ None \notin Times

VARIABLES
    headers,    \* header keys present
    bodies,     \* messages whose body is present
    index,      \* the header key's time that the index holds, or None
    now,        \* the wall clock
    pc, msg,    \* what each handler is doing, and to which message
    at,         \* the header time it will write or delete
    \* what the outside world was told
    acked,      \* messages whose STORE was answered with success, not deleted since
    contended   \* messages on which two operations overlapped

store == <<headers, bodies, index>>
told  == <<acked, contended>>
vars  == <<store, now, pc, msg, at, told>>

TypeOK ==
    /\ headers \in SUBSET Headers
    /\ bodies \in SUBSET Messages
    /\ index \in [Messages -> Times \cup {None}]
    /\ now \in Times
    /\ pc \in [Procs -> {"idle", "storing", "deleting"}]
    /\ msg \in [Procs -> Messages]
    /\ at \in [Procs -> Times]
    /\ acked \in SUBSET Messages
    /\ contended \in SUBSET Messages

Init ==
    /\ headers = {} /\ bodies = {}
    /\ index = [m \in Messages |-> None]
    /\ now = 0
    /\ pc = [p \in Procs |-> "idle"]
    /\ msg \in {[p \in Procs |-> m] : m \in Messages}
    /\ at = [p \in Procs |-> 0]
    /\ acked = {} /\ contended = {}

-----------------------------------------------------------------------------

Busy(m) == \E p \in Procs : pc[p] # "idle" /\ msg[p] = m

Begin(p, step, m, t) ==
    /\ pc[p] = "idle"
    /\ pc' = [pc EXCEPT ![p] = step]
    /\ msg' = [msg EXCEPT ![p] = m]
    /\ at' = [at EXCEPT ![p] = t]
    /\ contended' = contended \cup {n \in {m} : Busy(n)}
    /\ UNCHANGED <<store, now, acked>>

Finish(p) ==
    /\ pc' = [pc EXCEPT ![p] = "idle"]
    /\ UNCHANGED <<now, msg, at, contended>>

\* Mutant: a header is taken as proof that the message is there.
StoreAgainByHeader(m) ==
    /\ \E k \in headers : k[1] = m
    /\ acked' = acked \cup {m}
    /\ UNCHANGED <<store, now, pc, msg, at, contended>>

\* Store, when the index already has the message: answered with success.
StoreAgain(m) ==
    /\ index[m] # None
    /\ acked' = acked \cup {m}
    /\ UNCHANGED <<store, now, pc, msg, at, contended>>

\* Store, when it has not: the time was read before the look-up, the batch is
\* committed after it.
StoreBegin(p, m) ==
    /\ index[m] = None
    /\ Begin(p, "storing", m, now)

\* Mutant: header, body and index are committed one after the other, and the
\* process may stop in between.
StoreCommitInSteps(p) ==
    LET m == msg[p]
    IN  /\ pc[p] = "storing"
        /\ \/ /\ <<m, at[p]>> \notin headers
              /\ headers' = headers \cup {<<m, at[p]>>}
              /\ UNCHANGED <<bodies, index, now, pc, msg, at, told>>
           \/ /\ <<m, at[p]>> \in headers
              /\ bodies' = bodies \cup {m}
              /\ index' = [index EXCEPT ![m] = at[p]]
              /\ acked' = acked \cup {m}
              /\ Finish(p)
              /\ UNCHANGED headers

StoreCommit(p) ==
    LET m == msg[p]
    IN  /\ pc[p] = "storing"
        /\ headers' = headers \cup {<<m, at[p]>>}
        /\ bodies' = bodies \cup {m}
        /\ index' = [index EXCEPT ![m] = at[p]]
        /\ acked' = acked \cup {m}
        /\ Finish(p)

\* Delete of a message the index does not have: answered with success.
DeleteAgain(m) ==
    /\ index[m] = None
    /\ UNCHANGED <<store, now, pc, msg, at, acked, contended>>

DeleteBegin(p, m) ==
    /\ index[m] # None
    /\ Begin(p, "deleting", m, index[m])

DeleteCommit(p) ==
    LET m == msg[p]
    IN  /\ pc[p] = "deleting"
        /\ headers' = headers \ {<<m, at[p]>>}
        /\ bodies' = bodies \ {m}
        /\ index' = [index EXCEPT ![m] = None]
        /\ acked' = acked \ {m}
        /\ Finish(p)

\* The batch could not be committed, and the caller was told so.
CommitFailed(p) ==
    /\ pc[p] # "idle"
    /\ Finish(p)
    /\ UNCHANGED <<store, acked>>

\* The process stops, and starts again on the same datastore.
Crash ==
    /\ pc' = [p \in Procs |-> "idle"]
    /\ UNCHANGED <<store, now, msg, at, told>>

Tick ==
    /\ now < MaxTime
    /\ now' = now + 1
    /\ UNCHANGED <<store, pc, msg, at, told>>

Next ==
    \/ \E m \in Messages : StoreAgain(m) \/ DeleteAgain(m)
    \/ \E p \in Procs, m \in Messages : StoreBegin(p, m) \/ DeleteBegin(p, m)
    \/ \E p \in Procs : StoreCommit(p) \/ DeleteCommit(p) \/ CommitFailed(p)
    \/ Crash
    \/ Tick

Spec == Init /\ [][Next]_vars

-----------------------------------------------------------------------------
(* Properties.                                                             *)

\* A message whose STORE was answered with success, and that nobody deleted
\* since, can be listed under the key its index holds and its body can be
\* fetched, whatever retried STOREs and DELETEs of the same message overlap.
AckedMailReadable ==
    \A m \in acked :
        /\ index[m] # None
        /\ <<m, index[m]>> \in headers
        /\ m \in bodies

\* The three keys of a message come and go together, whatever overlaps and
\* wherever the process stops: the index entry is there exactly when the body
\* is, and the header it names is there then too.
IndexedMailComplete ==
    \A m \in Messages :
        /\ (index[m] # None) <=> (m \in bodies)
        /\ index[m] # None => <<m, index[m]>> \in headers

\* Mail is whole, and what was acknowledged is there.
MailIsWhole == IndexedMailComplete /\ AckedMailReadable

\* A header without an index entry naming it is listed, but cannot be opened or
\* deleted; it is left behind only where two operations on the same message
\* overlapped.
GhostsNeedOverlap ==
    \A k \in headers : k[1] \in contended \/ index[k[1]] = k[2]
=============================================================================
