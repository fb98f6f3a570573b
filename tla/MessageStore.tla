---------------------------- MODULE MessageStore ----------------------------
(***************************************************************************)
(* The relay's in-flight queue (internal/relay/store.go, with the sweep of *)
(* internal/relay/transitexpiry.go): mail that waits for a FETCH.          *)
(*                                                                         *)
(* A queued copy is a pair <<recipient, envelope hash>>.  The maps byAddr  *)
(* and byHash always hold the same copies, so one set, queued, stands for  *)
(* both and count is its cardinality.  The datastore holds one entry per   *)
(* copy (diskEnv, with its queue time) and one marker per copy a FETCH has *)
(* handed out (diskMark).  The maps change under the store's lock; the     *)
(* datastore deletes of ACK, Remove and Expire run after the lock is       *)
(* released, which is where the interleavings are.                         *)
(*                                                                         *)
(* Queue times are kept as ages, counted in ticks and saturating at AgeCap *)
(* (nothing tells older copies apart), so time itself is unbounded.        *)
(***************************************************************************)
EXTENDS Naturals, FiniteSets

CONSTANTS
    Addrs,          \* recipient keys (hex X25519)
    Hashes,         \* envelope hashes
    Workers,        \* goroutines that serve FETCH, ACK and Remove
    Sweeper,        \* the goroutine of startTransitExpiry
    OwnAddr,        \* the relay's own key: a co-located bridge's queue
    TransitMaxAge,  \* WithTransitMaxAge, in ticks
    OwnQueueGrace,  \* ownQueueGrace, in ticks
    Delivered,      \* an old-format entry whose status is legacyDelivered
    NoEntry,        \* no old-format entry under this hash
    MaxCrashes,     \* bound: process crashes
    MaxFaults       \* bound: failed datastore writes

ASSUME MessageStoreAssumption ==
    /\ Sweeper \notin Workers
    /\ Delivered \notin Addrs
    /\ NoEntry \notin Addrs
    /\ Delivered # NoEntry
    /\ TransitMaxAge \in Nat \ {0}
    /\ OwnQueueGrace \in Nat
    /\ MaxCrashes \in Nat
    /\ MaxFaults \in Nat

VARIABLES
    phase,      \* "down", the steps of load, or "up"
    queued,     \* copies in the maps
    fetched,    \* those of them with Fetched set
    age,        \* how long ago each queued copy was stored
    diskEnv,    \* copies with an entry under relayStorePrefix
    diskAge,    \* the queue time that entry carries
    diskMark,   \* copies with a marker under relayFetchedPrefix
    old,        \* entries under a hash-only key, from an older version
    todo,       \* load: old entries still to be rewritten
    stale,      \* load: old keys to delete once the scan is done
    pc,         \* what each goroutine is doing
    pend,       \* the copies it does it to
    crashes, faults,
    \* what the outside world was told or knows
    owed,        \* copies a sender was told are stored, not yet consumed
    handed,      \* copies some FETCH response carried to their recipient
    unpersisted, \* copies whose last datastore write failed
    cutOff       \* copies a crash caught between late delete and write-back

mem   == <<queued, fetched, age>>
disk  == <<diskEnv, diskAge, diskMark, old>>
load  == <<phase, todo, stale>>
ghost == <<owed, handed, unpersisted, cutOff>>
vars  == <<mem, disk, load, pc, pend, crashes, faults, ghost>>

Procs  == Workers \cup {Sweeper}
Copies == Addrs \X Hashes
Phases == {"down", "rewrite", "marks", "up"}
Steps  == {"idle", "sending", "delete", "writeback"}
AgeCap == TransitMaxAge + OwnQueueGrace + 1
Ages   == 0..AgeCap

OldPending == {<<old[h], h>> : h \in {g \in Hashes : old[g] \in Addrs}}

TypeOK ==
    /\ phase \in Phases
    /\ queued \in SUBSET Copies
    /\ fetched \in SUBSET Copies
    /\ age \in [Copies -> Ages]
    /\ diskEnv \in SUBSET Copies
    /\ diskAge \in [Copies -> Ages]
    /\ diskMark \in SUBSET Copies
    /\ old \in [Hashes -> Addrs \cup {Delivered, NoEntry}]
    /\ todo \in SUBSET {h \in Hashes : old[h] \in Addrs}
    /\ stale \in SUBSET Hashes
    /\ pc \in [Procs -> Steps]
    /\ pend \in [Procs -> SUBSET Copies]
    /\ crashes \in 0..MaxCrashes
    /\ faults \in 0..MaxFaults
    /\ owed \in SUBSET Copies
    /\ handed \in SUBSET Copies
    /\ unpersisted \in SUBSET Copies
    /\ cutOff \in SUBSET Copies

\* The first start after an upgrade: the disk holds whatever an older version
\* left under hash-only keys, delivered or still pending.
Init ==
    /\ phase = "down"
    /\ queued = {} /\ fetched = {}
    /\ age = [c \in Copies |-> 0]
    /\ diskEnv = {} /\ diskMark = {}
    /\ diskAge = [c \in Copies |-> 0]
    /\ old \in [Hashes -> Addrs \cup {Delivered, NoEntry}]
    /\ todo = {} /\ stale = {}
    /\ pc = [p \in Procs |-> "idle"]
    /\ pend = [p \in Procs |-> {}]
    /\ crashes = 0 /\ faults = 0
    /\ owed = OldPending
    /\ handed = {} /\ unpersisted = {} /\ cutOff = {}

-----------------------------------------------------------------------------
(* The datastore.  A write may fail; the store logs the failure and goes   *)
(* on with what it has in memory.                                          *)

Fault == /\ faults < MaxFaults
         /\ faults' = faults + 1

\* persist writes each copy of cs, with the queue time memory has for it (ages
\* is the age function after the step).
Persisted(cs, ages) ==
    /\ diskEnv' = diskEnv \cup cs
    /\ diskAge' = [c \in Copies |-> IF c \in cs THEN ages[c] ELSE diskAge[c]]
    /\ unpersisted' = unpersisted \ cs
    /\ UNCHANGED faults

PersistFailed(cs) ==
    /\ cs # {}
    /\ Fault
    /\ unpersisted' = unpersisted \cup cs
    /\ UNCHANGED <<diskEnv, diskAge>>

-----------------------------------------------------------------------------
(* STORE, FETCH and the three ways a copy leaves the queue.                *)

\* A retried STORE of a copy already queued changes nothing, but the sender is
\* told once more that the copy is stored.
Store(c) ==
    /\ phase = "up"
    /\ owed' = owed \cup {c}
    /\ \/ /\ c \in queued
          /\ UNCHANGED <<queued, age, diskEnv, diskAge, unpersisted, faults, cutOff>>
       \/ /\ c \notin queued
          /\ queued' = queued \cup {c}
          /\ age' = [age EXCEPT ![c] = 0]
          /\ Persisted({c}, age') \/ PersistFailed({c})
          /\ cutOff' = cutOff \ {c}
    /\ UNCHANGED <<fetched, diskMark, old, load, pc, pend, crashes, handed>>

\* handleFetch: Fetch lists what is queued for the recipient and the handler
\* starts writing the response.
Fetch(w, a) ==
    /\ phase = "up"
    /\ pc[w] = "idle"
    /\ LET list == {c \in queued : c[1] = a}
       IN /\ list # {}
          /\ pend' = [pend EXCEPT ![w] = list]
    /\ pc' = [pc EXCEPT ![w] = "sending"]
    /\ UNCHANGED <<mem, disk, load, crashes, faults, ghost>>

\* The response went out: MarkFetched marks those of the copies still queued.
MarkFetched(w) ==
    /\ pc[w] = "sending"
    /\ LET marks == (pend[w] \cap queued) \ fetched
       IN /\ fetched' = fetched \cup marks
          /\ \/ diskMark' = diskMark \cup marks /\ UNCHANGED faults
             \/ marks # {} /\ Fault /\ UNCHANGED diskMark
    /\ handed' = handed \cup pend[w]
    /\ pc' = [pc EXCEPT ![w] = "idle"]
    /\ pend' = [pend EXCEPT ![w] = {}]
    /\ UNCHANGED <<queued, age, diskEnv, diskAge, old, load, crashes, owed, unpersisted, cutOff>>

\* Writing the response failed: nothing is marked.
FetchFailed(w) ==
    /\ pc[w] = "sending"
    /\ pc' = [pc EXCEPT ![w] = "idle"]
    /\ pend' = [pend EXCEPT ![w] = {}]
    /\ UNCHANGED <<mem, disk, load, crashes, faults, ghost>>

\* unindex, under the lock, of the copies goroutine p is about to delete.
Unindex(p, cs) ==
    /\ phase = "up"
    /\ pc[p] = "idle"
    /\ cs # {}
    /\ queued' = queued \ cs
    /\ fetched' = fetched \ cs
    /\ age' = [c \in Copies |-> IF c \in cs THEN 0 ELSE age[c]]
    /\ pc' = [pc EXCEPT ![p] = "delete"]
    /\ pend' = [pend EXCEPT ![p] = cs]
    /\ owed' = owed \ cs
    /\ UNCHANGED <<disk, load, crashes, faults, handed, unpersisted, cutOff>>

\* Mutant: acknowledge every copy of the envelope, whoever collected it.
AckEveryCopy(w, h) == Unindex(w, {c \in queued : c[2] = h})

\* An ACK that finds no fetched copy answers NOT_FOUND and changes nothing.
Ack(w, h) == Unindex(w, {c \in fetched : c[2] = h})

\* Only the co-located bridge removes copies, from its own queue.
Remove(w, h) == Unindex(w, {<<OwnAddr, h>>} \cap queued)

\* Mutant: the own queue is left to the bridge alone.
LifetimeOwnForever(a) == IF a = OwnAddr THEN AgeCap ELSE TransitMaxAge

\* expireTransit's cutoff: the relay's own queue is kept a grace longer.
Lifetime(a) == IF a = OwnAddr THEN TransitMaxAge + OwnQueueGrace ELSE TransitMaxAge

Expire == Unindex(Sweeper, {c \in queued : age[c] > Lifetime(c[1])})

\* deleteCopies, first half, without the lock: one batch deletes the entries
\* and the markers.
DeleteKeys(p) ==
    /\ pc[p] = "delete"
    /\ pc' = [pc EXCEPT ![p] = "writeback"]
    /\ \/ /\ diskEnv' = diskEnv \ pend[p]
          /\ diskMark' = diskMark \ pend[p]
          /\ diskAge' = [c \in Copies |-> IF c \in pend[p] THEN 0 ELSE diskAge[c]]
          /\ UNCHANGED faults
       \/ Fault /\ UNCHANGED <<diskEnv, diskMark, diskAge>>
    /\ UNCHANGED <<mem, old, load, pend, crashes, ghost>>

\* Mutant: no write-back.
WriteBackNothing(p) ==
    /\ pc[p] = "writeback"
    /\ pc' = [pc EXCEPT ![p] = "idle"]
    /\ pend' = [pend EXCEPT ![p] = {}]
    /\ UNCHANGED <<mem, disk, load, crashes, faults, ghost>>

\* deleteCopies, second half, under the lock again: a copy stored again in the
\* meantime has lost its entry to the late delete, so it is written back.
WriteBack(p) ==
    /\ pc[p] = "writeback"
    /\ LET again == pend[p] \cap queued
       IN Persisted(again, age) \/ PersistFailed(again)
    /\ pc' = [pc EXCEPT ![p] = "idle"]
    /\ pend' = [pend EXCEPT ![p] = {}]
    /\ UNCHANGED <<mem, diskMark, old, load, crashes, owed, handed, cutOff>>

-----------------------------------------------------------------------------
(* Crash, and load on the next start.  No request is served until load     *)
(* has returned, but a crash may interrupt it anywhere.                    *)

Crash ==
    /\ phase # "down"
    /\ crashes < MaxCrashes
    /\ crashes' = crashes + 1
    /\ phase' = "down"
    /\ queued' = {} /\ fetched' = {}
    /\ age' = [c \in Copies |-> 0]
    /\ todo' = {} /\ stale' = {}
    /\ pc' = [p \in Procs |-> "idle"]
    /\ pend' = [p \in Procs |-> {}]
    /\ cutOff' = cutOff \cup
          {c \in queued \ diskEnv : \E p \in Procs : pc[p] = "writeback" /\ c \in pend[p]}
    /\ UNCHANGED <<disk, faults, owed, handed, unpersisted>>

\* Entries under current keys are indexed first; the others are put aside.
LoadScan ==
    /\ phase = "down"
    /\ phase' = "rewrite"
    /\ queued' = diskEnv
    /\ age' = diskAge
    /\ stale' = {h \in Hashes : old[h] = Delivered}
    /\ todo' = {h \in Hashes : old[h] \in Addrs}
    /\ UNCHANGED <<fetched, disk, pc, pend, crashes, faults, ghost>>

\* Mutant: the old key goes whether or not the rewrite succeeded.
LoadRewriteEager(h) ==
    /\ phase = "rewrite"
    /\ h \in todo
    /\ todo' = todo \ {h}
    /\ stale' = stale \cup {h}
    /\ LET c == <<old[h], h>>
       IN \/ /\ c \in queued
             /\ UNCHANGED <<queued, age, diskEnv, diskAge, unpersisted, faults>>
          \/ /\ c \notin queued
             /\ queued' = queued \cup {c}
             /\ age' = [age EXCEPT ![c] = 0]
             /\ \/ Persisted({c}, age')
                \/ Fault /\ UNCHANGED <<diskEnv, diskAge, unpersisted>>
    /\ UNCHANGED <<phase, fetched, diskMark, old, pc, pend, crashes, owed, handed, cutOff>>

\* An old entry is indexed as queued now and rewritten under its own key; its
\* old key goes only once that write succeeded.
LoadRewrite(h) ==
    /\ phase = "rewrite"
    /\ h \in todo
    /\ todo' = todo \ {h}
    /\ LET c == <<old[h], h>>
       IN \/ /\ c \in queued
             /\ stale' = stale \cup {h}
             /\ UNCHANGED <<queued, age, diskEnv, diskAge, unpersisted, faults>>
          \/ /\ c \notin queued
             /\ queued' = queued \cup {c}
             /\ age' = [age EXCEPT ![c] = 0]
             /\ \/ Persisted({c}, age') /\ stale' = stale \cup {h}
                \/ Fault /\ UNCHANGED <<diskEnv, diskAge, unpersisted, stale>>
    /\ UNCHANGED <<phase, fetched, diskMark, old, pc, pend, crashes, owed, handed, cutOff>>

LoadPurge ==
    /\ phase = "rewrite"
    /\ todo = {}
    /\ phase' = "marks"
    /\ stale' = {}
    /\ \/ /\ old' = [h \in Hashes |-> IF h \in stale THEN NoEntry ELSE old[h]]
          /\ UNCHANGED faults
       \/ stale # {} /\ Fault /\ UNCHANGED old
    /\ UNCHANGED <<mem, diskEnv, diskAge, diskMark, todo, pc, pend, crashes, ghost>>

\* loadFetched: a marker whose copy is gone is deleted.
LoadFetched ==
    /\ phase = "marks"
    /\ phase' = "up"
    /\ fetched' = diskMark \cap queued
    /\ \/ diskMark' = diskMark \cap queued /\ UNCHANGED faults
       \/ diskMark \ queued # {} /\ Fault /\ UNCHANGED diskMark
    /\ UNCHANGED <<queued, age, diskEnv, diskAge, old, todo, stale, pc, pend, crashes, ghost>>

Older(n) == IF n < AgeCap THEN n + 1 ELSE n

\* A tick of the clock ages every copy, in memory and on disk alike.
Tick ==
    /\ age' = [c \in Copies |-> IF c \in queued THEN Older(age[c]) ELSE age[c]]
    /\ diskAge' = [c \in Copies |-> IF c \in diskEnv THEN Older(diskAge[c]) ELSE diskAge[c]]
    /\ UNCHANGED <<queued, fetched, diskEnv, diskMark, old, load, pc, pend, crashes, faults, ghost>>

-----------------------------------------------------------------------------

Request(w) ==
    \/ \E a \in Addrs : Fetch(w, a)
    \/ MarkFetched(w)
    \/ FetchFailed(w)
    \/ \E h \in Hashes : Ack(w, h)
    \/ \E h \in Hashes : Remove(w, h)

Deleting(p) == DeleteKeys(p) \/ WriteBack(p)

Load == LoadScan \/ (\E h \in Hashes : LoadRewrite(h)) \/ LoadPurge \/ LoadFetched

Next ==
    \/ \E c \in Copies : Store(c)
    \/ \E w \in Workers : Request(w)
    \/ Expire
    \/ \E p \in Procs : Deleting(p)
    \/ Crash
    \/ Load
    \/ Tick

\* The goroutines run, load runs, and the sweep's ticker fires: the process
\* schedules all three.  Nobody promises that a client ever calls.
Fairness ==
    /\ WF_vars(Load)
    /\ \A p \in Procs : WF_vars(Deleting(p))
    /\ WF_vars(Expire)
    /\ WF_vars(Tick)

Spec == Init /\ [][Next]_vars

FairSpec == Spec /\ Fairness

-----------------------------------------------------------------------------
(* Properties.                                                             *)

InFlight(c, step) == \E p \in Procs : pc[p] = step /\ c \in pend[p]

\* "Every mutation is also written through to disk": whatever the goroutines
\* are doing, a queued copy has an entry on disk (under the old key if its
\* rewrite failed), unless its write failed or a late delete has just taken the
\* entry and the write-back is still to come.
DiskCoversQueue ==
    \A c \in queued :
        c \in diskEnv \cup OldPending \cup unpersisted \/ InFlight(c, "writeback")

\* The converse: as long as no datastore write fails, nothing is left on disk
\* for a copy that has left the queue, except what a delete in flight is about
\* to remove.  An entry left behind would be delivered again after a restart, a
\* marker left behind would make a later copy acknowledgeable unread.
NoOrphans ==
    (phase = "up" /\ faults = 0) =>
        \A c \in diskEnv \cup diskMark : c \in queued \/ InFlight(c, "delete")

\* A copy's queue time on disk is its queue time in memory, so a restart
\* neither prolongs nor shortens the wait that Expire measures.
QueueTimesAgree ==
    phase # "down" => \A c \in (queued \cap diskEnv) \ unpersisted : age[c] = diskAge[c]

\* So the maps and the disk say the same of every copy, outside those windows.
DiskMatchesQueue == DiskCoversQueue /\ NoOrphans /\ QueueTimesAgree

\* Loading never makes an entry on disk younger: an old-format key whose delete
\* failed last time does not replace the queue time of its rewritten entry.
LoadKeepsQueueTime ==
    [][phase # "up" => \A c \in diskEnv \cap diskEnv' : diskAge'[c] >= diskAge[c]]_vars

\* Where the mail that is owed to a recipient can be found again.
Recoverable == IF phase = "up" THEN queued ELSE diskEnv \cup OldPending

\* A copy a sender was told is stored stays until it is acknowledged, removed
\* or expired, through any crash, including crashes inside load and inside an
\* upgrade from hash-only keys.  The two exceptions are exact: its datastore
\* write failed, or the crash fell between a late delete and its write-back.
NoMailLost == owed \ (unpersisted \cup cutOff) \subseteq Recoverable

\* An ACK deletes only copies that a FETCH response really carried to their
\* recipient: the copy of another recipient of the same envelope, a copy listed
\* but not sent, and a copy stored again since, all stay.
AckSparesUncollected ==
    [][\A w \in Workers, h \in Hashes : Ack(w, h) => queued \ queued' \subseteq handed]_vars

\* A copy nobody collects does not stay for ever: the sweep drops it, or it
\* left the queue some other way before.
NobodyCollects == \A c \in Copies : c \in queued ~> c \notin queued
=============================================================================
