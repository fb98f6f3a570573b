------------------------- MODULE MessageStoreProofs -------------------------
(***************************************************************************)
(* Theorems about MessageStore, for every set of recipients, envelopes and *)
(* goroutines and every number of crashes and failed writes.               *)
(*                                                                         *)
(* None of the properties is inductive alone.  NoMailLost needs to know    *)
(* that what is in memory is on disk when a crash comes (DiskCoversQueue), *)
(* and that load has gone through every old entry before it deletes keys   *)
(* (LoadProgress).                                                         *)
(***************************************************************************)
EXTENDS MessageStore, TLAPS

\* Requests are served, and deletes are in flight, only while the store is up;
\* a crash leaves nothing in memory.
QuietUnlessUp ==
    /\ phase # "up" => \A p \in Procs : pc[p] = "idle"
    /\ phase = "down" => queued = {}

\* What load has done so far: every entry under a current key is indexed; an
\* old entry is either still to be rewritten or indexed; one still to be
\* rewritten was not indexed without an entry under its current key; an old key
\* to be deleted has its entry under the current one.
LoadProgress ==
    /\ phase \in {"rewrite", "marks"} =>
         /\ diskEnv \subseteq queued
         /\ \A h \in Hashes : old[h] \in Addrs => h \in todo \/ <<old[h], h>> \in queued
    /\ \A h \in todo : <<old[h], h>> \in queued => <<old[h], h>> \in diskEnv
    /\ \A h \in stale : old[h] \in Addrs => <<old[h], h>> \in diskEnv
    /\ phase # "rewrite" => todo = {} /\ stale = {}

\* Nothing carries a fetched mark, in memory or on disk, that was not handed
\* out.
MarksWereHanded == fetched \cup diskMark \subseteq handed

IInv ==
    /\ TypeOK
    /\ QuietUnlessUp
    /\ LoadProgress
    /\ MarksWereHanded
    /\ DiskCoversQueue
    /\ NoOrphans
    /\ QueueTimesAgree
    /\ NoMailLost

-----------------------------------------------------------------------------

\* A step of the specification, one case per operation.  ACK, Remove and Expire
\* differ only in the copies they choose.
StepCases ==
    \/ \E c \in Copies : Store(c)
    \/ \E p \in Procs, a \in Addrs : Fetch(p, a)
    \/ \E p \in Procs : MarkFetched(p)
    \/ \E p \in Procs : FetchFailed(p)
    \/ \E p \in Procs, cs \in SUBSET Copies : Unindex(p, cs)
    \/ \E p \in Procs : DeleteKeys(p)
    \/ \E p \in Procs : WriteBack(p)
    \/ Crash
    \/ LoadScan
    \/ \E h \in Hashes : LoadRewrite(h)
    \/ LoadPurge
    \/ LoadFetched
    \/ Tick
    \/ UNCHANGED vars

\* Every step is one of the operations above.
LEMMA NextCases == TypeOK /\ [Next]_vars => StepCases
<1> SUFFICES ASSUME TypeOK, [Next]_vars PROVE StepCases
  OBVIOUS
<1>1. ASSUME NEW w \in Workers, Request(w) PROVE StepCases
  <2>1. w \in Procs
    BY DEF Procs
  <2>2. ASSUME NEW h \in Hashes, Ack(w, h) PROVE StepCases
    <3>1. {c \in fetched : c[2] = h} \in SUBSET Copies
      BY DEF TypeOK
    <3> QED
      BY <2>1, <2>2, <3>1 DEF Ack, StepCases
  <2>3. ASSUME NEW h \in Hashes, Remove(w, h) PROVE StepCases
    <3>1. {<<OwnAddr, h>>} \cap queued \in SUBSET Copies
      BY DEF TypeOK
    <3> QED
      BY <2>1, <2>3, <3>1 DEF Remove, StepCases
  <2> QED
    BY <1>1, <2>1, <2>2, <2>3 DEF Request, StepCases
<1>2. ASSUME Expire PROVE StepCases
  <2>1. {c \in queued : age[c] > Lifetime(c[1])} \in SUBSET Copies
    BY DEF TypeOK
  <2> QED
    BY <1>2, <2>1 DEF Expire, Procs, StepCases
<1> QED
  BY <1>1, <1>2 DEF Next, Deleting, Load, StepCases

-----------------------------------------------------------------------------
(* Type correctness.                                                       *)

\* A store before it is opened, with what older versions left on disk, has its types.
LEMMA TypeInit == Init => TypeOK
  <1>1. Init => OldPending \in SUBSET Copies
    BY DEF Init, OldPending, Copies
  <1>2. 0 \in Ages /\ 0 \in 0..MaxCrashes /\ 0 \in 0..MaxFaults
    BY MessageStoreAssumption DEF Ages, AgeCap
  <1> QED
    BY <1>1, <1>2 DEF Init, TypeOK, Phases, Steps

\* A tick keeps an age within its cap and makes nothing younger.
LEMMA OlderType == ASSUME NEW n \in Ages PROVE Older(n) \in Ages /\ Older(n) >= n
  BY MessageStoreAssumption DEF Older, Ages, AgeCap

\* A datastore write that fails, or one that does not, keeps the bound on failures.
LEMMA FaultType ==
  ASSUME TypeOK, Fault \/ UNCHANGED faults
  PROVE  faults' \in 0..MaxFaults
  BY MessageStoreAssumption DEF TypeOK, Fault

\* What a write to the datastore leaves behind, whether or not it succeeds.
LEMMA PersistType ==
  ASSUME TypeOK, NEW cs \in SUBSET Copies, NEW ages \in [Copies -> Ages],
         Persisted(cs, ages) \/ PersistFailed(cs)
  PROVE  /\ diskEnv' \in SUBSET Copies
         /\ diskAge' \in [Copies -> Ages]
         /\ unpersisted' \in SUBSET Copies
         /\ faults' \in 0..MaxFaults
<1>1. CASE Persisted(cs, ages)
  BY <1>1 DEF TypeOK, Persisted
<1>2. CASE PersistFailed(cs)
  BY <1>2, FaultType DEF TypeOK, PersistFailed
<1> QED
  BY <1>1, <1>2

\* Every operation keeps every variable in its type.
LEMMA TypeStep == TypeOK /\ StepCases => TypeOK'
<1> SUFFICES ASSUME TypeOK, StepCases PROVE TypeOK'
  OBVIOUS
<1> USE DEF TypeOK
<1>0. 0 \in Ages
  BY MessageStoreAssumption DEF Ages, AgeCap
<1>1. ASSUME NEW c \in Copies, Store(c) PROVE TypeOK'
  <2>1. CASE c \in queued
    BY <1>1, <2>1 DEF Store, load
  <2>2. CASE c \notin queued
    <3>1. age' \in [Copies -> Ages]
      BY <1>0, <1>1, <2>2 DEF Store
    <3>2. Persisted({c}, age') \/ PersistFailed({c})
      BY <1>1, <2>2 DEF Store
    <3>3. /\ diskEnv' \in SUBSET Copies
          /\ diskAge' \in [Copies -> Ages]
          /\ unpersisted' \in SUBSET Copies
          /\ faults' \in 0..MaxFaults
      <4>1. {c} \in SUBSET Copies
        OBVIOUS
      <4> HIDE DEF TypeOK
      <4> QED
        BY <3>1, <3>2, <4>1, PersistType
    <3> QED
      BY <1>1, <2>2, <3>1, <3>3 DEF Store, load
  <2> QED
    BY <2>1, <2>2
<1>2. ASSUME NEW p \in Procs, NEW a \in Addrs, Fetch(p, a) PROVE TypeOK'
  BY <1>2 DEF Fetch, mem, disk, load, ghost, Steps
<1>3. ASSUME NEW p \in Procs, MarkFetched(p) PROVE TypeOK'
  <2>1. faults' \in 0..MaxFaults
    BY <1>3, FaultType DEF MarkFetched
  <2> QED
    BY <1>3, <2>1 DEF MarkFetched, load, Steps
<1>4. ASSUME NEW p \in Procs, FetchFailed(p) PROVE TypeOK'
  BY <1>4 DEF FetchFailed, mem, disk, load, ghost, Steps
<1>5. ASSUME NEW p \in Procs, NEW cs \in SUBSET Copies, Unindex(p, cs) PROVE TypeOK'
  BY <1>0, <1>5 DEF Unindex, disk, load, Steps
<1>6. ASSUME NEW p \in Procs, DeleteKeys(p) PROVE TypeOK'
  <2>1. faults' \in 0..MaxFaults
    BY <1>6, FaultType DEF DeleteKeys
  <2>2. diskAge' \in [Copies -> Ages]
    BY <1>0, <1>6 DEF DeleteKeys
  <2> QED
    BY <1>6, <2>1, <2>2 DEF DeleteKeys, mem, load, ghost, Steps
<1>7. ASSUME NEW p \in Procs, WriteBack(p) PROVE TypeOK'
  <2>1. Persisted(pend[p] \cap queued, age) \/ PersistFailed(pend[p] \cap queued)
    BY <1>7 DEF WriteBack
  <2>2. /\ diskEnv' \in SUBSET Copies
        /\ diskAge' \in [Copies -> Ages]
        /\ unpersisted' \in SUBSET Copies
        /\ faults' \in 0..MaxFaults
    <3>1. pend[p] \cap queued \in SUBSET Copies /\ age \in [Copies -> Ages]
      OBVIOUS
    <3> HIDE DEF TypeOK
    <3> QED
      BY <2>1, <3>1, PersistType
  <2> QED
    BY <1>7, <2>2 DEF WriteBack, mem, load, Steps
<1>8. CASE Crash
  BY <1>0, <1>8, MessageStoreAssumption DEF Crash, disk, Phases, Steps
<1>9. CASE LoadScan
  BY <1>9 DEF LoadScan, disk, ghost, Phases
<1>10. ASSUME NEW h \in Hashes, LoadRewrite(h) PROVE TypeOK'
  <2> DEFINE c == <<old[h], h>>
  <2>1. c \in Copies
    BY <1>10 DEF LoadRewrite, Copies
  <2>2. CASE c \in queued
    BY <1>10, <2>2 DEF LoadRewrite
  <2>3. CASE c \notin queued
    <3>1. age' \in [Copies -> Ages]
      BY <1>0, <1>10, <2>1, <2>3 DEF LoadRewrite
    <3>2. /\ diskEnv' \in SUBSET Copies
          /\ diskAge' \in [Copies -> Ages]
          /\ unpersisted' \in SUBSET Copies
          /\ faults' \in 0..MaxFaults
      <4>1. CASE Fault /\ UNCHANGED <<diskEnv, diskAge, unpersisted, stale>>
        BY <4>1, FaultType
      <4>2. CASE Persisted({c}, age')
        BY <2>1, <3>1, <4>2 DEF Persisted
      <4> QED
        BY <1>10, <2>3, <4>1, <4>2 DEF LoadRewrite
    <3> QED
      BY <1>10, <2>1, <2>3, <3>1, <3>2 DEF LoadRewrite
  <2> QED
    BY <2>2, <2>3
<1>11. CASE LoadPurge
  <2>1. faults' \in 0..MaxFaults
    BY <1>11, FaultType DEF LoadPurge
  <2> QED
    BY <1>11, <2>1 DEF LoadPurge, mem, ghost, Phases
<1>12. CASE LoadFetched
  <2>1. faults' \in 0..MaxFaults
    BY <1>12, FaultType DEF LoadFetched
  <2> QED
    BY <1>12, <2>1 DEF LoadFetched, ghost, Phases
<1>13. CASE Tick
  <2>1. age' \in [Copies -> Ages] /\ diskAge' \in [Copies -> Ages]
    BY <1>13, OlderType DEF Tick
  <2> QED
    BY <1>13, <2>1 DEF Tick, load, ghost
<1>14. CASE UNCHANGED vars
  BY <1>14 DEF vars, mem, disk, load, ghost
<1> QED
  BY Zenon, <1>1, <1>2, <1>3, <1>4, <1>5, <1>6, <1>7, <1>8, <1>9, <1>10, <1>11, <1>12, <1>13, <1>14
  DEF StepCases

\* The store's variables keep their types in every behaviour.
THEOREM TypeCorrect == Spec => []TypeOK
<1>1. TypeOK /\ [Next]_vars => TypeOK'
  BY NextCases, TypeStep
<1> QED
  BY TypeInit, <1>1, PTL DEF Spec

\* Every operation preserves the inductive invariant: one step per operation,
\* and under it one per part of the invariant that the operation can disturb.
LEMMA IInvStep == IInv /\ StepCases => IInv'
<1> SUFFICES ASSUME IInv, StepCases PROVE IInv'
  OBVIOUS
<1> USE DEF IInv
<1>0. TypeOK'
  BY TypeStep
<1>1. ASSUME NEW c \in Copies, Store(c) PROVE IInv'
  <2>1. LoadProgress'
    BY <1>1 DEF TypeOK, LoadProgress, Store, load
  <2>2. DiskCoversQueue'
    BY <1>1 DEF TypeOK, DiskCoversQueue, InFlight, OldPending, Persisted, PersistFailed,
      Store, load
  <2>3. NoOrphans'
    BY <1>1 DEF TypeOK, NoOrphans, InFlight, Persisted, PersistFailed, Fault, Store, load
  <2>4. QueueTimesAgree'
    BY <1>1 DEF TypeOK, QueueTimesAgree, Persisted, PersistFailed, Store, load
  <2>5. NoMailLost'
    BY <1>1 DEF TypeOK, NoMailLost, Recoverable, Persisted, PersistFailed, Store, load
  <2>6. QuietUnlessUp' /\ MarksWereHanded'
    BY <1>1 DEF QuietUnlessUp, MarksWereHanded, Store, load
  <2> QED
    BY <1>0, <2>1, <2>2, <2>3, <2>4, <2>5, <2>6
<1>2. ASSUME NEW p \in Procs, NEW a \in Addrs, Fetch(p, a) PROVE IInv'
  <2>1. QuietUnlessUp'
    BY <1>2 DEF TypeOK, QuietUnlessUp, Fetch, mem, disk, load, ghost
  <2>2. DiskCoversQueue'
    BY <1>2 DEF TypeOK, DiskCoversQueue, InFlight, OldPending, Fetch, mem, disk, load, ghost
  <2>3. NoOrphans'
    BY <1>2 DEF TypeOK, NoOrphans, InFlight, Fetch, mem, disk, load, ghost
  <2>4. LoadProgress' /\ MarksWereHanded' /\ QueueTimesAgree' /\ NoMailLost'
    BY <1>2 DEF LoadProgress, MarksWereHanded, QueueTimesAgree, NoMailLost, Recoverable,
      OldPending, Fetch, mem, disk, load, ghost
  <2> QED
    BY <1>0, <2>1, <2>2, <2>3, <2>4
<1>3. ASSUME NEW p \in Procs, MarkFetched(p) PROVE IInv'
  <2>1. QuietUnlessUp'
    BY <1>3 DEF TypeOK, QuietUnlessUp, MarkFetched, load
  <2>2. MarksWereHanded'
    BY <1>3 DEF TypeOK, MarksWereHanded, MarkFetched, load
  <2>3. DiskCoversQueue'
    BY <1>3 DEF TypeOK, DiskCoversQueue, InFlight, OldPending, MarkFetched, load
  <2>4. NoOrphans'
    BY <1>3 DEF TypeOK, NoOrphans, InFlight, Fault, MarkFetched, load
  <2>5. LoadProgress' /\ QueueTimesAgree' /\ NoMailLost'
    BY <1>3 DEF LoadProgress, QueueTimesAgree, NoMailLost, Recoverable, OldPending,
      MarkFetched, load
  <2> QED
    BY <1>0, <2>1, <2>2, <2>3, <2>4, <2>5
<1>4. ASSUME NEW p \in Procs, FetchFailed(p) PROVE IInv'
  <2>1. QuietUnlessUp'
    BY <1>4 DEF TypeOK, QuietUnlessUp, FetchFailed, mem, disk, load, ghost
  <2>2. DiskCoversQueue'
    BY <1>4 DEF TypeOK, DiskCoversQueue, InFlight, OldPending, FetchFailed, mem, disk, load,
      ghost
  <2>3. NoOrphans'
    BY <1>4 DEF TypeOK, NoOrphans, InFlight, FetchFailed, mem, disk, load, ghost
  <2>4. LoadProgress' /\ MarksWereHanded' /\ QueueTimesAgree' /\ NoMailLost'
    BY <1>4 DEF LoadProgress, MarksWereHanded, QueueTimesAgree, NoMailLost, Recoverable,
      OldPending, FetchFailed, mem, disk, load, ghost
  <2> QED
    BY <1>0, <2>1, <2>2, <2>3, <2>4
<1>5. ASSUME NEW p \in Procs, NEW cs \in SUBSET Copies, Unindex(p, cs) PROVE IInv'
  <2>1. QuietUnlessUp'
    BY <1>5 DEF TypeOK, QuietUnlessUp, Unindex, disk, load
  <2>2. LoadProgress'
    BY <1>5 DEF TypeOK, LoadProgress, Unindex, disk, load
  <2>3. MarksWereHanded'
    BY <1>5 DEF TypeOK, MarksWereHanded, Unindex, disk, load
  <2>4. DiskCoversQueue'
    BY <1>5 DEF TypeOK, DiskCoversQueue, InFlight, OldPending, Unindex, disk, load
  <2>5. NoOrphans'
    BY <1>5 DEF TypeOK, NoOrphans, InFlight, Unindex, disk, load
  <2>6. QueueTimesAgree'
    BY <1>5 DEF TypeOK, QueueTimesAgree, Unindex, disk, load
  <2>7. NoMailLost'
    BY <1>5 DEF TypeOK, NoMailLost, Recoverable, Unindex, disk, load
  <2> QED
    BY <1>0, <2>1, <2>2, <2>3, <2>4, <2>5, <2>6, <2>7
<1>6. ASSUME NEW p \in Procs, DeleteKeys(p) PROVE IInv'
  <2>1. QuietUnlessUp'
    BY <1>6 DEF TypeOK, QuietUnlessUp, DeleteKeys, mem, load, ghost
  <2>2. LoadProgress'
    BY <1>6 DEF TypeOK, LoadProgress, QuietUnlessUp, DeleteKeys, mem, load, ghost
  <2>3. MarksWereHanded'
    BY <1>6 DEF TypeOK, MarksWereHanded, DeleteKeys, mem, load, ghost
  <2>4. DiskCoversQueue'
    BY <1>6 DEF TypeOK, DiskCoversQueue, InFlight, OldPending, DeleteKeys, mem, load, ghost
  <2>5. NoOrphans'
    BY <1>6 DEF TypeOK, NoOrphans, InFlight, Fault, DeleteKeys, mem, load, ghost
  <2>6. QueueTimesAgree'
    BY <1>6 DEF TypeOK, QueueTimesAgree, DeleteKeys, mem, load, ghost
  <2>7. NoMailLost'
    BY <1>6 DEF TypeOK, NoMailLost, Recoverable, QuietUnlessUp, OldPending, DeleteKeys, mem,
      load, ghost
  <2> QED
    BY <1>0, <2>1, <2>2, <2>3, <2>4, <2>5, <2>6, <2>7
<1>7. ASSUME NEW p \in Procs, WriteBack(p) PROVE IInv'
  <2>1. QuietUnlessUp'
    BY <1>7 DEF TypeOK, QuietUnlessUp, WriteBack, mem, load
  <2>2. LoadProgress'
    BY <1>7 DEF TypeOK, LoadProgress, QuietUnlessUp, WriteBack, mem, load
  <2>3. DiskCoversQueue'
    BY <1>7 DEF TypeOK, DiskCoversQueue, InFlight, OldPending, Persisted, PersistFailed,
      WriteBack, mem, load
  <2>4. NoOrphans'
    BY <1>7 DEF TypeOK, NoOrphans, InFlight, Persisted, PersistFailed, Fault, WriteBack,
      mem, load
  <2>5. QueueTimesAgree'
    BY <1>7 DEF TypeOK, QueueTimesAgree, Persisted, PersistFailed, WriteBack, mem, load
  <2>6. NoMailLost'
    BY <1>7 DEF TypeOK, NoMailLost, Recoverable, QuietUnlessUp, Persisted, PersistFailed,
      OldPending, WriteBack, mem, load
  <2>7. MarksWereHanded'
    BY <1>7 DEF MarksWereHanded, WriteBack, mem, load
  <2> QED
    BY <1>0, <2>1, <2>2, <2>3, <2>4, <2>5, <2>6, <2>7
<1>8. CASE Crash
  <2>1. QuietUnlessUp'
    BY <1>8 DEF TypeOK, QuietUnlessUp, Crash, disk
  <2>2. LoadProgress'
    BY <1>8 DEF TypeOK, LoadProgress, Crash, disk
  <2>3. MarksWereHanded'
    BY <1>8 DEF TypeOK, MarksWereHanded, Crash, disk
  <2>4. DiskCoversQueue'
    BY <1>8 DEF TypeOK, DiskCoversQueue, InFlight, OldPending, Crash, disk
  <2>5. NoOrphans'
    BY <1>8 DEF TypeOK, NoOrphans, InFlight, Crash, disk
  <2>6. QueueTimesAgree'
    BY <1>8 DEF TypeOK, QueueTimesAgree, Crash, disk
  <2>7. NoMailLost'
    BY <1>8 DEF TypeOK, NoMailLost, Recoverable, DiskCoversQueue, InFlight, OldPending,
      Crash, disk
  <2> QED
    BY <1>0, <2>1, <2>2, <2>3, <2>4, <2>5, <2>6, <2>7
<1>9. CASE LoadScan
  <2>1. QuietUnlessUp'
    BY <1>9 DEF TypeOK, QuietUnlessUp, LoadScan, disk, ghost
  <2>2. LoadProgress'
    BY <1>9, MessageStoreAssumption DEF TypeOK, LoadProgress, LoadScan, disk, ghost
  <2>3. DiskCoversQueue'
    BY <1>9 DEF TypeOK, DiskCoversQueue, InFlight, OldPending, LoadScan, disk, ghost
  <2>4. NoOrphans'
    BY <1>9 DEF TypeOK, NoOrphans, InFlight, LoadScan, disk, ghost
  <2>5. QueueTimesAgree'
    BY <1>9 DEF TypeOK, QueueTimesAgree, LoadScan, disk, ghost
  <2>6. NoMailLost'
    BY <1>9 DEF TypeOK, NoMailLost, Recoverable, OldPending, LoadScan, disk, ghost
  <2>7. MarksWereHanded'
    BY <1>9 DEF MarksWereHanded, LoadScan, disk, ghost
  <2> QED
    BY <1>0, <2>1, <2>2, <2>3, <2>4, <2>5, <2>6, <2>7
<1>10. ASSUME NEW h \in Hashes, LoadRewrite(h) PROVE IInv'
  <2>1. QuietUnlessUp'
    BY <1>10 DEF TypeOK, QuietUnlessUp, LoadRewrite
  <2>2. LoadProgress'
    BY <1>10 DEF TypeOK, LoadProgress, Persisted, LoadRewrite
  <2>3. DiskCoversQueue'
    BY <1>10 DEF TypeOK, DiskCoversQueue, InFlight, OldPending, Persisted, LoadRewrite
  <2>4. NoOrphans'
    BY <1>10 DEF TypeOK, NoOrphans, InFlight, LoadRewrite
  <2>5. QueueTimesAgree'
    BY <1>10 DEF TypeOK, QueueTimesAgree, Persisted, Copies, LoadProgress, LoadRewrite
  <2>6. NoMailLost'
    BY <1>10 DEF TypeOK, NoMailLost, Recoverable, Persisted, OldPending, LoadRewrite
  <2>7. MarksWereHanded'
    BY <1>10 DEF MarksWereHanded, LoadRewrite
  <2> QED
    BY <1>0, <2>1, <2>2, <2>3, <2>4, <2>5, <2>6, <2>7
<1>11. CASE LoadPurge
  <2>1. QuietUnlessUp'
    BY <1>11 DEF TypeOK, QuietUnlessUp, LoadPurge, mem, ghost
  <2>2. LoadProgress'
    BY <1>11, MessageStoreAssumption DEF TypeOK, LoadProgress, LoadPurge, mem, ghost
  <2>3. DiskCoversQueue'
    BY <1>11 DEF TypeOK, DiskCoversQueue, InFlight, OldPending, LoadProgress, LoadPurge,
      mem, ghost
  <2>4. NoOrphans'
    BY <1>11 DEF TypeOK, NoOrphans, InFlight, LoadPurge, mem, ghost
  <2>5. QueueTimesAgree'
    BY <1>11 DEF TypeOK, QueueTimesAgree, LoadPurge, mem, ghost
  <2>6. NoMailLost'
    BY <1>11 DEF TypeOK, NoMailLost, Recoverable, LoadProgress, OldPending, LoadPurge, mem,
      ghost
  <2>7. MarksWereHanded'
    BY <1>11 DEF MarksWereHanded, LoadPurge, mem, ghost
  <2> QED
    BY <1>0, <2>1, <2>2, <2>3, <2>4, <2>5, <2>6, <2>7
<1>12. CASE LoadFetched
  <2>1. QuietUnlessUp'
    BY <1>12 DEF TypeOK, QuietUnlessUp, LoadFetched, ghost
  <2>2. LoadProgress'
    BY <1>12 DEF TypeOK, LoadProgress, LoadFetched, ghost
  <2>3. MarksWereHanded'
    BY <1>12 DEF TypeOK, MarksWereHanded, LoadFetched, ghost
  <2>4. NoOrphans'
    BY <1>12 DEF TypeOK, NoOrphans, InFlight, LoadProgress, QuietUnlessUp, Fault,
      LoadFetched, ghost
  <2>5. QueueTimesAgree'
    BY <1>12 DEF TypeOK, QueueTimesAgree, LoadFetched, ghost
  <2>6. NoMailLost'
    BY <1>12 DEF TypeOK, NoMailLost, Recoverable, LoadProgress, OldPending, LoadFetched,
      ghost
  <2>7. DiskCoversQueue'
    BY Zenon, <1>12 DEF DiskCoversQueue, InFlight, OldPending, LoadFetched, ghost
  <2> QED
    BY <1>0, <2>1, <2>2, <2>3, <2>4, <2>5, <2>6, <2>7
<1>13. CASE Tick
  <2>1. QueueTimesAgree'
    BY <1>13 DEF TypeOK, QueueTimesAgree, Tick, load, ghost
  <2>2. QuietUnlessUp' /\ LoadProgress' /\ MarksWereHanded' /\ DiskCoversQueue' /\ NoOrphans' /\ NoMailLost'
    BY <1>13 DEF QuietUnlessUp, LoadProgress, MarksWereHanded, DiskCoversQueue, InFlight,
      OldPending, NoOrphans, NoMailLost, Recoverable, Tick, load, ghost
  <2> QED
    BY <1>0, <2>1, <2>2
<1>14. CASE UNCHANGED vars
  <2>1. QuietUnlessUp' /\ LoadProgress' /\ MarksWereHanded' /\ DiskCoversQueue' /\ NoOrphans' /\ QueueTimesAgree' /\ NoMailLost'
    BY <1>14 DEF QuietUnlessUp, LoadProgress, MarksWereHanded, DiskCoversQueue, InFlight,
      OldPending, NoOrphans, QueueTimesAgree, NoMailLost, Recoverable, vars, mem, disk, load,
      ghost
  <2> QED
    BY <1>0, <2>1
<1> QED
  BY <1>1, <1>2, <1>3, <1>4, <1>5, <1>6, <1>7, <1>8, <1>9, <1>10, <1>11, <1>12, <1>13, <1>14
  DEF StepCases

\* A store before it is opened satisfies the inductive invariant.
LEMMA IInvInit == Init => IInv
<1> SUFFICES ASSUME Init PROVE IInv
  OBVIOUS
<1>1. TypeOK
  BY TypeInit
<1>2. QuietUnlessUp /\ LoadProgress /\ MarksWereHanded
  BY DEF Init, QuietUnlessUp, LoadProgress, MarksWereHanded
<1>3. DiskCoversQueue /\ NoOrphans /\ QueueTimesAgree /\ NoMailLost
  BY DEF Init, DiskCoversQueue, NoOrphans, QueueTimesAgree, NoMailLost, Recoverable
<1> QED
  BY <1>1, <1>2, <1>3 DEF IInv

\* The inductive invariant holds in every behaviour.
THEOREM Invariance == Spec => []IInv
<1>1. IInv /\ [Next]_vars => IInv'
  BY NextCases, IInvStep DEF IInv
<1> QED
  BY IInvInit, <1>1, PTL DEF Spec

-----------------------------------------------------------------------------
(* What follows from it.                                                   *)

\* Every queued copy is on disk with its queue time, but for a failed write or a
\* write-back that is still to come, whatever MarkFetched, Store and any number of
\* late deletes do in between; and a datastore that never fails a write keeps
\* nothing for a copy that has left the queue.
THEOREM DiskMatchesQueueHolds == Spec => []DiskMatchesQueue
<1>1. IInv => DiskMatchesQueue
  BY DEF IInv, DiskMatchesQueue
<1> QED
  BY <1>1, Invariance, PTL

\* Mail that a sender was told is stored survives every crash, those inside
\* load and inside an upgrade included, unless its write failed or the crash
\* came between a late delete and its write-back.
THEOREM NoMailLostHolds == Spec => []NoMailLost
  BY Invariance, PTL DEF IInv

\* An ACK deletes only copies that were handed to their recipient.
THEOREM AckSparesUncollectedHolds == Spec => AckSparesUncollected
<1>1. IInv /\ [Next]_vars =>
        [\A w \in Workers, h \in Hashes : Ack(w, h) => queued \ queued' \subseteq handed]_vars
  BY DEF IInv, MarksWereHanded, Ack, Unindex
<1> QED
  BY Invariance, <1>1, PTL DEF Spec, AckSparesUncollected

\* Loading never makes an entry on disk younger, old-format keys that could not
\* be deleted last time included.
THEOREM LoadKeepsQueueTimeHolds == Spec => LoadKeepsQueueTime
<1> DEFINE Keeps == phase # "up" => \A c \in diskEnv \cap diskEnv' : diskAge'[c] >= diskAge[c]
<1>1. ASSUME IInv, [Next]_vars PROVE Keeps
  <2>1. SUFFICES ASSUME phase # "up", NEW d \in diskEnv, d \in diskEnv'
                 PROVE  diskAge'[d] >= diskAge[d]
    OBVIOUS
  <2>2. StepCases
    BY <1>1, NextCases DEF IInv
  <2>3. d \in Copies /\ diskAge[d] \in Ages /\ diskAge[d] >= diskAge[d]
    BY <1>1, <2>1, MessageStoreAssumption DEF IInv, TypeOK, Ages, AgeCap
  <2>4. ASSUME NEW p \in Procs PROVE pc[p] = "idle"
    BY <1>1, <2>1 DEF IInv, QuietUnlessUp
  <2>5. ASSUME NEW h \in Hashes, LoadRewrite(h) PROVE diskAge'[d] = diskAge[d]
    BY <1>1, <2>1, <2>3, <2>5 DEF IInv, TypeOK, LoadProgress, LoadRewrite, Persisted
  <2>6. CASE Tick
    BY <2>1, <2>3, <2>6, OlderType DEF Tick
  <2>7. CASE Crash \/ LoadScan \/ LoadPurge \/ LoadFetched \/ UNCHANGED vars
    BY <2>3, <2>7 DEF Crash, LoadScan, LoadPurge, LoadFetched, vars, disk
  <2>8. ASSUME NEW p \in Procs PROVE ~MarkFetched(p) /\ ~FetchFailed(p) /\ ~DeleteKeys(p) /\ ~WriteBack(p)
    BY <2>4, <2>8 DEF MarkFetched, FetchFailed, DeleteKeys, WriteBack
  <2>9. /\ \A c \in Copies : ~Store(c)
        /\ \A p \in Procs, a \in Addrs : ~Fetch(p, a)
        /\ \A p \in Procs, cs \in SUBSET Copies : ~Unindex(p, cs)
    BY <2>1 DEF Store, Fetch, Unindex
  <2> QED
    BY <2>2, <2>3, <2>5, <2>6, <2>7, <2>8, <2>9 DEF StepCases
<1>2. IInv /\ [Next]_vars => [Keeps]_vars
  BY <1>1
<1> QED
  BY Invariance, <1>2, PTL DEF Spec, LoadKeepsQueueTime

=============================================================================
