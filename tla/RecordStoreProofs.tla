-------------------------- MODULE RecordStoreProofs --------------------------
(***************************************************************************)
(* Proofs about RecordStore.  NotTakenWithoutRoot is inductive together    *)
(* with the types: the tombstones of the root can only grow, because a     *)
(* removal covers the one before it and does not displace the root's, and  *)
(* a DAR carries the timeline of the one before it.                        *)
(***************************************************************************)
EXTENDS RecordStore, TLAPS

IInv == TypeOK /\ NotTakenWithoutRoot

\* The slots a handler of each kind has read are the five kinds and "again".
LEMMA ReadsType ==
    ASSUME NEW k \in Kinds
    PROVE  /\ Len(Reads(k)) \in Nat
           /\ \A i \in 1..Len(Reads(k)) : Reads(k)[i] \in Slots
BY DEF Kinds, Reads, Slots

\* When the decision is grounded, what was read is what the store holds.
LEMMA GroundedSaw ==
    ASSUME NEW p \in Procs, job[p] # None, Grounded(p)
    PROVE  /\ job[p].kind = "identity" =>
                /\ job[p].saw["dar"] = held["dar"] /\ job[p].saw["block"] = held["block"]
                /\ job[p].saw["identity"] = held["identity"]
                /\ job[p].saw["removal"] = held["removal"]
                /\ job[p].saw["again"] = held["identity"]
           /\ job[p].kind = "dar" =>
                job[p].saw["dar"] = held["dar"] /\ job[p].saw["again"] = held["dar"]
           /\ job[p].kind = "removal" =>
                /\ job[p].saw["dar"] = held["dar"]
                /\ job[p].saw["identity"] = held["identity"]
                /\ job[p].saw["removal"] = held["removal"]
           /\ job[p].kind = "block" =>
                job[p].saw["dar"] = held["dar"] /\ job[p].saw["block"] = held["block"]
           /\ job[p].kind = "history" =>
                /\ job[p].saw["dar"] = held["dar"]
                /\ job[p].saw["identity"] = held["identity"]
                /\ job[p].saw["history"] = held["history"]
<1>1. CASE job[p].kind = "identity"
  <2> DEFINE R == <<"dar", "block", "identity", "removal", "again">>
  <2>1. Reads(job[p].kind) = R
    BY <1>1 DEF Reads
  <2>2. \A i \in 1..5 : job[p].saw[R[i]] = held[Source(p, R[i])]
    BY <2>1 DEF Grounded
  <2> QED
    BY <2>2, <1>1 DEF Source
<1>2. CASE job[p].kind = "dar"
  <2> DEFINE R == <<"dar", "again">>
  <2>1. Reads(job[p].kind) = R
    BY <1>2 DEF Reads
  <2>2. \A i \in 1..2 : job[p].saw[R[i]] = held[Source(p, R[i])]
    BY <2>1 DEF Grounded
  <2> QED
    BY <2>2, <1>2 DEF Source
<1>3. CASE job[p].kind = "removal"
  <2> DEFINE R == <<"dar", "identity", "removal">>
  <2>1. Reads(job[p].kind) = R
    BY <1>3 DEF Reads
  <2>2. \A i \in 1..3 : job[p].saw[R[i]] = held[Source(p, R[i])]
    BY <2>1 DEF Grounded
  <2> QED
    BY <2>2, <1>3 DEF Source
<1>4. CASE job[p].kind = "history"
  <2> DEFINE R == <<"dar", "identity", "history">>
  <2>1. Reads(job[p].kind) = R
    BY <1>4 DEF Reads
  <2>2. \A i \in 1..3 : job[p].saw[R[i]] = held[Source(p, R[i])]
    BY <2>1 DEF Grounded
  <2> QED
    BY <2>2, <1>4 DEF Source
<1>5. CASE job[p].kind = "block"
  <2> DEFINE R == <<"dar", "block">>
  <2>1. Reads(job[p].kind) = R
    BY <1>5 DEF Reads
  <2>2. \A i \in 1..2 : job[p].saw[R[i]] = held[Source(p, R[i])]
    BY <2>1 DEF Grounded
  <2> QED
    BY <2>2, <1>5 DEF Source
<1> QED
  BY <1>1, <1>2, <1>3, <1>4, <1>5

-----------------------------------------------------------------------------

\* What one push may look like; the part of TypeOK that is about a handler.
JobOk(j) ==
    /\ DOMAIN j = {"kind", "rec", "done", "saw"}
    /\ j.kind \in Kinds
    /\ j.rec \in Records(j.kind)
    /\ j.done \in 0..Len(Reads(j.kind))
    /\ DOMAIN j.saw = Slots
    /\ \A k \in Kinds : j.saw[k] \in Records(k) \cup {None}
    /\ j.saw["again"] \in Records(j.kind) \cup {None}

\* TypeOK, with what it says of a handler folded into JobOk.
LEMMA TypeOKJobs ==
    TypeOK <=>
        /\ DOMAIN held = Kinds
        /\ \A k \in Kinds : held[k] \in Records(k) \cup {None}
        /\ DOMAIN job = Procs
        /\ \A p \in Procs : job[p] # None => JobOk(job[p])
        /\ pushes \in 0..MaxPushes /\ faults \in 0..MaxFaults
        /\ raced \in BOOLEAN
BY DEF TypeOK, JobOk

\* Saw keeps the type of a handler, for a value that fits the slot.
LEMMA SawType ==
    ASSUME TypeOK, NEW p \in Procs, NEW v, Saw(p, v),
           v \in Records(Source(p, Slot(p))) \cup {None}
    PROVE  /\ DOMAIN job' = Procs
           /\ \A q \in Procs : job'[q] # None => JobOk(job'[q])
<1> DEFINE j == job[p]
           s == Slot(p)
           n == [j EXCEPT !.done = @ + 1, !.saw[s] = v]
<1>1. j # None /\ JobOk(j) /\ j.done # Len(Reads(j.kind))
  BY TypeOKJobs DEF Saw, ReadAll
<1>2. s \in Slots /\ j.done + 1 \in 0..Len(Reads(j.kind))
  BY <1>1, ReadsType DEF JobOk, Slot
<1>3. DOMAIN job' = Procs /\ job'[p] = n /\ \A q \in Procs \ {p} : job'[q] = job[q]
  BY TypeOKJobs DEF Saw
<1>4. /\ DOMAIN n = {"kind", "rec", "done", "saw"}
      /\ n.kind = j.kind /\ n.rec = j.rec /\ n.done = j.done + 1
      /\ n.saw = [j.saw EXCEPT ![s] = v]
  BY <1>1 DEF JobOk
<1>5. /\ DOMAIN n.saw = Slots
      /\ n.saw[s] = v
      /\ \A t \in Slots \ {s} : n.saw[t] = j.saw[t]
  BY <1>1, <1>2, <1>4 DEF JobOk
<1>6. s # "again" => v \in Records(s) \cup {None}
  BY DEF Source
<1>7. s = "again" => v \in Records(j.kind) \cup {None}
  BY DEF Source
<1>8. "again" \notin Kinds /\ "again" \in Slots /\ Kinds \subseteq Slots
  BY DEF Slots, Kinds
<1>9. \A k \in Kinds : n.saw[k] \in Records(k) \cup {None}
  BY <1>1, <1>5, <1>6, <1>8 DEF JobOk
<1>10. n.saw["again"] \in Records(n.kind) \cup {None}
  BY <1>1, <1>4, <1>5, <1>7, <1>8 DEF JobOk
<1>11. JobOk(n)
  BY <1>1, <1>2, <1>4, <1>5, <1>9, <1>10 DEF JobOk
<1> QED
  BY <1>3, <1>11, TypeOKJobs

\* The sources a handler reads are kinds of records.
LEMMA SourceKind ==
    ASSUME TypeOK, NEW p \in Procs, job[p] # None, ~ReadAll(p)
    PROVE  Source(p, Slot(p)) \in Kinds
<1>1. JobOk(job[p])
  BY TypeOKJobs
<1>2. Slot(p) \in Slots
  BY <1>1, ReadsType DEF JobOk, Slot, ReadAll
<1> QED
  BY <1>1, <1>2 DEF JobOk, Source, Slots

\* Every step of a handler keeps the types.
LEMMA TypeStep ==
    ASSUME TypeOK, [Next]_vars
    PROVE  TypeOK'
<1> SUFFICES /\ DOMAIN held' = Kinds
             /\ \A k \in Kinds : held'[k] \in Records(k) \cup {None}
             /\ DOMAIN job' = Procs
             /\ \A p \in Procs : job'[p] # None => JobOk(job'[p])
             /\ pushes' \in 0..MaxPushes /\ faults' \in 0..MaxFaults
             /\ raced' \in BOOLEAN
  BY DEF TypeOK, JobOk
<1> USE TypeOKJobs, RecordStoreAssumption
<1>1. ASSUME NEW p \in Procs, NEW k \in Kinds, NEW r \in Records(k), Push(p, k, r)
      PROVE  /\ DOMAIN job' = Procs /\ \A q \in Procs : job'[q] # None => JobOk(job'[q])
             /\ pushes' \in 0..MaxPushes
  <2> DEFINE n == [kind |-> k, rec |-> r, done |-> 0, saw |-> Nothing]
  <2>1. JobOk(n)
    BY ReadsType DEF JobOk, Nothing, Slots
  <2>2. DOMAIN job' = Procs /\ job'[p] = n /\ \A q \in Procs \ {p} : job'[q] = job[q]
    BY <1>1 DEF Push
  <2> QED
    BY <1>1, <2>1, <2>2 DEF Push
<1>2. ASSUME NEW p \in Procs, Read(p)
      PROVE  DOMAIN job' = Procs /\ \A q \in Procs : job'[q] # None => JobOk(job'[q])
  BY <1>2, SawType, SourceKind DEF Read
<1>3. ASSUME NEW p \in Procs, ReadFails(p)
      PROVE  /\ DOMAIN job' = Procs /\ \A q \in Procs : job'[q] # None => JobOk(job'[q])
             /\ faults' \in 0..MaxFaults
  BY <1>3, SawType DEF ReadFails
<1>4. ASSUME NEW p \in Procs, Finish(p)
      PROVE  DOMAIN job' = Procs /\ \A q \in Procs : job'[q] # None => JobOk(job'[q])
  BY <1>4 DEF Finish
<1>5. ASSUME NEW p \in Procs, Put(p)
      PROVE  /\ DOMAIN held' = Kinds
             /\ \A k \in Kinds : held'[k] \in Records(k) \cup {None}
             /\ raced' \in BOOLEAN
  <2>1. JobOk(job[p])
    BY <1>5 DEF Put, ReadAll
  <2>2. DOMAIN held' = Kinds /\ \A k \in Kinds : held'[k] \in Records(k) \cup {None}
    BY <1>5, <2>1 DEF Put, JobOk
  <2>3. raced' \in BOOLEAN
    BY <1>5 DEF Put
  <2> QED
    BY <2>2, <2>3
<1>6. CASE UNCHANGED vars
  BY <1>6 DEF vars, ghost
<1>7. ASSUME NEW p \in Procs,
             \/ \E k \in Kinds : \E r \in Records(k) : Push(p, k, r)
             \/ Read(p) \/ ReadFails(p) \/ Put(p) \/ Refuse(p)
      PROVE  /\ DOMAIN held' = Kinds
             /\ \A k \in Kinds : held'[k] \in Records(k) \cup {None}
             /\ DOMAIN job' = Procs
             /\ \A q \in Procs : job'[q] # None => JobOk(job'[q])
             /\ pushes' \in 0..MaxPushes /\ faults' \in 0..MaxFaults
             /\ raced' \in BOOLEAN
  <2>1. CASE \E k \in Kinds : \E r \in Records(k) : Push(p, k, r)
    BY Zenon, <2>1, <1>1 DEF Push, ghost
  <2>2. CASE Read(p)
    BY <2>2, <1>2 DEF Read, ghost
  <2>3. CASE ReadFails(p)
    BY <2>3, <1>3 DEF ReadFails, ghost
  <2>4. CASE Put(p)
    BY Zenon, <2>4, <1>4, <1>5 DEF Put, Finish
  <2>5. CASE Refuse(p)
    BY <2>5, <1>4 DEF Refuse, Finish, ghost
  <2> QED
    BY <1>7, <2>1, <2>2, <2>3, <2>4, <2>5
<1>8. ASSUME NEW d \in Bundled \cup {None}, Restart(d)
      PROVE  /\ DOMAIN held' = Kinds
             /\ \A k \in Kinds : held'[k] \in Records(k) \cup {None}
             /\ DOMAIN job' = Procs
             /\ \A q \in Procs : job'[q] # None => JobOk(job'[q])
             /\ pushes' \in 0..MaxPushes /\ faults' \in 0..MaxFaults
             /\ raced' \in BOOLEAN
  <2>1. DOMAIN held' = Kinds /\ \A k \in Kinds : held'[k] \in Records(k) \cup {None}
    BY <1>8 DEF Restart, Records, Kinds
  <2>2. DOMAIN job' = Procs /\ \A q \in Procs : job'[q] # None => JobOk(job'[q])
    BY <1>8 DEF Restart
  <2>3. pushes' \in 0..MaxPushes /\ faults' \in 0..MaxFaults
    BY <1>8 DEF Restart
  <2>4. raced' \in BOOLEAN
    BY <1>8 DEF Restart
  <2> QED
    BY <2>1, <2>2, <2>3, <2>4
<1> QED
  BY <1>6, <1>7, <1>8 DEF Next

-----------------------------------------------------------------------------

\* A write that is grounded was admitted against what the store holds.
LEMMA PutAdmitted ==
    ASSUME TypeOK, NEW p \in Procs, Put(p), Grounded(p)
    PROVE  LET r == job[p].rec IN
           /\ job[p].kind \in Kinds /\ r \in Records(job[p].kind)
           /\ held' = [held EXCEPT ![job[p].kind] = r]
           /\ job[p].kind = "identity" =>
                /\ RebindOk(r, held["removal"], held["dar"], held["identity"])
                /\ NewerIdentity(r, held["identity"])
           /\ job[p].kind = "dar" /\ held["dar"] # None =>
                /\ held["dar"].root \in Roots(r)
                /\ r.rev > held["dar"].rev \/ r = held["dar"]
           /\ job[p].kind = "removal" /\ held["removal"] # None =>
                /\ RootSigned(held["dar"], held["removal"]) => RootSigned(held["dar"], r)
                /\ r.rev >= held["removal"].rev
                /\ held["removal"].keys \subseteq r.keys
           /\ job[p].kind = "block" /\ RootSigned(held["dar"], held["block"]) =>
                r.rev >= held["block"].rev
           /\ job[p].kind = "history" =>
                /\ held["history"] \notin {None, <<>>} => Extends(r, held["history"])
                /\ r # <<>> => Last(r).to = held["identity"].key
<1> DEFINE r == job[p].rec
           saw == job[p].saw
<1>1. job[p] # None /\ Admits(job[p].kind, r, saw) /\ held' = [held EXCEPT ![job[p].kind] = r]
  BY DEF Put, ReadAll
<1>2. JobOk(job[p])
  BY <1>1, TypeOKJobs
<1>3. CASE job[p].kind = "identity"
  <2>1. IdentityOk(r, saw)
    BY <1>1, <1>3 DEF Admits
  <2> QED
    BY <1>1, <1>2, <1>3, <2>1, GroundedSaw DEF IdentityOk, JobOk
<1>4. CASE job[p].kind = "dar"
  <2>1. DarOk(r, saw) /\ saw["dar"] = held["dar"] /\ saw["again"] = held["dar"]
    BY <1>1, <1>4, GroundedSaw DEF Admits
  <2> QED
    BY <1>1, <1>2, <1>4, <2>1 DEF DarOk, JobOk
<1>5. CASE job[p].kind = "removal"
  <2>1. RemovalOk(r, saw)
    BY <1>1, <1>5 DEF Admits
  <2> QED
    BY <1>1, <1>2, <1>5, <2>1, GroundedSaw DEF RemovalOk, JobOk
<1>6. CASE job[p].kind = "history"
  <2>1. HistoryOk(r, saw)
    BY <1>1, <1>6 DEF Admits
  <2> QED
    BY <1>1, <1>2, <1>6, <2>1, GroundedSaw DEF HistoryOk, JobOk
<1>7. CASE job[p].kind = "block"
  <2>1. BlockOk(r, saw)
    BY <1>1, <1>7 DEF Admits
  <2> QED
    BY <1>1, <1>2, <1>7, <2>1, GroundedSaw DEF BlockOk, JobOk
<1> QED
  BY Zenon, <1>1, <1>2, <1>3, <1>4, <1>5, <1>6, <1>7 DEF JobOk

\* A key that an admitted identity takes the address from is tombstoned.
LEMMA TakenTombstoned ==
    ASSUME NEW r, RebindOk(r, held["removal"], held["dar"], held["identity"])
    PROVE  TakenBy(r) \subseteq Tombstoned
<1> SUFFICES ASSUME held["identity"] # None, held["dar"] # None,
                    held["identity"].key # r.key,
                    ~SignedAway(held["identity"].key, r)
             PROVE  held["identity"].key \in Tombstoned
  BY DEF TakenBy
<1>1. ~(r.chain # <<>> /\ Rotates(r, held["removal"], held["dar"], held["identity"]))
  BY DEF Rotates, ChainOk, SignedAway
<1>2. Frees(held["removal"], held["dar"], held["identity"])
  BY <1>1 DEF RebindOk
<1> QED
  BY <1>2 DEF Frees, Tombstoned

\* The root's tombstones only grow, as long as writes are grounded.
LEMMA TombstonesKept ==
    ASSUME TypeOK, NEW p \in Procs, Put(p), Grounded(p)
    PROVE  Tombstoned \subseteq Tombstoned'
<1> DEFINE r == job[p].rec
<1>a. /\ r \in Records(job[p].kind)
      /\ held' = [held EXCEPT ![job[p].kind] = r]
  BY PutAdmitted
<1>b. job[p].kind = "dar" /\ held["dar"] # None => held["dar"].root \in Roots(r)
  BY PutAdmitted
<1>c. job[p].kind = "removal" /\ held["removal"] # None =>
        /\ RootSigned(held["dar"], held["removal"]) => RootSigned(held["dar"], r)
        /\ held["removal"].keys \subseteq r.keys
  BY PutAdmitted
<1>d. DOMAIN held = {"identity", "dar", "removal", "block", "history"}
  BY DEF TypeOK, Kinds
<1>e. held["dar"] \in Dars \cup {None}
  BY DEF TypeOK, Kinds, Records
<1> HIDE DEF r
<1>1. CASE job[p].kind = "dar"
  <2>1. held'["dar"] = r /\ held'["removal"] = held["removal"]
    BY <1>a, <1>d, <1>1
  <2>2. r \in Dars
    BY <1>a, <1>1 DEF Records
  <2>3. CASE held["dar"] = None
    <3>1. Roots(held["dar"]) = {}
      BY <2>3 DEF Roots
    <3> QED
      BY <2>1, <3>1 DEF Tombstoned, RootSigned
  <2>4. CASE held["dar"] # None
    <3>1. held["dar"] \in Dars /\ held["dar"].root \in Roots(r)
      BY <1>b, <1>e, <1>1, <2>4
    <3>2. Roots(held["dar"]) \subseteq Roots(r)
      BY <2>2, <3>1, DarTimelines
    <3> QED
      BY <2>1, <3>2 DEF Tombstoned, RootSigned
  <2> QED
    BY <2>3, <2>4
<1>2. CASE job[p].kind = "removal"
  <2>1. held'["removal"] = r /\ held'["dar"] = held["dar"]
    BY <1>a, <1>d, <1>2
  <2>2. CASE RootSigned(held["dar"], held["removal"])
    <3>1. held["removal"] # None
      BY <2>2 DEF RootSigned
    <3>2. RootSigned(held["dar"], r) /\ held["removal"].keys \subseteq r.keys
      BY <1>c, <1>2, <2>2, <3>1
    <3> QED
      BY <2>1, <2>2, <3>2 DEF Tombstoned
  <2>3. CASE ~RootSigned(held["dar"], held["removal"])
    BY <2>3 DEF Tombstoned
  <2> QED
    BY <2>2, <2>3
<1>3. CASE job[p].kind \notin {"dar", "removal"}
  <2>1. held'["removal"] = held["removal"] /\ held'["dar"] = held["dar"]
    BY <1>a, <1>d, <1>3
  <2> QED
    BY <2>1 DEF Tombstoned
<1> QED
  BY <1>1, <1>2, <1>3

\* A store that the node may start with satisfies the inductive invariant.
LEMMA IInvInit == Init => IInv
<1> SUFFICES ASSUME Init PROVE IInv
  OBVIOUS
<1>1. TypeOK
  <2>1. DOMAIN held = Kinds /\ \A k \in Kinds : held[k] \in Records(k) \cup {None}
    BY RecordStoreAssumption DEF Init
  <2>2. DOMAIN job = Procs /\ \A p \in Procs : job[p] # None => JobOk(job[p])
    BY DEF Init
  <2>3. pushes \in 0..MaxPushes /\ faults \in 0..MaxFaults
    BY RecordStoreAssumption DEF Init
  <2>4. raced \in BOOLEAN
    BY Zenon DEF Init
  <2> QED
    BY <2>1, <2>2, <2>3, <2>4, TypeOKJobs
<1> QED
  BY <1>1 DEF Init, IInv, NotTakenWithoutRoot

\* Every step of a handler, and a restart, preserve the inductive invariant.
LEMMA IInvStep ==
    ASSUME IInv, [Next]_vars
    PROVE  IInv'
<1>1. TypeOK'
  BY TypeStep DEF IInv
<1>2. ASSUME NEW p \in Procs, Put(p), ~raced' PROVE lost' \subseteq Tombstoned'
  <2>1. ~raced /\ Grounded(p)
    BY Zenon, <1>2 DEF Put
  <2>2. lost \subseteq Tombstoned /\ Tombstoned \subseteq Tombstoned'
    BY <1>2, <2>1, TombstonesKept DEF IInv, NotTakenWithoutRoot
  <2>3. CASE job[p].kind = "identity"
    <3>1. TakenBy(job[p].rec) \subseteq Tombstoned
      BY <1>2, <2>1, <2>3, PutAdmitted, TakenTombstoned DEF IInv
    <3> QED
      BY <1>2, <2>2, <2>3, <3>1 DEF Put
  <2>4. CASE job[p].kind # "identity"
    BY <1>2, <2>2, <2>4 DEF Put
  <2> QED
    BY <2>3, <2>4
<1>3. ASSUME UNCHANGED <<held, ghost>> PROVE NotTakenWithoutRoot'
  BY <1>3 DEF IInv, NotTakenWithoutRoot, Tombstoned, ghost
<1>4. NotTakenWithoutRoot'
  <2>1. ASSUME NEW p \in Procs, Put(p) PROVE NotTakenWithoutRoot'
    BY <2>1, <1>2 DEF NotTakenWithoutRoot
  <2>2. ASSUME NEW d \in Bundled \cup {None}, Restart(d) PROVE NotTakenWithoutRoot'
    <3> SUFFICES ASSUME ~raced' PROVE lost' \subseteq Tombstoned'
      BY DEF NotTakenWithoutRoot
    <3>1. ~raced /\ held["dar"] \in {None, held'["dar"]} /\ lost' = lost
      BY Zenon, <2>2 DEF Restart
    <3>2. held'["removal"] = held["removal"]
      BY <2>2 DEF Restart, IInv, TypeOK, Kinds
    <3>3. Tombstoned \subseteq Tombstoned'
      BY <3>1, <3>2 DEF Tombstoned, RootSigned, Roots
    <3> QED
      BY <3>1, <3>3 DEF IInv, NotTakenWithoutRoot
  <2> QED
    BY <2>1, <2>2, <1>3 DEF Next, vars, ghost, Push, Read, ReadFails, Refuse
<1> QED
  BY <1>1, <1>4 DEF IInv

-----------------------------------------------------------------------------

\* The inductive invariant holds in every behaviour of the record store.
THEOREM Invariance == Spec => []IInv
BY IInvInit, IInvStep, PTL DEF Spec

\* The store and the handlers of AcceptRecord keep their types.
THEOREM TypeCorrect == Spec => []TypeOK
<1>1. IInv => TypeOK
  BY DEF IInv
<1> QED
  BY <1>1, Invariance, PTL

\* Without a race, a key loses an address under its domain's authority only by its
\* own signature or by the root's tombstone, which stays.
THEOREM NotTakenWithoutRootHolds == Spec => []NotTakenWithoutRoot
<1>1. IInv => NotTakenWithoutRoot
  BY DEF IInv
<1> QED
  BY <1>1, Invariance, PTL

\* A tombstoned key comes back only in the place of another tombstoned key.
THEOREM OffboardedStaysOutHolds == Spec => OffboardedStaysOut
<1> DEFINE A == \A p \in Procs : Put(p) /\ Grounded(p) /\ held["identity"] # None =>
                    LET old == held["identity"].key
                        new == held'["identity"].key
                    IN  new # old /\ new \in Tombstoned => old \in Tombstoned
<1>1. ASSUME IInv, [Next]_vars PROVE [A]_vars
  <2> SUFFICES ASSUME NEW p \in Procs, Put(p), Grounded(p), held["identity"] # None,
                      held'["identity"].key # held["identity"].key,
                      held'["identity"].key \in Tombstoned
               PROVE  held["identity"].key \in Tombstoned
    OBVIOUS
  <2> DEFINE r == job[p].rec
             old == held["identity"]
  <2>1. job[p].kind = "identity" /\ held'["identity"] = r
    BY <1>1, PutAdmitted DEF IInv, TypeOK, Kinds
  <2>2. RebindOk(r, held["removal"], held["dar"], old)
    BY <1>1, <2>1, PutAdmitted DEF IInv
  <2>3. RootSigned(held["dar"], held["removal"]) /\ r.key \in held["removal"].keys
    BY <2>1 DEF Tombstoned
  <2>4. held["dar"] # None
    BY <2>3 DEF RootSigned, Roots
  <2>5. Frees(held["removal"], held["dar"], old)
    BY <2>1, <2>2, <2>3, <2>4 DEF RebindOk, Rotates
  <2> QED
    BY <2>5 DEF Frees, Tombstoned
<1> QED
  BY <1>1, Invariance, PTL DEF Spec, OffboardedStaysOut

\* A write that rests on what the store holds moves no record back.
THEOREM SuccessionHoldsHolds == Spec => SuccessionHolds
<1>1. ASSUME IInv, NEW p \in Procs, Put(p), Grounded(p)
      PROVE  Succeeds(p) /\ EndsInLiveKey(p)
  <2> DEFINE k == job[p].kind
             r == job[p].rec
  <2>1. k \in Kinds /\ r \in Records(k) /\ held'[k] = r
    BY <1>1, PutAdmitted DEF IInv, TypeOK
  <2>2. held[k] # None => held[k] \in Records(k)
    BY <2>1, <1>1 DEF IInv, TypeOK
  <2>3. CASE k = "identity"
    <3>1. NewerIdentity(r, held[k])
      BY <1>1, <2>3, PutAdmitted DEF IInv
    <3> QED
      BY <2>1, <2>2, <2>3, <3>1, RecordStoreAssumption DEF NewerIdentity, Succeeds, EndsInLiveKey,
         Records
  <2>4. CASE k = "dar"
    BY <1>1, <2>1, <2>4, PutAdmitted DEF IInv, Succeeds, EndsInLiveKey
  <2>5. CASE k = "removal"
    BY <1>1, <2>1, <2>5, PutAdmitted DEF IInv, Succeeds, EndsInLiveKey
  <2>6. CASE k = "block"
    BY <1>1, <2>1, <2>6, PutAdmitted DEF IInv, Succeeds, EndsInLiveKey
  <2>7. CASE k = "history"
    <3>1. /\ held[k] \notin {None, <<>>} => Extends(r, held[k])
          /\ r # <<>> => Last(r).to = held["identity"].key
      BY <1>1, <2>7, PutAdmitted DEF IInv
    <3>2. Len(r) \in Nat /\ (held[k] # None => Len(held[k]) \in Nat)
      BY <2>1, <2>2, <2>7, RecordStoreAssumption DEF Records
    <3>3. held[k] # None => Len(r) >= Len(held[k])
      BY <3>1, <3>2 DEF Extends
    <3> QED
      BY <2>1, <2>7, <3>1, <3>3 DEF Succeeds, EndsInLiveKey
  <2> QED
    BY <2>1, <2>3, <2>4, <2>5, <2>6, <2>7 DEF Kinds
<1>2. IInv /\ [Next]_vars =>
         [\A p \in Procs : Put(p) /\ Grounded(p) => Succeeds(p) /\ EndsInLiveKey(p)]_vars
  BY <1>1
<1> QED
  BY <1>2, Invariance, PTL DEF Spec, SuccessionHolds
=============================================================================
