--------------------------- MODULE PersonalProofs ---------------------------
(***************************************************************************)
(* Theorems about PersonalKv and PersonalDevices, for every number of      *)
(* handlers, devices, keys, edits and attempts.                            *)
(*                                                                         *)
(* For the store: the mutex makes the version that a Put of a document     *)
(* read still the stored one when it writes, and the versions issued never *)
(* exceed the stored one.  For the devices: what a device read under the   *)
(* version that is still stored is what is stored, because a version is    *)
(* never issued twice.                                                     *)
(***************************************************************************)
EXTENDS PersonalDevices, TLAPS

\* What holds of Puts in progress: there is one, there is room for its version,
\* and on a document nothing changed since it compared.
PutsAlone ==
    /\ \A p, q \in Procs : put[p] # None /\ put[q] # None => p = q
    /\ \A p \in Procs : put[p] # None =>
          /\ put[p].cur < MaxVersion
          /\ put[p].key \in Docs => put[p].cur = Version(put[p].key)
          /\ put[p].expect # 0 => put[p].expect = put[p].cur

IssuedBelow == \A k \in Docs : \A n \in issued[k] : n =< Version(k)

KInv == TypeOK /\ PutsAlone /\ IssuedBelow

\* The version of a key is a number within the bound, 0 exactly if it is absent.
LEMMA VersionType ==
  ASSUME TypeOK, NEW k \in Keys
  PROVE  /\ Version(k) \in 0..MaxVersion
         /\ Version(k) = 0 <=> rec[k] = None
BY PersonalKvAssumption DEF TypeOK, Version, Versions

\* A store with the documents of earlier sessions satisfies the invariant.
LEMMA KInvInit == Init => KInv
<1> SUFFICES ASSUME Init PROVE KInv
  OBVIOUS
<1>1. TypeOK
  BY PersonalKvAssumption DEF Init, TypeOK, Versions
<1>2. PutsAlone
  BY DEF Init, PutsAlone
<1>3. IssuedBelow
  <2> SUFFICES ASSUME NEW k \in Docs, NEW n \in issued[k] PROVE n =< Version(k)
    BY DEF IssuedBelow
  <2> QED
    BY DEF Init, Keys
<1> QED
  BY <1>1, <1>2, <1>3 DEF KInv

\* Every operation of the store preserves it.
LEMMA KInvStep == KInv /\ [Next]_kvars => KInv'
<1> SUFFICES ASSUME KInv, [Next]_kvars PROVE KInv'
  OBVIOUS
<1> USE DEF KInv
<1>1. ASSUME NEW p \in Procs, NEW k \in Keys, NEW v \in Vals, NEW e \in 0..MaxVersion,
             PutRead(p, k, v, e)
      PROVE  KInv'
  <2>1. Version(k) \in 0..MaxVersion
    BY VersionType
  <2>2. TypeOK'
    BY <1>1, <2>1 DEF TypeOK, PutRead
  <2>3. PutsAlone'
    BY <1>1, <2>1 DEF TypeOK, PutRead, PutsAlone, MutexFree, Version
  <2>4. IssuedBelow'
    BY <1>1 DEF PutRead, IssuedBelow, Version
  <2> QED
    BY <2>2, <2>3, <2>4
<1>2. ASSUME NEW p \in Procs, PutWrite(p) PROVE KInv'
  <2> DEFINE r == put[p]
  <2>1. /\ r \in [key : Keys, val : Vals, expect : 0..MaxVersion, cur : 0..MaxVersion]
        /\ r.cur + 1 \in Versions
    BY <1>2, PersonalKvAssumption DEF TypeOK, PutWrite, PutsAlone, Versions
  <2>2. TypeOK'
    BY <1>2, <2>1 DEF TypeOK, PutWrite
  <2>3. PutsAlone'
    BY <1>2, <2>1 DEF TypeOK, PutWrite, PutsAlone
  <2>4. IssuedBelow'
    <3> SUFFICES ASSUME NEW k \in Docs, NEW n \in issued'[k] PROVE n =< Version(k)'
      BY DEF IssuedBelow
    <3>0. k \in Keys
      BY DEF Keys
    <3>1. CASE k = r.key
      <4>1. (n \in Nat /\ n =< Version(k)) \/ n = r.cur + 1
        BY <1>2, <2>1, <3>1 DEF TypeOK, PutWrite, IssuedBelow, Versions
      <4>2. r.cur = Version(k)
        BY <1>2, <3>1 DEF PutWrite, PutsAlone
      <4>3. Version(k)' = r.cur + 1
        BY <1>2, <2>1, <3>1, <2>2, PersonalKvAssumption DEF TypeOK, PutWrite, Version
      <4> QED
        BY <4>1, <4>2, <4>3, <2>1
    <3>2. CASE k # r.key
      BY <1>2, <3>0, <3>2 DEF TypeOK, PutWrite, IssuedBelow, Version
    <3> QED
      BY <3>1, <3>2
  <2> QED
    BY <2>2, <2>3, <2>4
<1>3. ASSUME NEW p \in Procs, PutFailed(p) PROVE KInv'
  <2>1. TypeOK'
    BY <1>3 DEF TypeOK, PutFailed
  <2>2. PutsAlone' /\ IssuedBelow'
    BY <1>3 DEF TypeOK, PutFailed, PutsAlone, IssuedBelow, Version
  <2> QED
    BY <2>1, <2>2
<1>4. ASSUME NEW k \in Records, Delete(k) PROVE KInv'
  <2>1. k \notin Docs /\ k \in Keys
    BY PersonalKvAssumption DEF Keys
  <2>2. TypeOK'
    BY Zenon, <1>4 DEF TypeOK, Delete
  <2>3. \A d \in Docs : d \in Keys /\ Version(d)' = Version(d)
    BY <1>4, <2>1 DEF TypeOK, Delete, Version, Keys
  <2>4. PutsAlone' /\ IssuedBelow'
    BY <1>4, <2>3 DEF Delete, PutsAlone, IssuedBelow
  <2> QED
    BY <2>2, <2>4
<1>5. ASSUME Crash PROVE KInv'
  <2>1. TypeOK'
    BY <1>5 DEF TypeOK, Crash
  <2>2. PutsAlone' /\ IssuedBelow'
    BY <1>5 DEF Crash, PutsAlone, IssuedBelow, Version
  <2> QED
    BY <2>1, <2>2
<1>6. CASE UNCHANGED kvars
  BY <1>6 DEF kvars, TypeOK, PutsAlone, IssuedBelow, Version
<1>7. ASSUME NEW k \in Keys, NEW e \in 0..MaxVersion, PutConflict(k, e) PROVE KInv'
  BY <1>6, <1>7 DEF PutConflict
<1> QED
  BY <1>1, <1>2, <1>3, <1>4, <1>5, <1>6, <1>7 DEF Next

\* The store's invariant holds, whatever clients ask.
THEOREM StoreInvariance == Spec => []KInv
  BY KInvInit, KInvStep, PTL DEF Spec

\* The store's variables keep their types.
THEOREM TypeCorrect == Spec => []TypeOK
  BY StoreInvariance, PTL DEF KInv

\* A version of a document is never issued twice (Put's cur + 1 under the mutex).
THEOREM DocVersionsFreshHolds == Spec => []DocVersionsFresh
<1>1. KInv => DocVersionsFresh
  <2> SUFFICES ASSUME KInv, NEW p \in Procs, put[p] # None, put[p].key \in Docs
               PROVE  put[p].cur + 1 \notin issued[put[p].key]
    BY DEF DocVersionsFresh
  <2>1. put[p].key \in Keys /\ put[p].cur \in Nat
    BY PersonalKvAssumption DEF KInv, TypeOK
  <2>2. \A n \in issued[put[p].key] : n \in Nat /\ n =< put[p].cur
    BY <2>1 DEF KInv, TypeOK, PutsAlone, IssuedBelow, Versions
  <2> QED
    BY <2>1, <2>2
<1> QED
  BY <1>1, StoreInvariance, PTL

\* On the documents the store with its mutex implements the atomic one.
THEOREM DocsAreAtomicHolds == Spec => DocsAreAtomic
<1>1. Init => Atomic!Init
  BY DEF Init, Atomic!Init, Keys
<1>2. ASSUME KInv, [Next]_kvars
      PROVE  [Atomic!Next]_([k \in Docs |-> rec[k]])
  <2> USE <1>2 DEF KInv
  <2>1. ASSUME NEW p \in Procs, PutWrite(p), put[p].key \in Docs PROVE Atomic!Next
    <3> DEFINE r == put[p]
    <3>1. r \in [key : Keys, val : Vals, expect : 0..MaxVersion, cur : 0..MaxVersion]
      BY <2>1 DEF TypeOK, PutWrite
    <3>2. r.cur = IF rec[r.key] = None THEN 0 ELSE rec[r.key].ver
      BY <2>1 DEF PutWrite, PutsAlone, Version
    <3>3. \A k \in Docs : rec'[k] =
             IF k = r.key THEN [ver |-> r.cur + 1, val |-> r.val] ELSE rec[k]
      BY <2>1, <3>1 DEF PutWrite, TypeOK, Keys
    <3>4. Atomic!Write(r.key, r.val)
      BY <2>1, <3>2, <3>3 DEF Atomic!Write, Atomic!Version
    <3> QED
      BY <2>1, <3>1, <3>4 DEF Atomic!Next, Atomic!Write
  <2>2. ASSUME NEW p \in Procs, PutWrite(p), put[p].key \notin Docs
        PROVE  \A k \in Docs : rec'[k] = rec[k]
    <3>1. put[p] \in [key : Keys, val : Vals, expect : 0..MaxVersion, cur : 0..MaxVersion]
      BY <2>2 DEF TypeOK, PutWrite
    <3> QED
      BY <2>2, <3>1 DEF PutWrite, TypeOK, Keys
  <2>3. ASSUME NEW k \in Records, Delete(k) PROVE \A d \in Docs : rec'[d] = rec[d]
    BY <2>3, PersonalKvAssumption DEF Delete, TypeOK, Keys
  <2>4. CASE rec' = rec
    BY <2>4
  <2> QED
    BY <1>2, <2>1, <2>2, <2>3, <2>4
       DEF Next, kvars, PutRead, PutConflict, PutFailed, Crash
<1> QED
  BY <1>1, <1>2, StoreInvariance, PTL DEF Spec, DocsAreAtomic, Atomic!Spec

-----------------------------------------------------------------------------
(* The devices.                                                            *)

\* A device has a Put in progress exactly while it waits for its answer.
AskedHavePut ==
    \A d \in Procs :
        /\ pc[d] = "asked" <=> put[d] # None
        /\ pc[d] = "asked" => put[d].key = key[d]

\* What a device read of a document is stale, or it is what is stored.
ReadsAreCurrent ==
    \A d \in Procs : pc[d] = "write" /\ key[d] \in Docs =>
        /\ ver[d] =< Version(key[d])
        /\ ver[d] >= since[d] + tries[d]
        /\ ver[d] = Version(key[d]) => val[d] = Content(key[d])
        /\ key[d] \in Existing => ver[d] # 0

\* A conditional write of a document adds to what is there.
PutsAdd ==
    \A d \in Procs : put[d] # None /\ key[d] \in Docs =>
        /\ edit[d] \in put[d].val
        /\ put[d].expect # 0 => Content(key[d]) \subseteq put[d].val
        /\ key[d] \in Existing => put[d].expect # 0

ExistingStay == \A k \in Existing : rec[k] # None

DInv ==
    /\ KInv
    /\ DTypeOK
    /\ AskedHavePut
    /\ ReadsAreCurrent
    /\ PutsAdd
    /\ ExistingStay
    /\ ExistingDocsKeepEdits
    /\ EveryConflictIsAWrite

\* The devices only do what the store allows any client.
LEMMA DevicesUseStore == ASSUME DTypeOK, [DNext]_vars PROVE [Next]_kvars
<1> USE DEF DTypeOK
<1>1. ASSUME NEW d \in Procs, NEW k \in Keys, NEW e \in Edits, Add(d, k, e) PROVE Next
  <2>1. {e} \in Vals /\ 0 \in 0..MaxVersion
    BY PersonalDevicesAssumption, PersonalKvAssumption
  <2> QED
    BY <1>1, <2>1 DEF Add, Next
<1>2. ASSUME NEW d \in Procs, Ask(d) PROVE Next
  <2>1. val[d] \cup {edit[d]} \in Vals
    BY PersonalDevicesAssumption
  <2> QED
    BY <1>2, <2>1 DEF Ask, Next
<1>3. ASSUME NEW d \in Procs, Conflict(d) PROVE Next
  BY <1>3 DEF Conflict, Next
<1>4. ASSUME NEW d \in Procs, Written(d) \/ NotWritten(d) PROVE Next
  BY <1>4 DEF Written, NotWritten, Next
<1>5. ASSUME NEW d \in Procs, NEW k \in Records, Remove(d, k) PROVE Next
  BY <1>5 DEF Remove, Next
<1>6. ASSUME Restart PROVE Next
  BY <1>6 DEF Restart, Next
<1>7. ASSUME NEW d \in Procs, NEW k \in Keys, NEW e \in Edits,
             Start(d, k, e) \/ Read(d) \/ ReadNothing(d)
      PROVE  UNCHANGED kvars
  BY <1>7 DEF Start, Read, ReadNothing
<1>8. ASSUME NEW d \in Procs, Read(d) \/ ReadNothing(d) PROVE UNCHANGED kvars
  BY <1>8 DEF Read, ReadNothing
<1> QED
  BY <1>1, <1>2, <1>3, <1>4, <1>5, <1>6, <1>7, <1>8 DEF DNext, vars

\* Devices that have not begun satisfy the devices' invariant.
LEMMA DInvInit == DInit => DInv
<1> SUFFICES ASSUME DInit PROVE DInv
  OBVIOUS
<1>1. KInv
  BY KInvInit DEF DInit
<1>2. DTypeOK
  BY <1>1, PersonalKvAssumption, PersonalDevicesAssumption DEF DInit, DTypeOK, KInv
<1>3. AskedHavePut /\ ReadsAreCurrent /\ PutsAdd
  BY DEF DInit, Init, AskedHavePut, ReadsAreCurrent, PutsAdd
<1>4. ExistingStay /\ ExistingDocsKeepEdits
  BY PersonalKvAssumption DEF DInit, Init, ExistingStay, ExistingDocsKeepEdits, Keys
<1>5. EveryConflictIsAWrite
  <2> SUFFICES ASSUME NEW d \in Procs, key[d] \in Docs
               PROVE  Version(key[d]) >= since[d] + tries[d]
    BY DEF EveryConflictIsAWrite
  <2>1. key[d] \in Keys
    BY DEF Keys
  <2>2. Version(key[d]) \in Nat
    BY <1>1, <2>1, VersionType DEF KInv
  <2> QED
    BY <2>2 DEF DInit
<1> QED
  BY <1>1, <1>2, <1>3, <1>4, <1>5 DEF DInv

\* A step that writes no document changes neither its version nor its content.
LEMMA DocsUntouched ==
  ASSUME KInv, \A k \in Docs : rec'[k] = rec[k]
  PROVE  \A k \in Docs : Version(k)' = Version(k) /\ Content(k)' = Content(k)
BY DEF Version, Content

\* Every step of a device preserves the devices' invariant.
LEMMA DInvStep == DInv /\ [DNext]_vars => DInv'
<1> SUFFICES ASSUME DInv, [DNext]_vars PROVE DInv'
  OBVIOUS
<1> USE DEF DInv
<1>a. KInv'
  BY DevicesUseStore, KInvStep
<1>b. \A k \in Docs : k \in Keys /\ Version(k) \in 0..MaxVersion
  BY VersionType DEF KInv, Keys
<1>c. Existing \subseteq Docs /\ MaxVersion \in Nat
  BY PersonalKvAssumption
<1>1. ASSUME NEW d \in Procs, NEW k \in Keys, NEW e \in Edits, Start(d, k, e) PROVE DInv'
  <2>1. Version(k) \in 0..MaxVersion
    BY VersionType DEF KInv
  <2>2. DTypeOK'
    BY <1>1, <1>a, <2>1, PersonalDevicesAssumption DEF KInv, DTypeOK, Start, Take, Goto, Tries
  <2>3. AskedHavePut' /\ ReadsAreCurrent' /\ PutsAdd'
    BY <1>1 DEF DTypeOK, Start, Take, Goto, kvars, AskedHavePut, ReadsAreCurrent, PutsAdd,
                Version, Content
  <2>4. ExistingStay' /\ ExistingDocsKeepEdits'
    BY <1>1 DEF Start, Take, kvars, ExistingStay, ExistingDocsKeepEdits, Content
  <2>5. EveryConflictIsAWrite'
    BY <1>1, <2>1 DEF DTypeOK, Start, Take, kvars, EveryConflictIsAWrite, Version
  <2> QED
    BY <1>a, <2>2, <2>3, <2>4, <2>5
<1>2. ASSUME NEW d \in Procs, NEW k \in Keys, NEW e \in Edits, Add(d, k, e) PROVE DInv'
  <2>1. Version(k) \in 0..MaxVersion /\ k \notin Docs
    BY <1>2, VersionType, PersonalKvAssumption DEF KInv, Add
  <2>2. DTypeOK'
    BY <1>2, <1>a, <2>1 DEF KInv, DTypeOK, Add, Take, Goto, Tries
  <2>3. AskedHavePut' /\ ReadsAreCurrent' /\ PutsAdd'
    <3>1. [key |-> k, val |-> {e}, expect |-> 0, cur |-> Version(k)] # None
      <4> DEFINE r == [key |-> k, val |-> {e}, expect |-> 0, cur |-> Version(k)]
      <4>1. {e} \in Vals /\ 0 \in 0..MaxVersion
        BY PersonalDevicesAssumption, PersonalKvAssumption
      <4>2. r \in [key : Keys, val : Vals, expect : 0..MaxVersion, cur : 0..MaxVersion]
        BY <2>1, <4>1
      <4> HIDE DEF r
      <4>3. r # None
        BY Zenon, <4>2, PersonalKvAssumption
      <4> QED
        BY Zenon, <4>3 DEF r
    <3> QED
      BY <1>2, <2>1, <3>1 DEF KInv, TypeOK, DTypeOK, Add, Take, Goto, PutRead, AskedHavePut,
         ReadsAreCurrent, PutsAdd, Version, Content
  <2>4. ExistingStay' /\ ExistingDocsKeepEdits'
    BY <1>2 DEF Add, Take, PutRead, ExistingStay, ExistingDocsKeepEdits, Content
  <2>5. EveryConflictIsAWrite'
    BY <1>2, <2>1 DEF DTypeOK, Add, Take, PutRead, EveryConflictIsAWrite, Version
  <2> QED
    BY <1>a, <2>2, <2>3, <2>4, <2>5
<1>3. ASSUME NEW d \in Procs, NEW k \in Records, Remove(d, k) PROVE DInv'
  <2>1. \A c \in Docs : rec'[c] = rec[c]
    BY <1>3, PersonalKvAssumption DEF Remove, Delete, KInv, TypeOK, Keys
  <2>2. \A c \in Docs : Version(c)' = Version(c) /\ Content(c)' = Content(c)
    BY <2>1, DocsUntouched
  <2>3. DTypeOK'
    BY <1>3, <1>a DEF KInv, DTypeOK, Remove, dvars, Tries
  <2>4. AskedHavePut' /\ ReadsAreCurrent' /\ PutsAdd'
    BY <1>3, <2>2 DEF Remove, Delete, dvars, AskedHavePut, ReadsAreCurrent, PutsAdd
  <2>5. ExistingStay' /\ ExistingDocsKeepEdits' /\ EveryConflictIsAWrite'
    BY <1>3, <1>c, <2>1, <2>2 DEF Remove, dvars, ExistingStay, ExistingDocsKeepEdits,
       EveryConflictIsAWrite
  <2> QED
    BY <1>a, <2>3, <2>4, <2>5
<1>4. ASSUME NEW d \in Procs, Read(d) PROVE DInv'
  <2>1. Version(key[d]) \in 0..MaxVersion /\ (rec[key[d]] # None => Version(key[d]) # 0)
    BY VersionType DEF KInv, DTypeOK
  <2>2. Content(key[d]) \in Vals
    BY PersonalDevicesAssumption DEF KInv, TypeOK, DTypeOK, Content
  <2>3. DTypeOK'
    BY <1>4, <1>a, <2>1, <2>2 DEF KInv, DTypeOK, Read, Goto, Tries
  <2>4. AskedHavePut' /\ PutsAdd'
    BY <1>4 DEF DTypeOK, Read, Goto, kvars, AskedHavePut, PutsAdd, Content
  <2>5. ReadsAreCurrent'
    <3> SUFFICES ASSUME NEW c \in Procs, pc'[c] = "write", key[c] \in Docs
                 PROVE  /\ ver'[c] =< Version(key[c])
                        /\ ver'[c] >= since[c] + tries[c]
                        /\ ver'[c] = Version(key[c]) => val'[c] = Content(key[c])
                        /\ key[c] \in Existing => ver'[c] # 0
      BY <1>4 DEF Read, kvars, ReadsAreCurrent, Version, Content
    <3>1. CASE c = d
      <4>1. ver'[c] = Version(key[c]) /\ val'[c] = Content(key[c])
        BY <1>4, <3>1 DEF DTypeOK, Read
      <4> QED
        BY <3>1, <4>1, <2>1 DEF ExistingStay, EveryConflictIsAWrite
    <3>2. CASE c # d
      <4>1. ver'[c] = ver[c] /\ val'[c] = val[c] /\ pc[c] = "write"
        BY <1>4, <3>2 DEF DTypeOK, Read, Goto
      <4> QED
        BY <4>1 DEF ReadsAreCurrent
    <3> QED
      BY <3>1, <3>2
  <2>6. ExistingStay' /\ ExistingDocsKeepEdits' /\ EveryConflictIsAWrite'
    BY <1>4 DEF Read, kvars, ExistingStay, ExistingDocsKeepEdits, EveryConflictIsAWrite,
       Version, Content
  <2> QED
    BY <1>a, <2>3, <2>4, <2>5, <2>6
<1>5. ASSUME NEW d \in Procs, ReadNothing(d) PROVE DInv'
  <2>1. DTypeOK'
    BY <1>5, <1>a DEF KInv, DTypeOK, ReadNothing, Goto, Tries
  <2>2. AskedHavePut' /\ PutsAdd' /\ ReadsAreCurrent'
    BY <1>5 DEF DTypeOK, ReadNothing, Goto, kvars, AskedHavePut, PutsAdd, ReadsAreCurrent,
       Version, Content
  <2>3. ExistingStay' /\ ExistingDocsKeepEdits' /\ EveryConflictIsAWrite'
    BY Zenon, <1>5 DEF ReadNothing, kvars, ExistingStay, ExistingDocsKeepEdits,
       EveryConflictIsAWrite, Version, Content
  <2> QED
    BY <1>a, <2>1, <2>2, <2>3
<1>6. ASSUME NEW d \in Procs, Ask(d) PROVE DInv'
  <2> DEFINE r == [key |-> key[d], val |-> val[d] \cup {edit[d]}, expect |-> ver[d],
                   cur |-> Version(key[d])]
  <2>1. /\ put' = [put EXCEPT ![d] = r]
        /\ put[d] = None
        /\ r \in [key : Keys, val : Vals, expect : 0..MaxVersion, cur : 0..MaxVersion]
    BY <1>6, VersionType, PersonalDevicesAssumption
       DEF KInv, DTypeOK, Ask, PutRead, MutexFree
  <2>2. r # None
    <3> HIDE DEF r
    <3> QED
      BY Zenon, <2>1, PersonalKvAssumption
  <2>3. DTypeOK'
    BY <1>6, <1>a DEF KInv, DTypeOK, Ask, Goto, Tries
  <2>4. AskedHavePut'
    BY <1>6, <2>1, <2>2 DEF KInv, TypeOK, DTypeOK, Ask, Goto, AskedHavePut
  <2>5. ReadsAreCurrent'
    BY <1>6 DEF DTypeOK, Ask, PutRead, Goto, ReadsAreCurrent, Version, Content
  <2>6. PutsAdd'
    <3> SUFFICES ASSUME NEW c \in Procs, put'[c] # None, key[c] \in Docs
                 PROVE  /\ edit[c] \in put'[c].val
                        /\ put'[c].expect # 0 => Content(key[c])' \subseteq put'[c].val
                        /\ key[c] \in Existing => put'[c].expect # 0
      BY Zenon, <1>6 DEF Ask, PutsAdd
    <3>1. Content(key[c])' = Content(key[c])
      <4>1. rec' = rec /\ key' = key
        BY <1>6 DEF Ask, PutRead
      <4> QED
        BY <4>1 DEF Content
    <3>2. CASE c = d
      <4>1. put'[c] = r
        BY <2>1, <3>2 DEF KInv, TypeOK
      <4>2. ver[d] # 0 => val[d] = Content(key[d])
        BY <1>6, <3>2 DEF Ask, PutRead, ReadsAreCurrent
      <4>3. key[d] \in Existing => ver[d] # 0
        BY <1>6, <3>2 DEF Ask, ReadsAreCurrent
      <4> QED
        BY <3>1, <3>2, <4>1, <4>2, <4>3
    <3>3. CASE c # d
      BY <2>1, <3>1, <3>3 DEF KInv, TypeOK, PutsAdd
    <3> QED
      BY <3>2, <3>3
  <2>7. ExistingStay' /\ ExistingDocsKeepEdits' /\ EveryConflictIsAWrite'
    BY <1>6 DEF Ask, PutRead, ExistingStay, ExistingDocsKeepEdits, EveryConflictIsAWrite,
       Version, Content
  <2> QED
    BY <1>a, <2>3, <2>4, <2>5, <2>6, <2>7
<1>7. ASSUME NEW d \in Procs, Conflict(d) PROVE DInv'
  <2>1. DTypeOK'
    BY <1>7, <1>a DEF KInv, DTypeOK, Conflict, Goto, Tries
  <2>2. AskedHavePut' /\ PutsAdd' /\ ReadsAreCurrent'
    BY <1>7 DEF DTypeOK, Conflict, PutConflict, Goto, kvars, AskedHavePut, PutsAdd,
       ReadsAreCurrent, Version, Content
  <2>3. ExistingStay' /\ ExistingDocsKeepEdits'
    BY <1>7 DEF Conflict, PutConflict, kvars, ExistingStay, ExistingDocsKeepEdits, Content
  <2>4. EveryConflictIsAWrite'
    <3> SUFFICES ASSUME NEW c \in Procs, key[c] \in Docs
                 PROVE  Version(key[c]) >= since[c] + tries'[c]
      BY <1>7 DEF Conflict, PutConflict, kvars, EveryConflictIsAWrite, Version
    <3>1. CASE c = d
      <4>1. ver[d] < Version(key[d])
        BY <1>7, <1>b, <3>1 DEF DTypeOK, Conflict, PutConflict, ReadsAreCurrent
      <4>2. ver[d] >= since[d] + tries[d]
        BY <1>7, <3>1 DEF Conflict, ReadsAreCurrent
      <4> QED
        BY <1>7, <1>b, <3>1, <4>1, <4>2 DEF DTypeOK, Conflict
    <3>2. CASE c # d
      BY <1>7, <3>2 DEF DTypeOK, Conflict, EveryConflictIsAWrite
    <3> QED
      BY <3>1, <3>2
  <2> QED
    BY <1>a, <2>1, <2>2, <2>3, <2>4
<1>8. ASSUME NEW d \in Procs, Written(d) PROVE DInv'
  <2> DEFINE r == put[d]
  <2>1. /\ r \in [key : Keys, val : Vals, expect : 0..MaxVersion, cur : 0..MaxVersion]
        /\ r.key = key[d]
        /\ r # None
        /\ \A c \in Procs : c # d => put[c] = None
    BY <1>8 DEF Written, PutWrite, KInv, TypeOK, PutsAlone, AskedHavePut
  <2>2. DTypeOK'
    BY <1>8, <1>a DEF KInv, DTypeOK, Written, Goto, Tries
  <2>3. /\ put' = [put EXCEPT ![d] = None]
        /\ \A c \in Procs : put'[c] = None
    BY <1>8, <2>1 DEF Written, PutWrite, KInv, TypeOK
  <2>4. AskedHavePut'
    BY <1>8, <2>1, <2>3 DEF Written, Goto, DTypeOK, AskedHavePut
  <2>5. PutsAdd'
    BY <2>3 DEF PutsAdd
  <2>6. /\ rec' = [rec EXCEPT ![key[d]] = [ver |-> r.cur + 1, val |-> r.val]]
        /\ rec'[key[d]] = [ver |-> r.cur + 1, val |-> r.val]
        /\ rec'[key[d]] # None
        /\ \A k \in Keys : k # key[d] => rec'[k] = rec[k]
    <3>1. rec' = [rec EXCEPT ![key[d]] = [ver |-> r.cur + 1, val |-> r.val]]
      BY <1>8, <2>1 DEF Written, PutWrite
    <3>2. r.cur + 1 \in Versions
      BY <2>1, <1>c DEF KInv, PutsAlone, Versions
    <3> QED
      BY <2>1, <3>1, <3>2, PersonalKvAssumption DEF KInv, TypeOK
  <2>7. \A k \in Keys : k # key[d] => Version(k)' = Version(k) /\ Content(k)' = Content(k)
    BY <2>6 DEF Version, Content
  <2>8. key' = key /\ (key[d] \in Docs => Version(key[d])' = Version(key[d]) + 1)
    <3>1. key' = key
      BY <1>8 DEF Written
    <3>2. Version(key[d])' = r.cur + 1
      <4>1. rec'[key[d]].ver = r.cur + 1
        BY <2>6
      <4> QED
        BY <2>6, <3>1, <4>1 DEF Version
    <3>3. key[d] \in Docs => r.cur = Version(key[d])
      BY <2>1 DEF KInv, PutsAlone
    <3> QED
      BY <3>1, <3>2, <3>3
  <2>9. \A k \in Keys : k = key[d] => Content(k)' = r.val
    BY <2>6 DEF Content
  <2>10. ReadsAreCurrent'
    <3> SUFFICES ASSUME NEW c \in Procs, pc'[c] = "write", key[c] \in Docs
                 PROVE  /\ ver[c] =< Version(key[c])'
                        /\ ver[c] >= since[c] + tries[c]
                        /\ ver[c] = Version(key[c])' => val[c] = Content(key[c])'
                        /\ key[c] \in Existing => ver[c] # 0
      BY Zenon, <1>8 DEF Written, ReadsAreCurrent
    <3>1. pc[c] = "write"
      BY <1>8 DEF Written, Goto, DTypeOK
    <3>2. CASE key[c] = key[d]
      BY <1>b, <2>8, <3>1, <3>2 DEF ReadsAreCurrent, DTypeOK
    <3>3. CASE key[c] # key[d]
      BY <1>b, <2>7, <2>8, <3>1, <3>3 DEF ReadsAreCurrent
    <3> QED
      BY <3>2, <3>3
  <2>11. ExistingStay'
    BY <1>b, <1>c, <2>6 DEF ExistingStay
  <2>12. ExistingDocsKeepEdits'
    <3> SUFFICES ASSUME NEW k \in Existing PROVE told'[k] \subseteq Content(k)'
      BY DEF ExistingDocsKeepEdits
    <3>1. k \in Docs /\ k \in Keys
      BY <1>b, <1>c
    <3>2. CASE k = key[d]
      <4>1. told'[k] \subseteq told[k] \cup {edit[d]}
        BY <1>8, <3>1, <3>2 DEF Written, DTypeOK
      <4>2. Content(k) \cup {edit[d]} \subseteq r.val
        BY <2>1, <3>1, <3>2 DEF PutsAdd
      <4> QED
        BY <2>9, <3>1, <3>2, <4>1, <4>2 DEF ExistingDocsKeepEdits
    <3>3. CASE k # key[d]
      BY <1>8, <2>7, <3>1, <3>3 DEF Written, DTypeOK, ExistingDocsKeepEdits
    <3> QED
      BY <3>2, <3>3
  <2>13. EveryConflictIsAWrite'
    <3> SUFFICES ASSUME NEW c \in Procs, key[c] \in Docs
                 PROVE  Version(key[c])' >= since[c] + tries[c]
      BY <1>8 DEF Written, EveryConflictIsAWrite
    <3>1. Version(key[c])' \in {Version(key[c]), Version(key[c]) + 1}
      BY <1>b, <2>7, <2>8
    <3> QED
      BY <1>b, <3>1 DEF DTypeOK, EveryConflictIsAWrite
  <2> QED
    BY <1>a, <2>2, <2>4, <2>5, <2>10, <2>11, <2>12, <2>13
<1>9. ASSUME NEW d \in Procs, NotWritten(d) PROVE DInv'
  <2>1. DTypeOK'
    BY <1>9, <1>a DEF KInv, DTypeOK, NotWritten, Goto, Tries
  <2>2. AskedHavePut' /\ PutsAdd' /\ ReadsAreCurrent'
    BY Zenon, <1>9 DEF KInv, TypeOK, DTypeOK, NotWritten, PutFailed, Goto, AskedHavePut, PutsAdd,
       ReadsAreCurrent, Version, Content
  <2>3. ExistingStay' /\ ExistingDocsKeepEdits' /\ EveryConflictIsAWrite'
    BY Zenon, <1>9 DEF NotWritten, PutFailed, ExistingStay, ExistingDocsKeepEdits,
       EveryConflictIsAWrite, Version, Content
  <2> QED
    BY <1>a, <2>1, <2>2, <2>3
<1>10. ASSUME Restart PROVE DInv'
  <2>1. DTypeOK'
    BY <1>10, <1>a DEF KInv, DTypeOK, Restart, Tries
  <2>2. AskedHavePut' /\ PutsAdd' /\ ReadsAreCurrent'
    BY <1>10 DEF DTypeOK, Restart, Crash, AskedHavePut, PutsAdd, ReadsAreCurrent, Version,
       Content
  <2>3. ExistingStay' /\ ExistingDocsKeepEdits' /\ EveryConflictIsAWrite'
    BY Zenon, <1>10 DEF Restart, Crash, ExistingStay, ExistingDocsKeepEdits, EveryConflictIsAWrite,
       Version, Content
  <2> QED
    BY <1>a, <2>1, <2>2, <2>3
<1>11. CASE UNCHANGED vars
  <2>1. DTypeOK'
    BY <1>11, <1>a DEF vars, dvars, KInv, DTypeOK, Tries
  <2>2. AskedHavePut' /\ PutsAdd' /\ ReadsAreCurrent'
    BY <1>11 DEF vars, dvars, kvars, AskedHavePut, PutsAdd, ReadsAreCurrent, Version, Content
  <2>3. ExistingStay' /\ ExistingDocsKeepEdits' /\ EveryConflictIsAWrite'
    BY <1>11 DEF vars, dvars, kvars, ExistingStay, ExistingDocsKeepEdits,
       EveryConflictIsAWrite, Version, Content
  <2> QED
    BY <1>a, <2>1, <2>2, <2>3
<1> QED
  BY <1>1, <1>2, <1>3, <1>4, <1>5, <1>6, <1>7, <1>8, <1>9, <1>10, <1>11 DEF DNext

\* The devices' invariant holds throughout.
THEOREM DeviceInvariance == DSpec => []DInv
  BY DInvInit, DInvStep, PTL DEF DSpec

\* The devices' variables keep their types, and no edit is tried too often.
THEOREM DeviceTypes == DSpec => []DTypeOK
  BY DeviceInvariance, PTL DEF DInv

\* A saved edit of a document that exists is never lost (updateSettings, mutate).
THEOREM ExistingDocsKeepEditsHolds == DSpec => []ExistingDocsKeepEdits
  BY DeviceInvariance, PTL DEF DInv

\* Each conflict an edit meets is a write of another device that came through.
THEOREM EveryConflictIsAWriteHolds == DSpec => []EveryConflictIsAWrite
  BY DeviceInvariance, PTL DEF DInv

\* Only a write that began without a document takes anything away from it.
THEOREM ClobberNeedsFirstWriteHolds == DSpec => ClobberNeedsFirstWrite
<1> DEFINE A == \A k \in Docs : ~(Content(k) \subseteq Content(k)') =>
          \E d \in Procs : put[d] # None /\ put[d].key = k /\ put[d].expect = 0
<1>1. ASSUME DInv, [DNext]_vars PROVE [A]_vars
  <2> SUFFICES ASSUME NEW k \in Docs, ~(Content(k) \subseteq Content(k)')
               PROVE  \E d \in Procs : put[d] # None /\ put[d].key = k /\ put[d].expect = 0
    OBVIOUS
  <2>1. PICK p \in Procs : PutWrite(p)
    <3>1. [Next]_kvars
      BY <1>1, DevicesUseStore DEF DInv
    <3>2. rec'[k] # rec[k]
      BY DEF Content
    <3>3. ASSUME NEW c \in Records, Delete(c) PROVE FALSE
      BY <1>1, <3>2, <3>3, PersonalKvAssumption DEF Delete, DInv, KInv, TypeOK, Keys
    <3> QED
      BY <3>1, <3>2, <3>3 DEF Next, kvars, PutRead, PutConflict, PutFailed, Crash
  <2>2. put[p] # None /\ put[p].key = key[p]
    BY <1>1, <2>1 DEF PutWrite, DInv, AskedHavePut
  <2>3. put[p].key = k /\ Content(k)' = put[p].val
    <3>1. put[p] \in [key : Keys, val : Vals, expect : 0..MaxVersion, cur : 0..MaxVersion]
      BY <1>1, <2>2 DEF DInv, KInv, TypeOK
    <3>2. \A c \in Keys : c # put[p].key => rec'[c] = rec[c]
      BY <1>1, <2>1, <3>1 DEF PutWrite, DInv, KInv, TypeOK
    <3>3. put[p].key = k
      BY <3>2 DEF Content, Keys
    <3>4. rec'[k] = [ver |-> put[p].cur + 1, val |-> put[p].val]
      BY <1>1, <2>1, <3>1, <3>3 DEF PutWrite, DInv, KInv, TypeOK
    <3>5. rec'[k] # None
      <4>1. put[p].cur + 1 \in Versions
        BY <1>1, <2>2, <3>1, PersonalKvAssumption DEF DInv, KInv, PutsAlone, Versions
      <4> QED
        BY <3>1, <3>4, <4>1, PersonalKvAssumption
    <3> QED
      BY <3>3, <3>4, <3>5 DEF Content
  <2>4. put[p].expect = 0
    BY Zenon, <1>1, <2>2, <2>3 DEF DInv, PutsAdd
  <2> QED
    BY <2>2, <2>3, <2>4
<1> QED
  BY <1>1, DeviceInvariance, PTL DEF DSpec, ClobberNeedsFirstWrite
=============================================================================
