---------------------------- MODULE MailboxProofs ----------------------------
(***************************************************************************)
(* Theorems about Mailbox, for every set of recipients, envelopes and      *)
(* handlers.  The first two properties follow from one another's company:  *)
(* an acknowledged message is an indexed one.  That a header is left       *)
(* behind only by an overlap needs to know what a handler that runs alone  *)
(* on its message may rely on between its look-up and its batch.           *)
(*                                                                         *)
(* The second part is about MailboxWalk: a client that pages through the   *)
(* mailbox misses nothing that stayed and meets nothing twice.             *)
(***************************************************************************)
EXTENDS MailboxWalk, FiniteSetTheorems, WellFoundedInduction, TLAPS

\* As long as nothing overlapped on the message of a handler, what it read in
\* the index is still true, and it is the only one at work on that message.
AloneIsUndisturbed ==
    \A p \in Procs : pc[p] # "idle" /\ msg[p] \notin contended =>
        /\ index[msg[p]] = (IF pc[p] = "storing" THEN None ELSE at[p])
        /\ \A q \in Procs : pc[q] # "idle" /\ msg[q] = msg[p] => q = p

IInv ==
    /\ TypeOK
    /\ IndexedMailComplete
    /\ AckedMailReadable
    /\ AloneIsUndisturbed
    /\ GhostsNeedOverlap

\* An empty mailbox satisfies the inductive invariant.
LEMMA IInvInit == Init => IInv
<1> SUFFICES ASSUME Init PROVE IInv
  OBVIOUS
<1>1. TypeOK
  BY MailboxAssumption DEF Init, TypeOK, Times
<1>2. IndexedMailComplete /\ AckedMailReadable /\ AloneIsUndisturbed /\ GhostsNeedOverlap
  BY DEF Init, IndexedMailComplete, AckedMailReadable, AloneIsUndisturbed, GhostsNeedOverlap
<1> QED
  BY <1>1, <1>2 DEF IInv

\* A handler that starts on a message changes no key.
LEMMA BeginKeeps ==
  ASSUME IInv, NEW p \in Procs, NEW m \in Messages, NEW t \in Times,
         NEW step \in {"storing", "deleting"}, Begin(p, step, m, t),
         index[m] = (IF step = "storing" THEN None ELSE t)
  PROVE  IInv'
<1> USE DEF IInv
<1>1. TypeOK'
  BY DEF TypeOK, Begin, store
<1>2. IndexedMailComplete' /\ AckedMailReadable'
  BY DEF IndexedMailComplete, AckedMailReadable, Begin, store
<1>3. AloneIsUndisturbed'
  BY DEF TypeOK, AloneIsUndisturbed, Begin, Busy, store
<1>4. GhostsNeedOverlap'
  BY DEF GhostsNeedOverlap, Begin, store
<1> QED
  BY <1>1, <1>2, <1>3, <1>4

\* Every operation preserves the inductive invariant.
LEMMA IInvStep == IInv /\ [Next]_vars => IInv'
<1> SUFFICES ASSUME IInv, [Next]_vars PROVE IInv'
  OBVIOUS
<1> USE DEF IInv
<1>1. ASSUME NEW m \in Messages, StoreAgain(m) \/ DeleteAgain(m) PROVE IInv'
  <2>1. TypeOK'
    BY <1>1 DEF TypeOK, StoreAgain, DeleteAgain, store
  <2>2. IndexedMailComplete' /\ AloneIsUndisturbed' /\ GhostsNeedOverlap'
    BY <1>1 DEF IndexedMailComplete, AloneIsUndisturbed, GhostsNeedOverlap,
                StoreAgain, DeleteAgain, store
  <2>3. AckedMailReadable'
    BY <1>1 DEF IndexedMailComplete, AckedMailReadable, StoreAgain, DeleteAgain, store
  <2> QED
    BY <2>1, <2>2, <2>3
<1>2. ASSUME NEW p \in Procs, NEW m \in Messages, StoreBegin(p, m) PROVE IInv'
  BY <1>2, BeginKeeps DEF TypeOK, StoreBegin
<1>3. ASSUME NEW p \in Procs, NEW m \in Messages, DeleteBegin(p, m) PROVE IInv'
  <2>1. index[m] \in Times
    BY <1>3 DEF TypeOK, DeleteBegin
  <2> QED
    BY <1>3, <2>1, BeginKeeps DEF DeleteBegin
<1>4. ASSUME NEW p \in Procs, StoreCommit(p) PROVE IInv'
  <2>1. TypeOK'
    BY <1>4 DEF TypeOK, StoreCommit, Finish, Headers
  <2>2. IndexedMailComplete' /\ AckedMailReadable'
    BY <1>4, MailboxAssumption DEF TypeOK, IndexedMailComplete, AckedMailReadable, StoreCommit
  <2>3. AloneIsUndisturbed'
    BY <1>4 DEF TypeOK, AloneIsUndisturbed, StoreCommit, Finish
  <2>4. GhostsNeedOverlap'
    BY <1>4, MailboxAssumption
    DEF TypeOK, GhostsNeedOverlap, AloneIsUndisturbed, StoreCommit, Finish, Headers
  <2> QED
    BY <2>1, <2>2, <2>3, <2>4
<1>5. ASSUME NEW p \in Procs, DeleteCommit(p) PROVE IInv'
  <2>1. TypeOK'
    BY <1>5 DEF TypeOK, DeleteCommit, Finish
  <2>2. IndexedMailComplete' /\ AckedMailReadable'
    BY <1>5 DEF TypeOK, IndexedMailComplete, AckedMailReadable, DeleteCommit
  <2>3. AloneIsUndisturbed'
    BY <1>5 DEF TypeOK, AloneIsUndisturbed, DeleteCommit, Finish
  <2>4. GhostsNeedOverlap'
    BY <1>5 DEF TypeOK, GhostsNeedOverlap, AloneIsUndisturbed, DeleteCommit, Finish, Headers
  <2> QED
    BY <2>1, <2>2, <2>3, <2>4
<1>6. ASSUME NEW p \in Procs, CommitFailed(p) PROVE IInv'
  <2>1. TypeOK' /\ AloneIsUndisturbed'
    BY <1>6 DEF TypeOK, AloneIsUndisturbed, CommitFailed, Finish, store
  <2>2. IndexedMailComplete' /\ AckedMailReadable' /\ GhostsNeedOverlap'
    BY <1>6 DEF IndexedMailComplete, AckedMailReadable, GhostsNeedOverlap, CommitFailed, Finish, store
  <2> QED
    BY <2>1, <2>2
<1>7. CASE Crash
  BY <1>7 DEF TypeOK, AloneIsUndisturbed, IndexedMailComplete, AckedMailReadable,
              GhostsNeedOverlap, Crash, store, told
<1>8. CASE Tick
  <2>1. TypeOK'
    BY <1>8, MailboxAssumption DEF TypeOK, Tick, store, told, Times
  <2> QED
    BY <1>8, <2>1 DEF AloneIsUndisturbed, IndexedMailComplete, AckedMailReadable,
                      GhostsNeedOverlap, Tick, store, told
<1>9. CASE UNCHANGED vars
  BY <1>9 DEF TypeOK, AloneIsUndisturbed, IndexedMailComplete, AckedMailReadable,
              GhostsNeedOverlap, vars, store, told
<1> QED
  BY <1>1, <1>2, <1>3, <1>4, <1>5, <1>6, <1>7, <1>8, <1>9 DEF Next

\* The inductive invariant holds throughout, for any overlap of handlers.
THEOREM Invariance == Spec => []IInv
  BY IInvInit, IInvStep, PTL DEF Spec

\* The mailbox's variables keep their types.
THEOREM TypeCorrect == Spec => []TypeOK
  BY Invariance, PTL DEF IInv

\* Index entry, body and the header it names come and go together, and a message
\* that was acknowledged and that nobody deleted can be listed and opened, for any
\* number of overlapping STOREs, DELETEs and crashes.
THEOREM MailIsWholeHolds == Spec => []MailIsWhole
  BY Invariance, PTL DEF IInv, MailIsWhole

\* A header nobody can open or delete is left behind only by an overlap.
THEOREM GhostsNeedOverlapHolds == Spec => []GhostsNeedOverlap
  BY Invariance, PTL DEF IInv

-----------------------------------------------------------------------------
(* The walk.                                                               *)

\* Keys of the mailbox that is walked.
OwnKeys == {k \in Headers : k[1][1] = Owner}

\* A key is a time and a hash.
LEMMA KeyShape ==
  ASSUME NEW x \in OwnKeys
  PROVE  x[2] \in Nat /\ x[1][2] \in Nat /\ x = <<<<Owner, x[1][2]>>, x[2]>>
<1>1. PICK n \in Messages, t \in Times : x = <<n, t>>
  BY DEF OwnKeys, Headers
<1>2. PICK r \in Rx, h \in Hashes : n = <<r, h>>
  BY DEF Messages
<1>3. r = Owner /\ h \in Nat /\ t \in Nat
  BY <1>1, <1>2, MailboxWalkAssumption, MailboxAssumption DEF OwnKeys, Times
<1> QED
  BY <1>1, <1>2, <1>3

\* Two keys of one mailbox differ in their time or in their hash, so either order
\* of List is a strict total order on them.
LEMMA KeysOrdered ==
  ASSUME NEW o, NEW k \in OwnKeys, NEW l \in OwnKeys
  PROVE  /\ ~Before(o, k, k)
         /\ Before(o, k, l) => ~Before(o, l, k)
         /\ k = l \/ Before(o, k, l) \/ Before(o, l, k)
  BY KeyShape DEF Before, Greater

\* The order is transitive.
LEMMA KeysTransitive ==
  ASSUME NEW o, NEW k \in OwnKeys, NEW l \in OwnKeys, NEW m \in OwnKeys,
         Before(o, k, l), Before(o, l, m)
  PROVE  Before(o, k, m)
  BY KeyShape DEF Before, Greater

\* A page is read from the near end: a non-empty finite part of the mailbox has
\* a first key.
LEMMA FirstKey ==
  ASSUME NEW o, NEW S \in SUBSET OwnKeys, IsFiniteSet(S), S # {}
  PROVE  \E k \in S : \A l \in S : l = k \/ Before(o, k, l)
<1> DEFINE Below(k) == {l \in S : l = k \/ Before(o, l, k)}
           T == {Below(k) : k \in S}
           R == StrictSubsetOrdering(S)
<1>1. IsWellFoundedOn(R, FiniteSubsetsOf(S))
  BY FS_StrictSubsetOrderingWellFounded
<1>2. T \subseteq FiniteSubsetsOf(S) /\ T # {}
  <2>1. ASSUME NEW k \in S PROVE Below(k) \in FiniteSubsetsOf(S)
    <3>1. Below(k) \in SUBSET S
      OBVIOUS
    <3> HIDE DEF Below
    <3> QED
      BY <3>1, FS_Subset DEF FiniteSubsetsOf
  <2> QED
    BY <2>1
<1>3. PICK B \in T : \A C \in T : ~(<<C, B>> \in R)
  <2> HIDE DEF R, T
  <2> QED
    BY <1>1, <1>2, WFMin
<1>4. PICK k \in S : B = Below(k)
  BY <1>3
<1>5. ASSUME NEW l \in S, Before(o, l, k) PROVE FALSE
  <2>1. ASSUME NEW x \in S, Before(o, x, l) PROVE Before(o, x, k)
    <3>1. x \in OwnKeys /\ l \in OwnKeys /\ k \in OwnKeys
      OBVIOUS
    <3> QED
      BY <3>1, <2>1, <1>5, KeysTransitive
  <2>2. l # k /\ ~Before(o, k, l)
    BY <1>5, KeysOrdered
  <2>3. Below(l) \subseteq Below(k) /\ k \notin Below(l) /\ k \in Below(k)
    BY <1>5, <2>1, <2>2
  <2>4. <<Below(l), Below(k)>> \in R
    BY <2>3 DEF StrictSubsetOrdering
  <2> QED
    BY <1>3, <1>4, <2>4
<1> QED
  BY <1>5, KeysOrdered

\* And a last one, the first in the other order.
LEMMA LastKey ==
  ASSUME NEW o, NEW S \in SUBSET OwnKeys, IsFiniteSet(S), S # {}
  PROVE  \E k \in S : \A l \in S : l = k \/ Before(o, l, k)
<1> DEFINE back == IF o = "newest" THEN "oldest" ELSE "newest"
<1>1. PICK k \in S : \A l \in S : l = k \/ Before(back, k, l)
  BY FirstKey
<1>2. \A l : Before(back, k, l) => Before(o, l, k)
  BY DEF Before
<1> QED
  BY <1>1, <1>2

\* What a page is read from.
LEMMA PastKeys ==
  ASSUME TypeOK, IsFiniteSet(headers)
  PROVE  /\ Past \subseteq OwnKeys /\ Page \subseteq Past /\ NextCursor \subseteq Page
         /\ IsFiniteSet(Past) /\ IsFiniteSet(Page)
<1>1. Past \subseteq OwnKeys /\ Past \in SUBSET headers
  BY DEF Past, OwnKeys, TypeOK
<1>2. Page \in SUBSET Past /\ NextCursor \subseteq Page
  BY DEF Page, NextCursor
<1>3. IsFiniteSet(Past)
  BY <1>1, FS_Subset
<1> QED
  BY <1>1, <1>2, <1>3, FS_Subset

\* A page has no gap: what comes before one of its entries is in it too.
LEMMA PageIsPrefix ==
  ASSUME TypeOK, IsFiniteSet(headers), NEW k \in Page, NEW l \in Past, Before(order, l, k)
  PROVE  l \in Page
<1>1. ASSUME NEW x \in UpTo(l) PROVE x \in UpTo(k)
  <2>1. x \in Past /\ (x = l \/ Before(order, x, l))
    BY <1>1 DEF UpTo
  <2>2. k \in OwnKeys /\ l \in OwnKeys /\ x \in OwnKeys
    BY <2>1, PastKeys
  <2>3. Before(order, x, k)
    BY <2>1, <2>2, KeysTransitive
  <2> QED
    BY <2>1, <2>3 DEF UpTo
<1> QED
  BY <1>1 DEF Page

\* A page that has something to list lists something, however large it is.
LEMMA PageNotEmpty ==
  ASSUME TypeOK, IsFiniteSet(headers), Past # {}
  PROVE  Page # {}
<1>1. PICK k \in Past : \A l \in Past : l = k \/ Before(order, k, l)
  BY PastKeys, FirstKey
<1>2. UpTo(k) = {k}
  <2>1. \A l \in Past : Before(order, k, l) => ~Before(order, l, k)
    BY PastKeys, KeysOrdered
  <2>2. ~Before(order, k, k)
    BY PastKeys, KeysOrdered
  <2> QED
    BY <1>1, <2>1, <2>2 DEF UpTo
<1>3. Fits(k)
  BY <1>2, FS_Singleton, MailboxWalkAssumption DEF Fits
<1> QED
  BY <1>2, <1>3 DEF Page

\* The cursor is empty only when the mailbox has been read to its end.
LEMMA CursorContinues ==
  ASSUME TypeOK, IsFiniteSet(headers), NextCursor = {}
  PROVE  Page = Past
<1> SUFFICES ASSUME Page # Past PROVE FALSE
  OBVIOUS
<1>1. Page # {}
  BY PageNotEmpty DEF Page
<1>2. PICK k \in Page : \A l \in Page : l = k \/ Before(order, l, k)
  <2>1. Page \in SUBSET OwnKeys /\ IsFiniteSet(Page)
    BY PastKeys
  <2> QED
    BY <1>1, <2>1, LastKey
<1> QED
  BY <1>2 DEF NextCursor

-----------------------------------------------------------------------------

\* What the walk owes is listed or still ahead of the cursor, and what it has
\* listed lies behind the cursor or at it.
WalkInv ==
    /\ IInv
    /\ IsFiniteSet(headers)
    /\ order \in {"none", "newest", "oldest"}
    /\ cursor \subseteq OwnKeys /\ seen \subseteq OwnKeys
    /\ must \subseteq headers \cap OwnKeys
    /\ WalkComplete
    /\ order # "none" =>
          /\ \A k \in must : k \in seen \/ \A c \in cursor : Before(order, c, k)
          /\ \A l \in seen : \E c \in cursor : l = c \/ Before(order, l, c)

\* An empty mailbox that nobody lists satisfies it.
LEMMA WalkInvInit == WalkInit => WalkInv
<1> SUFFICES ASSUME WalkInit PROVE WalkInv
  OBVIOUS
<1>1. IInv /\ headers = {}
  BY IInvInit DEF WalkInit, Init
<1> QED
  BY <1>1, FS_EmptySet DEF WalkInit, WalkInv, WalkComplete

\* The mailbox holds finitely many headers: a batch writes or deletes one.
LEMMA HeadersFinite ==
  ASSUME IsFiniteSet(headers), [Next]_vars
  PROVE  IsFiniteSet(headers')
<1>1. ASSUME NEW p \in Procs, StoreCommit(p) PROVE IsFiniteSet(headers')
  <2>1. headers' = headers \cup {<<msg[p], at[p]>>}
    BY <1>1 DEF StoreCommit
  <2> QED
    BY <2>1, FS_AddElement
<1>2. ASSUME NEW p \in Procs, DeleteCommit(p) PROVE IsFiniteSet(headers')
  <2>1. headers' = headers \ {<<msg[p], at[p]>>}
    BY <1>2 DEF DeleteCommit
  <2> QED
    BY <2>1, FS_RemoveElement
<1>3. CASE UNCHANGED headers
  BY <1>3
<1> QED
  BY <1>1, <1>2, <1>3
  DEF Next, StoreAgain, DeleteAgain, StoreBegin, DeleteBegin, Begin, CommitFailed, Crash, Tick, vars, store

\* A page keeps the promise: what it leaves out lies past its last entry.
LEMMA PageKeeps ==
  ASSUME WalkInv, WalkPage
  PROVE  WalkInv'
<1> USE DEF WalkInv
<1>0. IInv' /\ IsFiniteSet(headers') /\ headers' = headers /\ must' = must
  <2>1. UNCHANGED vars /\ must' = must
    BY DEF WalkPage
  <2>2. IInv'
    BY <2>1, IInvStep
  <2> QED
    BY <2>1, <2>2 DEF vars, store
<1>1. TypeOK
  BY DEF IInv
<1>2. Past \subseteq OwnKeys /\ Page \subseteq Past /\ NextCursor \subseteq Page
  BY <1>1, PastKeys
<1>3. seen' = seen \cup Page /\ cursor' = NextCursor
      /\ order' = IF NextCursor = {} THEN "none" ELSE order
  BY DEF WalkPage
<1>4. \A k \in must : k \in seen \/ k \in Past
  BY DEF WalkPage, Past, OwnKeys
<1>5. CASE NextCursor = {}
  <2>1. must \subseteq seen'
    BY <1>1, <1>3, <1>4, <1>5, CursorContinues
  <2> QED
    BY <1>0, <1>2, <1>3, <1>5, <2>1 DEF WalkComplete
<1>6. CASE NextCursor # {}
  <2>1. order' = order /\ order # "none"
    BY <1>3, <1>6 DEF WalkPage
  <2>2. ASSUME NEW k \in must, k \notin seen', NEW c \in NextCursor
        PROVE  Before(order, c, k)
    <3>1. k \in Past /\ k \notin Page /\ c \in Page
      BY <1>2, <1>3, <1>4, <2>2
    <3>2. k \in OwnKeys /\ c \in OwnKeys /\ k # c
      BY <1>2, <3>1
    <3>3. ~Before(order, k, c)
      BY <1>1, <3>1, PageIsPrefix
    <3> QED
      BY <3>2, <3>3, KeysOrdered
  <2>3. PICK c \in NextCursor : TRUE
    BY <1>6
  <2>4. c \in Page /\ c \in Past /\ c \in OwnKeys
    BY <1>2
  <2>5. ASSUME NEW l \in seen PROVE Before(order, l, c)
    <3>1. PICK d \in cursor : l = d \/ Before(order, l, d)
      BY <2>1
    <3>2. Before(order, d, c) /\ d \in OwnKeys /\ l \in OwnKeys
      BY <2>4 DEF Past
    <3> QED
      BY <2>4, <3>1, <3>2, KeysTransitive
  <2>6. ASSUME NEW l \in Page PROVE l = c \/ Before(order, l, c)
    BY <1>6, <2>3 DEF NextCursor
  <2>7. /\ \A k \in must' : k \in seen' \/ \A x \in cursor' : Before(order', x, k)
        /\ \A l \in seen' : \E x \in cursor' : l = x \/ Before(order', l, x)
    BY <1>0, <1>3, <2>1, <2>2, <2>5, <2>6
  <2> QED
    BY <1>0, <1>2, <1>3, <2>1, <2>7 DEF WalkComplete
<1> QED
  BY <1>5, <1>6

\* Every step of the client and of the mailbox preserves the invariant.
LEMMA WalkInvStep == WalkInv /\ [WalkNext]_wvars => WalkInv'
<1> SUFFICES ASSUME WalkInv, [WalkNext]_wvars PROVE WalkInv'
  OBVIOUS
<1>1. ASSUME NEW o \in {"newest", "oldest"}, WalkStart(o) PROVE WalkInv'
  <2>1. UNCHANGED vars
    BY <1>1 DEF WalkStart
  <2>2. IInv'
    BY <2>1, IInvStep DEF WalkInv
  <2>3. headers' = headers /\ order' = o /\ cursor' = {} /\ seen' = {}
        /\ must' = {k \in headers : k[1][1] = Owner}
    BY <1>1, <2>1 DEF WalkStart, vars, store
  <2>4. must' \subseteq OwnKeys
    BY <2>3 DEF WalkInv, IInv, TypeOK, OwnKeys
  <2> QED
    BY <2>2, <2>3, <2>4 DEF WalkInv, WalkComplete
<1>2. CASE WalkPage
  BY <1>2, PageKeeps
<1>3. CASE MailboxStep
  <2>1. IInv' /\ IsFiniteSet(headers')
    BY <1>3, IInvStep, HeadersFinite DEF WalkInv, MailboxStep
  <2>2. must' = must \cap headers' /\ UNCHANGED <<order, cursor, seen>>
    BY <1>3 DEF MailboxStep
  <2> QED
    BY <2>1, <2>2 DEF WalkInv, WalkComplete
<1>4. CASE UNCHANGED wvars
  <2>1. UNCHANGED vars /\ UNCHANGED <<order, cursor, seen, must>>
    BY <1>4 DEF wvars, walk
  <2>2. IInv'
    BY <2>1, IInvStep DEF WalkInv
  <2>3. headers' = headers
    BY <2>1 DEF vars, store
  <2> QED
    BY <2>1, <2>2, <2>3 DEF WalkInv, WalkComplete
<1> QED
  BY <1>1, <1>2, <1>3, <1>4 DEF WalkNext

\* The walk's invariant holds throughout, for any page size, budget, entry sizes
\* and any mail that comes and goes between the pages.
THEOREM WalkInvariance == WalkSpec => []WalkInv
  BY WalkInvInit, WalkInvStep, PTL DEF WalkSpec

\* When a walk ends, every message that was in the mailbox all along has been
\* listed, whatever was stored or deleted between the pages and however large
\* its header is.
THEOREM WalkCompleteHolds == WalkSpec => []WalkComplete
  BY WalkInvariance, PTL DEF WalkInv

\* A page lists only what comes after everything listed before it, although the
\* entry its cursor names may be gone.
THEOREM WalkNeverRepeatsHolds == WalkSpec => WalkNeverRepeats
<1> DEFINE Onward == WalkPage => \A k \in Page, l \in seen : Before(order, l, k)
<1>1. ASSUME WalkInv PROVE Onward
  <2> SUFFICES ASSUME WalkPage, NEW k \in Page, NEW l \in seen PROVE Before(order, l, k)
    OBVIOUS
  <2>1. PICK c \in cursor : l = c \/ Before(order, l, c)
    BY <1>1 DEF WalkInv, WalkPage
  <2>2. k \in Past /\ k \in OwnKeys
    BY <1>1, PastKeys DEF WalkInv, IInv
  <2>3. Before(order, c, k) /\ c \in OwnKeys /\ l \in OwnKeys
    BY <1>1, <2>2 DEF WalkInv, Past
  <2> QED
    BY <2>1, <2>2, <2>3, KeysTransitive
<1>2. WalkInv => [Onward]_wvars
  BY <1>1
<1> QED
  BY <1>2, WalkInvariance, PTL DEF WalkNeverRepeats

\* Listing is non-consuming: a mailbox that is walked is a mailbox, so all that
\* holds of Spec holds of WalkSpec.
THEOREM WalkIsMailbox == WalkSpec => Spec
<1>1. WalkInit => Init
  BY DEF WalkInit
<1>2. [WalkNext]_wvars => [Next]_vars
  BY DEF WalkNext, WalkStart, WalkPage, MailboxStep, wvars
<1> QED
  BY <1>1, <1>2, PTL DEF WalkSpec, Spec

=============================================================================
