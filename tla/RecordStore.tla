----------------------------- MODULE RecordStore -----------------------------
(***************************************************************************)
(* What a fleet node admits to its record store                            *)
(* (internal/relay/acceptrecord.go, over recordstore.go), for one address  *)
(* and its domain: the identity record, the domain authority record (DAR), *)
(* the removal record (tombstones), the credential blocklist and the       *)
(* rotation history.                                                       *)
(*                                                                         *)
(* AcceptRecord runs in a goroutine per stream and takes no lock: it reads *)
(* one record after another, decides, and writes.  The checks between the  *)
(* reads are pure, so they are made here once, on what was read.           *)
(*                                                                         *)
(* Signatures are the field "by", the key that made them; a record whose   *)
(* own signature fails is refused at once and is not in the sets below.    *)
(***************************************************************************)
EXTENDS Integers, Sequences

CONSTANTS
    Identities,   \* [key, recovery, rev, issued, issuer, chain]
    Dars,         \* [root, old, rev, rotation, reserves]
    Removals,     \* [keys, rev, by]
    Blocklists,   \* [blocked, rev, by]
    Histories,    \* sequences of rotation entries
    Stores,       \* what the datastore may hold when the node starts
    Bundled,      \* DARs that the node's join bundles may carry
    Anchored,     \* root keys whose fingerprint the domain's DNS record names
    MaxRotationChain,
    Procs,        \* streams
    None,
    MaxPushes,    \* bound: records pushed
    MaxFaults     \* bound: datastore reads that fail, and restarts

Kinds == {"identity", "dar", "removal", "block", "history"}
Records(k) ==
    CASE k = "identity" -> Identities
      [] k = "dar"      -> Dars
      [] k = "removal"  -> Removals
      [] k = "block"    -> Blocklists
      [] k = "history"  -> Histories

\* What a handler of a record of kind k reads, in order; "again" is the second
\* read of the record it is about to replace.
Reads(k) ==
    CASE k = "identity" -> <<"dar", "block", "identity", "removal", "again">>
      [] k = "dar"      -> <<"dar", "again">>
      [] k = "removal"  -> <<"dar", "identity", "removal">>
      [] k = "block"    -> <<"dar", "block">>
      [] k = "history"  -> <<"dar", "identity", "history">>

ASSUME RecordStoreAssumption ==
    /\ \A r \in Identities :
          /\ DOMAIN r = {"key", "recovery", "rev", "issued", "issuer", "chain"}
          /\ r.rev \in Nat /\ r.issued \in Nat
    /\ \A d \in Dars :
          /\ DOMAIN d = {"root", "old", "rev", "rotation", "reserves"}
          /\ d.rev \in Nat /\ d.rotation \in BOOLEAN /\ d.reserves \in BOOLEAN
    /\ \A m \in Removals : DOMAIN m = {"keys", "rev", "by"} /\ m.rev \in Nat
    /\ \A b \in Blocklists : DOMAIN b = {"blocked", "rev", "by"} /\ b.rev \in Nat
    /\ \A h \in Histories : Len(h) \in Nat
    /\ \A k \in Kinds : None \notin Records(k)
    /\ \A h \in Stores : DOMAIN h = Kinds /\ \A k \in Kinds : h[k] \in Records(k) \cup {None}
    /\ Bundled \subseteq Dars
    /\ MaxRotationChain \in Nat /\ MaxPushes \in Nat /\ MaxFaults \in Nat

VARIABLES
    held,    \* kind -> the record in the store, or None
    job,     \* stream -> the push it is handling, or None
    pushes,  \* bound: how many records were pushed
    faults,  \* bound: how many reads failed, and restarts
    lost,    \* history: keys that lost the address without having signed it away
    raced    \* history: some write did not rest on what the store held

ghost == <<lost, raced>>
vars == <<held, job, pushes, faults, ghost>>

Slots == Kinds \cup {"again"}
Nothing == [s \in Slots |-> None]

TypeOK ==
    /\ DOMAIN held = Kinds
    /\ \A k \in Kinds : held[k] \in Records(k) \cup {None}
    /\ DOMAIN job = Procs
    /\ \A p \in Procs : job[p] # None =>
          /\ DOMAIN job[p] = {"kind", "rec", "done", "saw"}
          /\ job[p].kind \in Kinds
          /\ job[p].rec \in Records(job[p].kind)
          /\ job[p].done \in 0..Len(Reads(job[p].kind))
          /\ DOMAIN job[p].saw = Slots
          /\ \A k \in Kinds : job[p].saw[k] \in Records(k) \cup {None}
          /\ job[p].saw["again"] \in Records(job[p].kind) \cup {None}
    /\ pushes \in 0..MaxPushes /\ faults \in 0..MaxFaults
    /\ raced \in BOOLEAN

-----------------------------------------------------------------------------
(* Authority                                                               *)

\* darRootKeys: the current root and the ones it supersedes.
Roots(dar) == IF dar = None THEN {} ELSE {dar.root} \cup dar.old

\* SupersededKeys is the root's timeline: a DAR that acknowledges the root of
\* another carries what that one carries.
ASSUME DarTimelines ==
    \A a, b \in Dars : a.root \in Roots(b) => Roots(a) \subseteq Roots(b)

RootSigned(dar, r) == r # None /\ r.by \in Roots(dar)

OwnerSigned(id, m) == id # None /\ m.by = id.key

\* checkReservedLocalPart: a reserved address needs a credential of an issuer
\* that the root's blocklist does not name.
ReservedOk(r, dar, block) ==
    dar # None /\ dar.reserves =>
        /\ r.issuer # None
        /\ RootSigned(dar, block) => r.issuer \notin block.blocked

\* rebindTombstoneFrees: the root has tombstoned the incumbent's key.
Frees(m, dar, prev) == RootSigned(dar, m) /\ prev.key \in m.keys

\* verifyChainLinks.  An entry is [sig, after, from, to, rev, by, attested], where
\* "after" is the signature of the entry before it; times rise with revisions.
ChainLinks(chain) ==
    \A i \in 2..Len(chain) :
        /\ chain[i].from = chain[i-1].to
        /\ chain[i].after = chain[i-1].sig
        /\ chain[i].rev > chain[i-1].rev

Last(chain) == chain[Len(chain)]

\* VerifyRotationChain, of a chain that is not empty.
ChainOk(r) ==
    /\ Len(r.chain) <= MaxRotationChain
    /\ ChainLinks(r.chain)
    /\ Last(r.chain).to = r.key
    /\ Last(r.chain).rev = r.rev

\* Mutant: a key that the root has tombstoned may be rotated into.
RotatesIntoAny(r, m, dar, prev) ==
    /\ dar.rotation
    /\ ChainOk(r)
    /\ Last(r.chain).from = prev.key
    /\ Last(r.chain).by \in {prev.key, prev.recovery}
    /\ r.rev > prev.rev
    /\ Last(r.chain).attested

\* authorizeOwnerRotation; "attested" is the verdict of authorizeRotationDevice.
Rotates(r, m, dar, prev) ==
    /\ dar.rotation
    /\ ChainOk(r)
    /\ Last(r.chain).from = prev.key
    /\ Last(r.chain).by \in {prev.key, prev.recovery}
    /\ r.rev > prev.rev
    /\ Last(r.chain).attested
    /\ ~(RootSigned(dar, m) /\ r.key \in m.keys)

\* Mutant: a tombstone of any signer frees the address.
RebindOkAnyTombstone(r, m, dar, prev) ==
    prev # None /\ dar # None =>
        \/ prev.key = r.key
        \/ m # None /\ prev.key \in m.keys
        \/ r.chain # <<>> /\ Rotates(r, m, dar, prev)

\* checkKeyContinuity with AuthorizeRebind: a first binding, the same key, no
\* authority to ask, the root's tombstone, or the owner's rotation.
RebindOk(r, m, dar, prev) ==
    prev # None /\ dar # None =>
        \/ prev.key = r.key
        \/ Frees(m, dar, prev)
        \/ r.chain # <<>> /\ Rotates(r, m, dar, prev)

-----------------------------------------------------------------------------
(* Admission of each kind of record, from what was read                    *)

NewerIdentity(r, old) ==
    old # None => r.rev > old.rev \/ (r.rev = old.rev /\ r.issued >= old.issued)

IdentityOk(r, saw) ==
    /\ ReservedOk(r, saw["dar"], saw["block"])
    /\ RebindOk(r, saw["removal"], saw["dar"], saw["identity"])
    /\ NewerIdentity(r, saw["again"])

\* Only a record equal to the one held may keep its revision; the bytes to compare
\* with are read again, and a read that fails lets the record pass.
DarOk(d, saw) ==
    IF saw["dar"] = None THEN d.root \in Anchored
    ELSE /\ saw["dar"].root \in Roots(d)
         /\ \/ d.rev > saw["dar"].rev
            \/ d.rev = saw["dar"].rev /\ saw["again"] \in {d, None}

\* Mutant: a removal may drop tombstones.
RemovalOkUncovered(m, saw) ==
    /\ saw["dar"] # None
    /\ RootSigned(saw["dar"], m) \/ OwnerSigned(saw["identity"], m)
    /\ saw["removal"] # None =>
          /\ RootSigned(saw["dar"], saw["removal"]) => RootSigned(saw["dar"], m)
          /\ m.rev >= saw["removal"].rev

RemovalOk(m, saw) ==
    /\ saw["dar"] # None
    /\ RootSigned(saw["dar"], m) \/ OwnerSigned(saw["identity"], m)
    /\ saw["removal"] # None =>
          /\ RootSigned(saw["dar"], saw["removal"]) => RootSigned(saw["dar"], m)
          /\ m.rev >= saw["removal"].rev
          /\ saw["removal"].keys \subseteq m.keys

BlockOk(b, saw) ==
    /\ RootSigned(saw["dar"], b)
    /\ RootSigned(saw["dar"], saw["block"]) => b.rev >= saw["block"].rev

Extends(h, prior) ==
    /\ Len(h) > Len(prior)
    /\ \A i \in 1..Len(prior) : h[i].sig = prior[i].sig

\* Verify: whole from the first rotation on; it grows; it ends in the live key.
HistoryOk(h, saw) ==
    /\ saw["dar"] # None /\ saw["identity"] # None
    /\ h # <<>> => h[1].after = None
    /\ ChainLinks(h)
    /\ saw["history"] \notin {None, <<>>} => Extends(h, saw["history"])
    /\ h # <<>> => Last(h).to = saw["identity"].key

Admits(k, r, saw) ==
    \/ k = "identity" /\ IdentityOk(r, saw)
    \/ k = "dar" /\ DarOk(r, saw)
    \/ k = "removal" /\ RemovalOk(r, saw)
    \/ k = "block" /\ BlockOk(r, saw)
    \/ k = "history" /\ HistoryOk(r, saw)

-----------------------------------------------------------------------------
(* A push                                                                  *)

Init ==
    /\ held \in Stores
    /\ job = [p \in Procs |-> None]
    /\ pushes = 0 /\ faults = 0
    /\ lost = {} /\ raced = FALSE

\* handlePutRecord or FanOutRecord hands a record to AcceptRecord.
Push(p, k, r) ==
    /\ job[p] = None /\ pushes < MaxPushes
    /\ job' = [job EXCEPT ![p] = [kind |-> k, rec |-> r, done |-> 0, saw |-> Nothing]]
    /\ pushes' = pushes + 1
    /\ UNCHANGED <<held, faults, ghost>>

ReadAll(p) == job[p] # None /\ job[p].done = Len(Reads(job[p].kind))

Slot(p) == Reads(job[p].kind)[job[p].done + 1]

\* The kind of record that handler p finds in slot s.
Source(p, s) == IF s = "again" THEN job[p].kind ELSE s

Saw(p, v) ==
    /\ job[p] # None /\ ~ReadAll(p)
    /\ job' = [job EXCEPT ![p].done = @ + 1, ![p].saw[Slot(p)] = v]

Read(p) ==
    /\ job[p] # None /\ ~ReadAll(p)
    /\ Saw(p, held[Source(p, Slot(p))])
    /\ UNCHANGED <<held, pushes, faults, ghost>>

\* The datastore's error is dropped, and the record taken for absent.
ReadFails(p) ==
    /\ faults < MaxFaults
    /\ Saw(p, None)
    /\ faults' = faults + 1
    /\ UNCHANGED <<held, pushes, ghost>>

Finish(p) == job' = [job EXCEPT ![p] = None] /\ UNCHANGED <<pushes, faults>>

\* The decision of p rests on what the store holds.
Grounded(p) ==
    \A i \in 1..Len(Reads(job[p].kind)) :
        LET s == Reads(job[p].kind)[i] IN job[p].saw[s] = held[Source(p, s)]

\* Key k, which the address is bound to, has signed it away to record r.
SignedAway(k, r) ==
    /\ r.chain # <<>>
    /\ Last(r.chain).from = k /\ Last(r.chain).to = r.key
    /\ Last(r.chain).by \in {k, held["identity"].recovery}

\* The key that identity record r takes the address from, under the domain's
\* authority.
TakenBy(r) ==
    LET old == held["identity"]
    IN  IF old = None \/ held["dar"] = None THEN {}
        ELSE {old.key} \ ({r.key} \cup {k \in {old.key} : SignedAway(k, r)})

Put(p) ==
    /\ ReadAll(p)
    /\ Admits(job[p].kind, job[p].rec, job[p].saw)
    /\ held' = [held EXCEPT ![job[p].kind] = job[p].rec]
    /\ lost' = IF job[p].kind = "identity" THEN lost \cup TakenBy(job[p].rec) ELSE lost
    /\ raced' = (raced \/ ~Grounded(p))
    /\ Finish(p)

\* Refused by the rules; or an identity that has expired or that meets the limit
\* on rotations; or a history that is held already; or the write fails.
Refuse(p) ==
    /\ ReadAll(p)
    /\ UNCHANGED <<held, ghost>>
    /\ Finish(p)

\* The node starts again, and writes the DAR of its join bundle, if it has one and
\* the write succeeds, over whatever is held (seedOwnRecords).
Restart(d) ==
    /\ faults < MaxFaults
    /\ faults' = faults + 1
    /\ job' = [p \in Procs |-> None]
    /\ held' = IF d = None THEN held ELSE [held EXCEPT !["dar"] = d]
    /\ raced' = (raced \/ held["dar"] \notin {None, held'["dar"]})
    /\ UNCHANGED <<pushes, lost>>

Next ==
    \/ \E p \in Procs :
        \/ \E k \in Kinds : \E r \in Records(k) : Push(p, k, r)
        \/ Read(p) \/ ReadFails(p) \/ Put(p) \/ Refuse(p)
    \/ \E d \in Bundled \cup {None} : Restart(d)

Spec == Init /\ [][Next]_vars

-----------------------------------------------------------------------------
(* Properties.                                                             *)

Tombstoned == IF RootSigned(held["dar"], held["removal"]) THEN held["removal"].keys ELSE {}

\* The write of p moves no record back.
Succeeds(p) ==
    LET k   == job[p].kind
        old == held[k]
        new == held'[k]
    IN  old # None =>
        /\ k \in {"identity", "removal"} => new.rev >= old.rev
        /\ k = "dar" => old.root \in Roots(new) /\ (new = old \/ new.rev > old.rev)
        /\ k = "removal" =>
              /\ old.keys \subseteq new.keys
              /\ RootSigned(held["dar"], old) => RootSigned(held["dar"], new)
        /\ k = "block" /\ RootSigned(held["dar"], old) => new.rev >= old.rev
        /\ k = "history" => Len(new) >= Len(old)

EndsInLiveKey(p) ==
    job[p].kind = "history" /\ held'["history"] # <<>> =>
        Last(held'["history"]).to = held["identity"].key

\* AcceptRecord keeps the store "closed under legitimate succession": whatever is
\* pushed and in whatever order, a write that rests on what the store holds moves
\* no record back.  Revisions do not fall; a DAR acknowledges the root before it and
\* changes only with its revision; no tombstone is dropped and no owner displaces
\* the root; a history does not shrink, and ends in the key that the address has.
SuccessionHolds ==
    [][\A p \in Procs : Put(p) /\ Grounded(p) =>
        Succeeds(p) /\ EndsInLiveKey(p)]_vars

\* An address that its domain has authority over is not taken from a key: as long as
\* writes rest on what the store holds, a key that lost the address without having
\* signed it away, itself or by the recovery key it published, is tombstoned by the
\* root, and stays so whatever is pushed later, other roots included.
NotTakenWithoutRoot ==
    ~raced => lost \subseteq Tombstoned

\* "An offboarded key whose binding the root freed must not be able to argue its way
\* back by presenting a chain": a tombstoned key takes the address again only from a
\* key that is tombstoned too.
OffboardedStaysOut ==
    [][\A p \in Procs : Put(p) /\ Grounded(p) /\ held["identity"] # None =>
        LET old == held["identity"].key
            new == held'["identity"].key
        IN  new # old /\ new \in Tombstoned => old \in Tombstoned]_vars
=============================================================================
