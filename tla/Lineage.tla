------------------------------- MODULE Lineage -------------------------------
(***************************************************************************)
(* The lineage of an address: what its owner signs when the address passes *)
(* from one key to the next (lib/crypto/rotation.ts), how a reader checks  *)
(* it (lib/crypto/verifyRotation.ts), and what it tells a contact about    *)
(* the key they pinned (lib/trust/lineage.ts).                             *)
(*                                                                         *)
(* A signature is modelled by its signer and what it covers; a key stands  *)
(* for its Ed25519 and X25519 halves, which change together.  Wording,     *)
(* sizes and encodings are left out: Wire.tla has the encoders.            *)
(***************************************************************************)
EXTENDS Integers, Sequences

CONSTANTS MaxChain,   \* MAX_ROTATION_CHAIN
          None

ASSUME LineageAssumption == MaxChain \in Nat \ {0, 1}

Sign(k, body) == [by |-> k, over |-> body]
Verify(k, body, sig) == sig = Sign(k, body)
\* prev_signature_hash: empty on the first transition of an address.
NoHash == <<>>
\* The hash of a consent, told from the others of its address by all the
\* transition says but the hash of its predecessor.
Hash(sig) == SubSeq(sig.over[1], 1, 7)

-----------------------------------------------------------------------------
(* One transition.  Its three signatures nest: the device attests, the     *)
(* outgoing key consents, the incoming key accepts.                        *)

DeviceBytes(e) == <<e.address, e.retired, e.next, e.authorizing, e.device, e.at, e.rev, e.prev>>
ConsentBytes(e) == <<DeviceBytes(e), e.attest>>
AcceptBytes(e) == <<ConsentBytes(e), e.signature>>

\* The entry of the handover of address a, whose record is rec, from the key
\* `current' of this device to key next.
Entry(a, rec, current, next, device, at) ==
    LET prior == rec.chain
        body == [address |-> a, retired |-> current, next |-> next, authorizing |-> current,
                 device |-> device, at |-> at, rev |-> rec.rev + 1,
                 prev |-> IF prior = <<>> THEN NoHash ELSE Hash(prior[Len(prior)].signature)]
        attest == Sign(device, DeviceBytes(body))
        consent == Sign(current, <<DeviceBytes(body), attest>>)
        accept == Sign(next, <<<<DeviceBytes(body), attest>>, consent>>)
    IN  [address |-> a, retired |-> body.retired, next |-> next, authorizing |-> body.authorizing,
         device |-> device, at |-> at, rev |-> body.rev, prev |-> body.prev,
         attest |-> attest, signature |-> consent, accept |-> accept]

VerifyRotationEntry(e) ==
    /\ e.retired # e.next /\ e.at # 0 /\ e.rev # 0
    /\ Verify(e.authorizing, ConsentBytes(e), e.signature)
    /\ IF e.device = None THEN e.attest = None ELSE Verify(e.device, DeviceBytes(e), e.attest)
    /\ Verify(e.next, AcceptBytes(e), e.accept)

\* The entries are one unbroken line of one address.
VerifyChainLinks(chain, a) ==
    \A i \in 1..Len(chain) :
        /\ VerifyRotationEntry(chain[i]) /\ chain[i].address = a
        /\ i > 1 => LET e == chain[i]
                        p == chain[i - 1]
                    IN  /\ e.retired = p.next /\ e.prev = Hash(p.signature)
                        /\ e.at > p.at /\ e.rev > p.rev

ChainTruncated(chain) == Len(chain) > 0 /\ chain[1].prev # NoHash

\* The window a record carries, of the complete history.
Capped(chain) == SubSeq(chain, Len(chain) - MaxChain + 1, Len(chain))
Cap(chain) == IF Len(chain) > MaxChain THEN Capped(chain) ELSE chain

-----------------------------------------------------------------------------
(* The owner's records: an identity record, the complete history of the    *)
(* address, and the tombstones of the keys declared stolen.                *)

RecordBytes(r) == <<r.address, r.key, r.rev, r.chain>>
Signed(r) == [address |-> r.address, key |-> r.key, rev |-> r.rev, chain |-> r.chain,
              self |-> Sign(r.key, RecordBytes(r))]

\* enrollment.ts: the first record of an address.
BuildSelfSignedRecord(a, k) ==
    Signed([address |-> a, key |-> k, rev |-> 1, chain |-> <<>>])

\* rekey(): all that the owner signs is inherited but the keys, the revision and the chain.
Rekey(rec, entry) ==
    Signed([address |-> rec.address, key |-> entry.next, rev |-> entry.rev,
            chain |-> Cap(Append(rec.chain, entry))])

RemovalBytes(rm) == <<rm.address, rm.bindings, rm.rev>>
Removed(rm) == IF rm = None THEN {} ELSE {b.key : b \in rm.bindings}
\* The tombstones of address a with the retired key added; None if it is there.
SignCompromise(a, prior, retired, next, at) ==
    LET old == IF prior = None THEN {} ELSE prior.bindings
        rm == [address |-> a, bindings |-> old \cup {[key |-> retired, at |-> at]},
               rev |-> (IF prior = None THEN 0 ELSE prior.rev) + 1]
    IN  IF retired \in Removed(prior) THEN None
        ELSE [address |-> rm.address, bindings |-> rm.bindings, rev |-> rm.rev,
              self |-> Sign(next, RemovalBytes(rm))]

\* The chain a record carries holds, and lands on that record.
VerifyRecordChain(rec) ==
    rec.chain # <<>> =>
        LET last == rec.chain[Len(rec.chain)]
        IN  /\ Len(rec.chain) <= MaxChain /\ VerifyChainLinks(rec.chain, rec.address)
            /\ last.next = rec.key /\ last.rev = rec.rev

VerifyHistory(h, a) ==
    h.address = a /\ ~ChainTruncated(h.chain) /\ VerifyChainLinks(h.chain, a)

-----------------------------------------------------------------------------
(* What became of the key a contact pinned, from one directory answer.     *)

Unexplained == [kind |-> "unexplained"]

\* The first transition of the chain that retired the pinned key, or None.
RetiredAt(chain, pinned) ==
    LET hits == {i \in 1..Len(chain) : chain[i].retired = pinned}
        e == chain[CHOOSE i \in hits : \A j \in hits : i <= j]
    IN  IF hits = {} THEN None
        ELSE [kind |-> IF e.authorizing = pinned THEN "replaced" ELSE "recovered", at |-> e.at]

RetiredInLineage(a, pinned, rec, history) ==
    LET onRecord == RetiredAt(rec.chain, pinned)
    IN  IF onRecord # None THEN onRecord
        ELSE IF \/ history = None
                \/ ~VerifyHistory(history, a)
                \/ history.chain = <<>>
                \/ history.chain[Len(history.chain)].next # rec.key
             THEN None
        ELSE RetiredAt(history.chain, pinned)

\* Only a tombstone signed by the key the address is bound to now counts.
DeclaredStolen(a, pinned, rec, removal) ==
    IF \/ removal = None
       \/ removal.address # a
       \/ pinned \notin Removed(removal)
       \/ ~Verify(rec.key, RemovalBytes(removal), removal.self)
    THEN None
    ELSE [kind |-> "reported-stolen",
          at |-> (CHOOSE b \in removal.bindings : b.key = pinned).at]

ExplainKeyChange(a, pinned, served) ==
    LET rec == served.record
        stolen == DeclaredStolen(a, pinned, rec, served.removal)
        handover == RetiredInLineage(a, pinned, rec, served.history)
    IN  IF \/ rec.address # a
           \/ ~Verify(rec.key, RecordBytes(rec), rec.self)
           \/ ~VerifyRecordChain(rec)
        THEN Unexplained
        ELSE IF stolen # None THEN stolen
        ELSE IF handover # None THEN handover
        ELSE Unexplained

\* loadKeyChange: a directory that does not answer explains nothing.
LoadKeyChange(a, pinned, served) ==
    IF served = None THEN Unexplained ELSE ExplainKeyChange(a, pinned, served)
=============================================================================
