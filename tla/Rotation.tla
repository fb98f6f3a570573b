------------------------------ MODULE Rotation ------------------------------
(***************************************************************************)
(* An account from its first key to its latest: enrolment                  *)
(* (lib/crypto/enrollment.ts, app/pages/Register.tsx) and the re-keying    *)
(* ceremony (lib/crypto/rotation.ts, retiredKeys.ts), which replaces the   *)
(* keypair of the account and of every address that shares it, step by     *)
(* step, on a device that may stop at any step and resume from the         *)
(* checkpoint it finds.                                                    *)
(*                                                                         *)
(* The steps are injected (RotationSteps) and nothing under src/ calls     *)
(* runRotation yet, so a step is modelled by the effect its comment gives  *)
(* it.  A step that throws and a tab that dies are one action, Stop: both  *)
(* leave what the disk holds.  The caller is taken to resume a checkpoint  *)
(* before it starts another ceremony.                                      *)
(***************************************************************************)
EXTENDS Lineage, FiniteSets

CONSTANTS Account, Aliases,   \* the account's address and the siblings of it
          Device,             \* the enrolled device's signing key
          MaxKeys,            \* bound: keypairs generated
          MaxTime,            \* bound: the clock, in seconds
          MaxActs             \* bound: senders the owner blocks

Addresses == {Account} \cup Aliases
Keys == 1..MaxKeys

ASSUME RotationAssumption ==
    /\ Account \notin Aliases /\ None \notin Keys
    /\ MaxKeys \in Nat /\ MaxTime \in Nat /\ MaxActs \in Nat

VARIABLES dir,      \* address -> what the directory serves: record, history, removal
          relay,    \* the mailbox: its owner key, its block list and the key that seals it
          disk,     \* this device: keystore, staged key, checkpoint, retired ring, session, push
          run,      \* the enrolment or ceremony under way, Idle between
          late,     \* a publish given up on that may still land, None when there is none
          now, minted, acts,
          blocked,  \* the senders the owner has blocked
          accused,  \* keys declared stolen
          left,     \* the keys the account has left in the directory, and when
          flaws     \* what went wrong in ways the code knows nothing of

vars == <<dir, relay, disk, run, late, now, minted, acts, blocked, accused, left, flaws>>
world == <<dir, relay, late, now, minted, acts, blocked, accused, left>>

-----------------------------------------------------------------------------
(* Values *)

Current == dir[Account].record.key
NoServed == [record |-> [key |-> None], history |-> None, removal |-> None]
NoMailbox == [owner |-> None, list |-> {}, seal |-> None]
NoCheckpoint == [phase |-> "none"]
NoDisk == [keys |-> None, staged |-> None, cp |-> NoCheckpoint, ring |-> {}, session |-> None, push |-> None]
Idle == [stage |-> "idle"]
Kept == {r.key : r \in disk.ring}
\* Every key of which this device holds what opens mail sealed to it.
Held == {disk.keys, disk.staged} \cup Kept
\* Every key the account has had in the directory.
Bound == ({Current} \cup {l.key : l \in left}) \ {None}

At(s) == run.stage = s
To(s) == run' = [run EXCEPT !.stage = s]
Local == UNCHANGED <<world, flaws>>

\* identity.AuthorizeRebind and AcceptRecord: a record of the same key may not
\* be older; one of another key comes with a chain that ends at the stored one.
Accepts(old, rec) ==
    IF rec.key = old.key THEN rec.rev >= old.rev
    ELSE /\ rec.chain # <<>> /\ VerifyRecordChain(rec) /\ rec.rev > old.rev
         /\ LET last == rec.chain[Len(rec.chain)]
            IN  last.retired = old.key /\ last.authorizing = old.key

\* The publish call: all the account's addresses, or none.
Lands(bundle) == \A a \in Addresses : Accepts(dir[a].record, bundle[a].record)
Published(bundle) ==
    [a \in Addresses |-> [record |-> bundle[a].record, history |-> bundle[a].history,
                          removal |-> dir[a].removal]]
Left(bundle) ==
    LET chain == bundle[Account].record.chain
    IN  left \cup {[key |-> Current, at |-> chain[Len(chain)].at]}

-----------------------------------------------------------------------------
(* Enrolment *)

\* enrollIdentity: the keypair is generated and its record self-signed.
EnrollIdentity ==
    /\ At("idle") /\ disk.keys = None /\ Current = None /\ minted < MaxKeys
    /\ minted' = minted + 1
    /\ run' = [stage |-> "register", next |-> minted + 1]
    /\ UNCHANGED <<dir, relay, disk, late, now, acts, blocked, accused, left, flaws>>

\* register: the operator publishes the record; the answer may be lost.  The
\* account's aliases, which answer to the same key, are added here.
Register(answered) ==
    /\ At("register") /\ Current = None
    /\ dir' = [a \in Addresses |-> [record |-> BuildSelfSignedRecord(a, run.next),
                                    history |-> None, removal |-> None]]
    /\ relay' = [owner |-> run.next, list |-> {}, seal |-> run.next]
    /\ IF answered THEN run' = [run EXCEPT !.stage = "persist"] /\ UNCHANGED flaws
       ELSE run' = Idle /\ flaws' = flaws \cup {"unsaved"}
    /\ UNCHANGED <<disk, late, now, minted, acts, blocked, accused, left>>

\* persistIdentity, only now that the address is accepted; then the sign-in.
PersistIdentity ==
    /\ At("persist")
    /\ disk' = [disk EXCEPT !.keys = run.next] /\ run' = [run EXCEPT !.stage = "sign in"]
    /\ UNCHANGED <<world, flaws>>
SignInWithEnrolled ==
    /\ At("sign in")
    /\ disk' = [disk EXCEPT !.session = run.next] /\ run' = Idle
    /\ UNCHANGED <<world, flaws>>

-----------------------------------------------------------------------------
(* The ceremony *)

\* runRotation is called with what the directory holds, and a severity.
Begin(stolen) ==
    /\ At("idle") /\ disk.cp = NoCheckpoint /\ disk.keys # None
    /\ run' = [stage |-> "sign", inputs |-> dir, stolen |-> stolen]
    /\ UNCHANGED <<world, disk, flaws>>

\* encodeHistory: the complete line, not the window the record carries.
PriorHistory(served) == IF served.history = None THEN <<>> ELSE served.history.chain
\* Mutant: the history is cut to the window that a record carries.
HistoryCapped(a, served, entry) ==
    [address |-> a, chain |-> Cap(Append(PriorHistory(served), entry))]
History(a, served, entry) == [address |-> a, chain |-> Append(PriorHistory(served), entry)]

Bundle(inputs, next, at) ==
    [a \in Addresses |->
        LET e == Entry(a, inputs[a].record, disk.keys, next, Device, at)
        IN  [record |-> Rekey(inputs[a].record, e), history |-> History(a, inputs[a], e)]]
\* The tombstones of a compromised re-key, None where the key has one.
Compromise(inputs, next, at) ==
    [a \in Addresses |-> SignCompromise(a, inputs[a].removal, disk.keys, next, at)]

\* The clock is read here and nowhere else: in the second of the last reading
\* or a later one, of which one is enough since readings are only compared.
SignRotation(at) ==
    /\ At("sign") /\ minted < MaxKeys /\ at \in {now, now + 1}
    /\ minted' = minted + 1 /\ now' = at
    /\ LET next == minted + 1 IN
       run' = [stage |-> "filter", next |-> next, old |-> disk.keys, at |-> at, filter |-> None,
               bundle |-> Bundle(run.inputs, next, at),
               stolen |-> IF run.stolen THEN Compromise(run.inputs, next, at) ELSE None]
    /\ UNCHANGED <<dir, relay, disk, late, acts, blocked, accused, left, flaws>>

\* readMailFilter: while the old key still opens it.
ReadMailFilter ==
    /\ At("filter")
    /\ run' = [run EXCEPT !.stage = "stage", !.filter = IF relay.seal = run.old THEN relay.list ELSE None]
    /\ Local /\ UNCHANGED disk
\* Mutant: the incoming key is not on disk before it is published.
StageKeysNot == At("stage") /\ To("signed") /\ Local /\ UNCHANGED disk
StageKeys ==
    /\ At("stage") /\ disk' = [disk EXCEPT !.staged = run.next] /\ To("signed") /\ Local

\* Mutant: the block list is not among what is saved.
CheckpointNoFilter(phase) ==
    [phase |-> phase, old |-> run.old, next |-> run.next, at |-> run.at,
     filter |-> None, stolen |-> run.stolen]
\* Mutant: neither are the tombstones.
CheckpointNoStolen(phase) ==
    [phase |-> phase, old |-> run.old, next |-> run.next, at |-> run.at,
     filter |-> run.filter, stolen |-> None]
Checkpoint(phase) ==
    [phase |-> phase, old |-> run.old, next |-> run.next, at |-> run.at,
     filter |-> run.filter, stolen |-> run.stolen]
SaveSigned ==
    /\ At("signed") /\ disk' = [disk EXCEPT !.cp = Checkpoint("signed")] /\ To("publish") /\ Local

\* publish: taken and answered; taken and the answer lost; refused or not
\* delivered; or given up on while it is still under way.
Publish(outcome) ==
    /\ At("publish")
    /\ IF outcome \in {"ok", "lost"}
       THEN /\ Lands(run.bundle) /\ dir' = Published(run.bundle) /\ left' = Left(run.bundle)
            /\ accused' = IF run.stolen # None THEN accused \cup {run.old} ELSE accused
       ELSE UNCHANGED <<dir, left, accused>>
    /\ late' = IF outcome = "late" THEN run.bundle ELSE late
    /\ To(IF outcome = "ok" THEN "published" ELSE "ask")
    /\ UNCHANGED <<relay, disk, now, minted, acts, blocked, flaws>>
Land ==
    /\ late # None /\ Lands(late)
    /\ dir' = Published(late) /\ left' = Left(late) /\ late' = None /\ flaws' = flaws \cup {"late"}
    /\ UNCHANGED <<relay, disk, run, now, minted, acts, blocked, accused>>

\* A publish that failed may have landed: the directory is asked.
Ask ==
    /\ At("ask")
    /\ IF Current = run.next THEN To("published") ELSE run' = Idle
    /\ Local /\ UNCHANGED disk
SavePublished ==
    /\ At("published") /\ disk' = [disk EXCEPT !.cp = Checkpoint("published")] /\ To("declare") /\ Local

\* declareStolen: each tombstone is taken by a directory that holds the
\* incoming key's record and fewer tombstones.
Declared(a) ==
    IF /\ run.stolen # None /\ run.stolen[a] # None /\ run.stolen[a].self.by = dir[a].record.key
       /\ Removed(dir[a].removal) \subseteq Removed(run.stolen[a])
    THEN run.stolen[a] ELSE dir[a].removal
DeclareStolen ==
    /\ At("declare") /\ To("rename")
    /\ dir' = [a \in Addresses |-> [dir[a] EXCEPT !.removal = Declared(a)]]
    /\ UNCHANGED <<relay, disk, late, now, minted, acts, blocked, accused, left, flaws>>

\* renameMailbox: the relay cannot re-seal the block list, and drops it.
RenameMailbox ==
    /\ At("rename") /\ To("rekeyed")
    /\ relay' = IF relay.owner = run.next THEN relay
                ELSE [owner |-> run.next, list |-> {}, seal |-> run.next]
    /\ UNCHANGED <<dir, disk, late, now, minted, acts, blocked, accused, left, flaws>>
SaveRekeyed ==
    /\ At("rekeyed") /\ To("push") /\ Local
    /\ disk' = [disk EXCEPT !.cp = [Checkpoint("rekeyed") EXCEPT !.filter = None, !.stolen = None]]

TearDownPush ==
    /\ At("push") /\ To("retain") /\ Local
    /\ disk' = [disk EXCEPT !.push = IF @ = disk.keys THEN None ELSE @]

\* retainRetiredFromKeyPair: the outgoing generation, unless it is kept already.
\* A ring that cannot be read counts as empty, and is written over.
Retained(ring, k, at) ==
    IF k \in {r.key : r \in ring} THEN ring
    ELSE ring \cup {[generation |-> Cardinality(ring), key |-> k, at |-> at]}
RetainRetired(readable) ==
    /\ At("retain") /\ To("commit") /\ UNCHANGED world
    /\ disk' = [disk EXCEPT !.ring = Retained(IF readable THEN @ ELSE {}, run.old, run.at)]
    /\ flaws' = IF readable \/ Kept = {} THEN flaws ELSE flaws \cup {"unread"}
CommitKeys ==
    /\ At("commit") /\ To("session") /\ Local
    /\ disk' = [disk EXCEPT !.keys = run.next, !.staged = None]
ReestablishSessions ==
    /\ At("session") /\ To("restore") /\ Local
    /\ disk' = [disk EXCEPT !.session = run.next]

\* writeMailFilter: what was read before the publish, whatever is there now.
WriteMailFilter ==
    /\ At("restore") /\ To("clear")
    /\ relay' = IF run.filter = None THEN relay ELSE [relay EXCEPT !.list = run.filter]
    /\ UNCHANGED <<dir, disk, late, now, minted, acts, blocked, accused, left, flaws>>
\* Detaching the shared unlock and re-sealing storage change nothing here.
ClearCheckpoint ==
    /\ At("clear") /\ run' = Idle /\ disk' = [disk EXCEPT !.cp = NoCheckpoint] /\ Local

\* resumeRotation: a checkpoint at `signed' is finished if the directory has
\* the new key and dropped otherwise; a later one is finished from the top.
Resume ==
    /\ At("idle") /\ disk.cp # NoCheckpoint
    /\ run' = [stage |-> IF disk.cp.phase = "signed" THEN "resume" ELSE "declare",
               next |-> disk.cp.next, old |-> disk.cp.old, at |-> disk.cp.at,
               filter |-> disk.cp.filter, stolen |-> disk.cp.stolen]
    /\ flaws' = IF disk.cp.phase = "rekeyed" THEN flaws \cup {"no filter"} ELSE flaws
    /\ UNCHANGED <<world, disk>>
ResumeSigned ==
    /\ At("resume")
    /\ IF Current = run.next THEN To("declare") /\ UNCHANGED disk
       ELSE run' = Idle /\ disk' = [disk EXCEPT !.cp = NoCheckpoint]
    /\ Local

\* A step throws, or the tab dies.
Stop ==
    /\ ~At("idle") /\ run' = Idle
    /\ flaws' = IF run.stage = "persist" THEN flaws \cup {"unsaved"} ELSE flaws
    /\ UNCHANGED <<world, disk>>

-----------------------------------------------------------------------------
(* Meanwhile *)

\* The owner blocks a sender: the list is read, extended and put back.
Block(s) ==
    /\ Current # None /\ acts < MaxActs /\ acts' = acts + 1 /\ s \notin blocked
    /\ blocked' = blocked \cup {s}
    /\ relay' = [relay EXCEPT !.list = @ \cup {s}]
    /\ flaws' = IF At("idle") /\ disk.cp = NoCheckpoint THEN flaws ELSE flaws \cup {"block amid"}
    /\ UNCHANGED <<dir, disk, run, late, now, minted, accused, left>>
RegisterPush ==
    /\ At("idle") /\ disk.keys # None /\ disk.session = disk.keys /\ disk.push = None
    /\ disk' = [disk EXCEPT !.push = disk.keys]
    /\ UNCHANGED <<world, run, flaws>>

Init ==
    /\ dir = [a \in Addresses |-> NoServed] /\ relay = NoMailbox /\ disk = NoDisk /\ run = Idle /\ late = None
    /\ now = 1 /\ minted = 0 /\ acts = 0
    /\ blocked = {} /\ accused = {} /\ left = {} /\ flaws = {}

Senders == 1..MaxActs
Next ==
    \/ EnrollIdentity \/ (\E b \in BOOLEAN : Register(b)) \/ PersistIdentity \/ SignInWithEnrolled
    \/ (\E b \in BOOLEAN : Begin(b)) \/ (\E t \in 1..MaxTime : SignRotation(t)) \/ ReadMailFilter \/ StageKeys \/ SaveSigned
    \/ (\E o \in {"ok", "lost", "fail", "late"} : Publish(o)) \/ Land \/ Ask \/ SavePublished
    \/ DeclareStolen \/ RenameMailbox \/ SaveRekeyed \/ TearDownPush \/ (\E b \in BOOLEAN : RetainRetired(b)) \/ CommitKeys
    \/ ReestablishSessions \/ WriteMailFilter \/ ClearCheckpoint \/ Resume \/ ResumeSigned \/ Stop
    \/ (\E s \in Senders : Block(s)) \/ RegisterPush
Spec == Init /\ [][Next]_vars

-----------------------------------------------------------------------------
(* Properties *)

\* Whatever step the ceremony stopped at, this device holds the key the
\* directory binds the address to and every key it was bound to before: mail
\* sealed to any of them can be read.  Three accidents excepted: a registration
\* that succeeded without its answer or its keystore write, a publish that
\* lands after the directory was asked about it, and a ring that could not be
\* read when a key was added to it.
KeysHeld == At("idle") /\ flaws \cap {"unsaved", "late", "unread"} = {} => Bound \subseteq Held

\* A contact who pinned any earlier key of an address, however many re-keys
\* ago, is shown that it was replaced and when, from what the directory serves.
Explained ==
    \A a \in Addresses : \A l \in left :
        LET why == ExplainKeyChange(a, l.key, dir[a])
        IN  why.kind \in {"replaced", "reported-stolen"} /\ why.at = l.at

\* A key declared stolen is reported so at every address of the account once
\* the ceremony is over, however often it was interrupted, until the account
\* changes its key again.
StolenDeclared ==
    At("idle") /\ disk.cp = NoCheckpoint /\ "late" \notin flaws /\ Current # None =>
        \A a \in Addresses : dir[a].record.chain # <<>> =>
            LET k == dir[a].record.chain[Len(dir[a].record.chain)].retired
            IN  k \in accused => ExplainKeyChange(a, k, dir[a]).kind = "reported-stolen"

\* What hangs on the mailbox key follows the re-key: the block list is back
\* when the ceremony is over (unless it was resumed after the mailbox moved, or
\* the owner blocked someone meanwhile), and no push registration is left of a
\* key the keystore no longer has, by which alone it could be withdrawn.
MailboxFollows ==
    /\ At("idle") /\ disk.cp = NoCheckpoint /\ flaws \cap {"late", "no filter", "block amid"} = {} =>
           relay.list = blocked
    /\ disk.push \in {None, disk.keys}
=============================================================================
