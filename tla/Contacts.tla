------------------------------- MODULE Contacts -------------------------------
(***************************************************************************)
(* One contact in the address book of an account that several devices have *)
(* open: lib/hooks/useContacts.ts over lib/api/contactStore.ts (the synced *)
(* copy on the relay) and lib/trust/pinStore.ts (the copy of each device). *)
(* Every await of the code ends a step, so loads, repairs, lazy pins and   *)
(* what the person does interleave, on one device and between devices.     *)
(***************************************************************************)
EXTENDS Trust

CONSTANTS Devices,
          Slow,        \* devices whose calls others overtake (a bound of the instance)
          Old,         \* devices that may hold an address book from before syncing
          Answers,     \* what the directory may say of the address
          Messages, Filters,
          MaxActs,     \* things the person does, failing calls, dying tabs, migrations
          MaxTurns     \* changes of the directory

VARIABLES dir,      \* the directory's answer
          row,      \* the contact on the relay, or None
          pins,     \* this device's pin in IndexedDB, or None
          recs,     \* the contact as this device's app sees it, or None
          alerts,   \* pinAlerts
          sure,     \* recs was reconciled with the pin this device holds now
          legacy,   \* an address book from before syncing: "none", "due", or "later"
          job,      \* calls in flight: a load, an act of the person, a lazy pin
          acts, turns

vars == <<dir, row, pins, recs, alerts, sure, legacy, job, acts, turns>>

Jobs == Devices \X {"load", "act", "pin"}

Blank == [prov |-> FALSE, ed |-> 0, x |-> 0, cust |-> FALSE, noId |-> FALSE, seq |-> 0]

\* The contact with the facts f (reconciled ones carry no noIdentity) and sequence.
WithFacts(c, f, n) == [c EXCEPT !.ed = f.ed, !.x = f.x, !.cust = f.cust, !.seq = n]

\* A write to the row makes every version read before it stale; a row whose
\* version still holds is the row that was read.
Stale(jb) == [j \in Jobs |->
    IF job[j] # None /\ job[j].step \in {"heal put", "pin put", "name put"} THEN [job[j] EXCEPT !.clean = FALSE] ELSE job[j]]
Write(j, c, after) == row' = c /\ job' = [Stale(job) EXCEPT ![j] = after]
Go(j, after) == job' = [job EXCEPT ![j] = after]
\* A call to the relay fails, without effect.
Fail == acts < MaxActs /\ acts' = acts + 1
See(d, c, r) == recs' = [recs EXCEPT ![d] = c] /\ sure' = [sure EXCEPT ![d] = r]
----------------------------------------------------------------------------
\* load(): the list, then applyLocalPins() over this device's pins, and the view.
LoadList(d) ==
    LET j == <<d, "load">> IN
    /\ job[j] = None /\ legacy[d] # "due"
    /\ Go(j, [step |-> "list", row |-> row])
    /\ UNCHANGED <<dir, row, pins, recs, alerts, sure, legacy, acts, turns>>

\* Mutant: the synced copy is shown, whatever this device holds.
ShownSynced(c, do) == c

\* The contact with the facts reconcilePin() settled on.
Shown(c, do) == IF do.facts = None THEN c ELSE WithFacts(c, do.facts, do.seq)

ApplyLocalPins(d) ==
    LET j == <<d, "load">>
        c == job[j].row
        do == ReconcilePin(pins[d], ContactFacts(c), c.seq)
    IN  /\ job[j] # None /\ job[j].step = "list"
        /\ IF c = None
           THEN /\ See(d, None, TRUE) /\ alerts' = [alerts EXCEPT ![d] = None]
                /\ Go(j, None) /\ UNCHANGED pins
           ELSE /\ See(d, Shown(c, do), TRUE)
                /\ alerts' = [alerts EXCEPT ![d] = do.anomaly]
                /\ pins' = IF do.adopt = None THEN pins ELSE [pins EXCEPT ![d] = do.adopt]
                /\ Go(j, IF do.heal THEN [step |-> "heal get", facts |-> do.facts, seq |-> do.seq, clean |-> FALSE] ELSE None)
        /\ UNCHANGED <<dir, row, legacy, acts, turns>>

\* writePin(): read the row, write it back with the pin unless someone else
\* wrote in between or the call fails; both are swallowed.
HealGet(d) ==
    LET j == <<d, "load">> IN
    /\ job[j] # None /\ job[j].step = "heal get"
    /\ Go(j, IF row = None THEN None
             ELSE [job[j] EXCEPT !.step = "heal put", !.clean = TRUE])
    /\ UNCHANGED <<dir, row, pins, recs, alerts, sure, legacy, acts, turns>>

HealPut(d) ==
    LET j == <<d, "load">> IN
    /\ job[j] # None /\ job[j].step = "heal put"
    /\ \/ job[j].clean /\ Write(j, WithFacts(row, job[j].facts, Max({1, job[j].seq})), None) /\ UNCHANGED acts
       \/ ~job[j].clean /\ Go(j, None) /\ UNCHANGED <<row, acts>>
       \/ Fail /\ Go(j, None) /\ UNCHANGED row
    /\ UNCHANGED <<dir, pins, recs, alerts, sure, legacy, turns>>

\* migrateLegacy(): the old address book is put over whatever is there, before
\* the first load; after a failure, again when the provider mounts next.
MigrateLegacy(d) ==
    /\ legacy[d] = "due"
    /\ \/ Write(<<d, "load">>, Blank, None) /\ legacy' = [legacy EXCEPT ![d] = "none"] /\ UNCHANGED acts
       \/ Fail /\ legacy' = [legacy EXCEPT ![d] = "later"] /\ UNCHANGED <<row, job>>
    /\ UNCHANGED <<dir, pins, recs, alerts, sure, turns>>
Remount(d) == legacy' = [legacy EXCEPT ![d] = IF @ = "later" THEN "due" ELSE @]
----------------------------------------------------------------------------
Act(d) == job[<<d, "act">>] = None /\ acts < MaxActs /\ acts' = acts + 1
Acting(d, s) == job[<<d, "act">>] # None /\ job[<<d, "act">>].step = s

Allowed(p) == [prov |-> TRUE, ed |-> p.ed, x |-> p.x, cust |-> p.cust, noId |-> p.noId, seq |-> p.seq]

\* allowlist() with the directory's facts ("I trust the sender", confirmChange()):
\* the sequence after this device's own, the local pin, the row, the view.
Allow(d) ==
    LET p == MakePin(DirectoryFacts(dir), (IF pins[d] = None THEN 0 ELSE pins[d].seq) + 1) IN
    /\ Act(d)
    /\ pins' = [pins EXCEPT ![d] = p] /\ sure' = [sure EXCEPT ![d] = FALSE]
    /\ Go(<<d, "act">>, [step |-> "put", row |-> Allowed(p)])
    /\ UNCHANGED <<dir, row, recs, alerts, legacy, turns>>

\* allowlist() of a sender behind a bridge: by address, no pin.
AllowBridged(d) ==
    /\ Act(d)
    /\ Go(<<d, "act">>, [step |-> "put", row |-> [Blank EXCEPT !.prov = TRUE]])
    /\ UNCHANGED <<dir, row, pins, recs, alerts, sure, legacy, turns>>

AllowPut(d) ==
    LET j == <<d, "act">> IN
    /\ Acting(d, "put")
    /\ \/ /\ Write(j, job[j].row, None) /\ See(d, job[j].row, FALSE)
          /\ alerts' = [alerts EXCEPT ![d] = None] /\ UNCHANGED acts
       \/ Fail /\ Go(j, None) /\ UNCHANGED <<row, recs, sure, alerts>>
    /\ UNCHANGED <<dir, pins, legacy, turns>>

\* Contacts.handleAdd(): an address the view does not hold; the key is pinned
\* with it unless the directory has none that verifies.
AddContact(d) ==
    LET j == <<d, "act">>
        f == DirectoryFacts(dir)
    IN  /\ recs[d] = None /\ Act(d)
        /\ Write(j, Blank, IF f.ed = 0 \/ dir.bad THEN None ELSE [step |-> "pin", facts |-> f])
        /\ See(d, Blank, FALSE)
        /\ UNCHANGED <<dir, pins, alerts, legacy, turns>>

\* updateContact(): a rename, by version, tried twice; the view is the row.
Rename(d) ==
    /\ recs[d] # None /\ Act(d)
    /\ Go(<<d, "act">>, [step |-> "name", try |-> 1])
    /\ UNCHANGED <<dir, row, pins, recs, alerts, sure, legacy, turns>>

RenameGet(d) ==
    LET j == <<d, "act">> IN
    /\ Acting(d, "name")
    /\ Go(j, IF row = None THEN None
             ELSE [step |-> "name put", try |-> job[j].try, clean |-> TRUE])
    /\ UNCHANGED <<dir, row, pins, recs, alerts, sure, legacy, acts, turns>>

RenamePut(d) ==
    LET j == <<d, "act">> IN
    /\ Acting(d, "name put")
    /\ \/ /\ job[j].clean /\ Write(j, row, None)
          /\ IF recs[d] = None THEN UNCHANGED <<recs, sure>> ELSE See(d, row, FALSE)
          /\ UNCHANGED acts
       \/ /\ ~job[j].clean /\ Go(j, IF job[j].try = 1 THEN [step |-> "name", try |-> 2] ELSE None)
          /\ UNCHANGED <<row, recs, sure, acts>>
       \/ Fail /\ Go(j, None) /\ UNCHANGED <<row, recs, sure>>
    /\ UNCHANGED <<dir, pins, alerts, legacy, turns>>

\* removeContact(): the row, then this device's pin and view.
Remove(d) ==
    LET j == <<d, "act">> IN
    /\ recs[d] # None /\ Act(d)
    /\ Write(j, None, [step |-> "forget"])
    /\ UNCHANGED <<dir, pins, recs, alerts, sure, legacy, turns>>

Forget(d) ==
    /\ Acting(d, "forget")
    /\ pins' = [pins EXCEPT ![d] = None] /\ See(d, None, TRUE)
    /\ alerts' = [alerts EXCEPT ![d] = None]
    /\ Go(<<d, "act">>, None)
    /\ UNCHANGED <<dir, row, legacy, acts, turns>>
----------------------------------------------------------------------------
Pinning(j, s) == j[2] # "load" /\ job[j] # None /\ job[j].step = s

\* "A lazy pin never overwrites one this device already holds."
HoldsPin(d) == pins[d] # None

PinWith(j, f) ==
    IF HoldsPin(j[1]) THEN Go(j, None) /\ UNCHANGED <<pins, sure>>
    ELSE /\ Go(j, [step |-> "pin get", facts |-> f])
         /\ pins' = [pins EXCEPT ![j[1]] = MakePin(f, 1)] /\ sure' = [sure EXCEPT ![j[1]] = FALSE]

\* pinKey(): from the reader or the composer, for a contact without a key.
PinKey(d) ==
    LET f == DirectoryFacts(dir) IN
    /\ job[<<d, "pin">>] = None /\ recs[d] # None /\ recs[d].ed = 0 /\ f.ed # 0
    /\ acts < MaxActs /\ acts' = acts + 1
    /\ ~HoldsPin(d) /\ PinWith(<<d, "pin">>, f)
    /\ UNCHANGED <<dir, row, recs, alerts, legacy, turns>>

\* pinKey() of a contact just added.
PinAdded(d) ==
    LET j == <<d, "act">> IN
    /\ Pinning(j, "pin") /\ PinWith(j, job[j].facts)
    /\ UNCHANGED <<dir, row, recs, alerts, legacy, acts, turns>>

\* The view takes the facts if it still has no key.
PinSeen(d, f) ==
    IF recs[d] # None /\ recs[d].ed = 0 THEN See(d, WithFacts(recs[d], f, 1), sure[d]) ELSE UNCHANGED <<recs, sure>>

PinGet(j) ==
    /\ Pinning(j, "pin get")
    /\ IF row = None \/ row.ed # 0 THEN Go(j, None) /\ PinSeen(j[1], job[j].facts)
       ELSE Go(j, [step |-> "pin put", facts |-> job[j].facts, clean |-> TRUE]) /\ UNCHANGED <<recs, sure>>
    /\ UNCHANGED <<dir, row, pins, alerts, legacy, acts, turns>>

PinPut(j) ==
    /\ Pinning(j, "pin put")
    /\ \/ job[j].clean /\ Write(j, WithFacts(row, job[j].facts, 1), None) /\ UNCHANGED acts
       \/ ~job[j].clean /\ Go(j, None) /\ UNCHANGED <<row, acts>>
       \/ Fail /\ Go(j, None) /\ UNCHANGED row
    /\ PinSeen(j[1], job[j].facts)
    /\ UNCHANGED <<dir, pins, alerts, legacy, turns>>
----------------------------------------------------------------------------
\* A renewed session token empties the view and drops the load in flight.
Renew(d) ==
    /\ recs[d] # None /\ acts < MaxActs /\ acts' = acts + 1
    /\ See(d, None, TRUE) /\ alerts' = [alerts EXCEPT ![d] = None]
    /\ job' = [job EXCEPT ![<<d, "load">>] = IF @ # None /\ @.step = "list" THEN None ELSE @]
    /\ Remount(d) /\ UNCHANGED <<dir, row, pins, turns>>

\* The tab dies: what it had in flight is gone, what it stored stays.
Crash(d) ==
    /\ acts < MaxActs /\ acts' = acts + 1
    /\ \E j \in Jobs : j[1] = d /\ job[j] # None
    /\ See(d, None, TRUE) /\ alerts' = [alerts EXCEPT ![d] = None]
    /\ job' = [j \in Jobs |-> IF j[1] = d THEN None ELSE job[j]]
    /\ Remount(d) /\ UNCHANGED <<dir, row, pins, turns>>

Turn ==
    /\ turns < MaxTurns /\ turns' = turns + 1
    /\ dir' \in Answers \ {dir}
    /\ UNCHANGED <<row, pins, recs, alerts, sure, legacy, job, acts>>

\* The contact is unknown, or pinned on all devices.
Known(c, p) ==
    /\ row = c /\ pins = [d \in Devices |-> p] /\ recs = [d \in Devices |-> c]
Init ==
    /\ dir \in {a \in Answers : a.ed = 1}
    /\ LET p == MakePin(DirectoryFacts(dir), 1) IN
       Known(None, None) \/ Known(Allowed(p), p)
    /\ alerts = [d \in Devices |-> None] /\ sure = [d \in Devices |-> TRUE]
    /\ job = [j \in Jobs |-> None]
    /\ \E o \in Old \cup {None} :
        /\ legacy = [d \in Devices |-> IF d = o THEN "due" ELSE "none"]
        /\ acts = IF o = None THEN 0 ELSE 1
    /\ turns = 0

Loads(d) == LoadList(d) \/ ApplyLocalPins(d) \/ HealGet(d) \/ HealPut(d) \/ MigrateLegacy(d)
Acts(d) ==
    \/ Allow(d) \/ AllowBridged(d) \/ AllowPut(d)
    \/ AddContact(d) \/ Rename(d) \/ RenameGet(d) \/ RenamePut(d) \/ Remove(d) \/ Forget(d)
\* A device that is not slow finishes what it has in flight before others move.
Turned(d) == {j \in Jobs : j[1] \notin Slow \cup {d} /\ job[j] # None} = {}

Next ==
    \/ \E d \in Devices :
        /\ Turned(d)
        /\ \/ Loads(d) \/ Acts(d) \/ PinKey(d) \/ PinAdded(d) \/ Renew(d) \/ Crash(d)
           \/ \E j \in Jobs : j[1] = d /\ (PinGet(j) \/ PinPut(j))
    \/ Turn

\* A device that is on keeps loading, and its calls are answered.
Fairness == \A d \in Devices : WF_vars(Loads(d))
Spec == Init /\ [][Next]_vars /\ Fairness
----------------------------------------------------------------------------
Facts == [ed : Nat, x : Nat, cust : BOOLEAN, noId : BOOLEAN]
Records == [prov : BOOLEAN, ed : Nat, x : Nat, cust : BOOLEAN, noId : BOOLEAN, seq : Nat]

\* The shape of the state.
TypeOK ==
    /\ dir \in Answers /\ row \in Records \cup {None}
    /\ \A d \in Devices : pins[d] # None => pins[d].seq > 0 /\ (pins[d].noId <=> pins[d].ed = 0)
    /\ recs \in [Devices -> Records \cup {None}]
    /\ alerts \in [Devices -> {"kv_missing", "kv_conflict", None}]

Absent(d) == pins[d] # None /\ pins[d].noId

\* "A higher sequence is the only thing that can move a held pin" (reconcilePin):
\* no interleaving of loads, repairs and lazy pins on two devices does.
HeldPinMovesUp ==
    [][\A d \in Devices : pins[d] # None /\ pins'[d] # None /\ pins'[d] # pins[d]
                          => pins'[d].seq > pins[d].seq]_vars

\* Whatever happened to the synced copy, a message no bridge vouches for opens
\* only under the key this device pinned, once a load has reconciled the view;
\* a pin of absence is the exception (its noIdentity is not compared).
Opens(d, m) == \E f \in Filters : Gate(m, recs[d], SenderTrust(m.key, recs[d], dir), f) = "allowlisted"
PinGuardsReader ==
    \A d \in Devices, m \in Messages :
        /\ sure[d] /\ pins[d] # None /\ ~Absent(d)
        /\ ~BridgedLegacy(m) /\ ~Receipted(m) /\ Opens(d, m)
        => m.key = pins[d].ed

\* The devices do not fight over the synced copy: when nobody acts, it comes to
\* rest, unless some device holds a pin of absence.
Settles == <>[](\A d \in Devices : ~Absent(d)) => <>[][row' = row]_vars

\* What the app tells a person of a sender, for a view c of the contact.
Views == {recs[d] : d \in Devices}

\* The reader's notice agrees with its gate: a message that opens has no warning
\* of danger (but for native mail with an attestation that does not verify), one
\* held for impersonation has one.
NoticeMatchesGate(m, t, category) ==
    LET tone == MessageChecks(m, t) IN
    m.receipt = "none" =>
        /\ category = "allowlisted" /\ m.att # "bad" => tone # "danger"
        /\ GateReason(m, t, category) = "impersonation" => tone = "danger"

\* "Trusting is offered only where it can actually change the outcome": the sender
\* trusted with what the directory says now, the message opens (the exceptions are
\* mail under a key the directory does not give, for which trust is offered too).
TrustHelps(c, m, t, f, category) ==
    LET by == IF BridgedLegacy(m) THEN [Blank EXCEPT !.prov = TRUE]
              ELSE Allowed(MakePin(DirectoryFacts(dir), 1))
    IN  /\ category = "pending" /\ TrustActionable(m, c, t, category)
        /\ BridgedLegacy(m) \/ t \notin {"key_mismatch", "directory_missing"}
        => Gate(m, by, SenderTrust(m.key, by, dir), f) = "allowlisted"

\* Blocking the sender of bridged mail never blocks the bridge's key, whatever
\* became of the attestation: it would hide all bridged mail.
BlockSparesBridge(m, t) == m.key \notin {a.ed : a \in Answers} => BlockKey(t, m.key) = {}

\* The composer warns of a changed key exactly when the reader holds mail for it.
ComposerAgrees(c) ==
    ~dir.legacy /\ ~dir.bad =>
        (CheckPin(c, DirectoryFacts(dir)) = "changed" <=> SenderTrust(dir.ed, c, dir) = "key_changed")

\* What the reader and the composer tell a person of a sender fits together.
AdviceAgrees ==
    \A c \in Views :
        /\ ComposerAgrees(c)
        /\ \A m \in Messages :
            LET t == SenderTrust(m.key, c, dir) IN
            /\ BlockSparesBridge(m, t)
            /\ \A f \in Filters :
                LET category == Gate(m, c, t, f) IN
                NoticeMatchesGate(m, t, category) /\ TrustHelps(c, m, t, f, category)
=============================================================================
