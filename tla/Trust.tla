-------------------------------- MODULE Trust --------------------------------
(***************************************************************************)
(* What the web client concludes about a correspondent: the pinned facts   *)
(* (lib/trust/pinnedKey.ts, pinStore.ts), the verdict on a sender          *)
(* (lib/crypto/senderTrust.ts), the pending category (lib/trust/category), *)
(* the reader's gate (components/MessageReader.tsx) and the line of checks *)
(* shown with a message (lib/trust/checks.ts).  Keys are numbers, 0 being  *)
(* the empty string; wording is left out, its tone is kept.                *)
(***************************************************************************)
EXTENDS Integers, FiniteSets, FiniteSetsExt

CONSTANT None

AbsentIdentityFacts == [ed |-> 0, x |-> 0, cust |-> FALSE, noId |-> TRUE]

\* A directory answer: legacy points at a bridge (or is the 404 of an address
\* without identity); bad is identity_unverifiable; tier2 a domain's signature.
DirectoryFacts(a) ==
    IF a.legacy \/ a.ed = 0 THEN AbsentIdentityFacts
    ELSE [ed |-> a.ed, x |-> a.x, cust |-> a.cust, noId |-> FALSE]

ContactFacts(c) ==
    IF c # None /\ c.noId THEN AbsentIdentityFacts
    ELSE IF c = None \/ c.ed = 0 THEN None
    ELSE [ed |-> c.ed, x |-> c.x, cust |-> c.cust, noId |-> FALSE]

\* Fields the pin has no value for are not compared.
ChangedFacts(p, o) ==
    IF p.noId # o.noId THEN {"identity"}
    ELSE {f \in {"ed", "x"} : p[f] # 0 /\ p[f] # o[f]} \cup
         {f \in {"cust"} : p.cust # o.cust}

\* checkPin(): the composer's warning, for a recipient whose facts are o.
CheckPin(c, o) ==
    LET p == ContactFacts(c) IN
    IF p = None \/ o = None \/ (o.ed = 0 /\ ~o.noId) THEN "unpinned"
    ELSE IF ChangedFacts(p, o) = {} THEN "match"
    ELSE IF p.noId # o.noId \/ p.ed # o.ed \/ (p.x # 0 /\ p.x # o.x) THEN "changed"
    ELSE "record_changed"

\* makePin(): a pin of this device, its sequence at least 1.
MakePin(f, n) == [ed |-> f.ed, x |-> f.x, cust |-> f.cust, noId |-> f.noId, seq |-> Max({1, n})]

SamePin(p, q) == p.ed = q.ed /\ p.x = q.x /\ p.cust = q.cust

\* The facts of a local pin as reconcilePin() copies them: noIdentity stays behind.
LocalFacts(p) == [ed |-> p.ed, x |-> p.x, cust |-> p.cust]

Decision(f, n, anomaly, adopt, heal) ==
    [facts |-> f, seq |-> n, anomaly |-> anomaly, adopt |-> adopt, heal |-> heal]

\* Mutant: a sequence that is equal moves a held pin.
MovesPinEqual(n, local) == n >= local.seq

\* Only a strictly higher sequence moves a pin this device holds.
MovesPin(n, local) == n > local.seq

\* Mutant: a conflict is repaired like a missing pin.
HealsConflict == TRUE

\* "Deliberately NOT healed": a conflict is reported and left alone.
Heals == FALSE

\* A conflict is reported.
Reported == "kv_conflict"

\* reconcilePin(): this device's pin against the synced copy kv.
ReconcilePin(local, kv, kvSeq) ==
    LET n == IF kvSeq > 0 THEN kvSeq ELSE IF kv # None THEN 1 ELSE 0
        has == kv # None /\ kv.ed # 0
    IN  IF local = None /\ ~has THEN Decision(None, 0, None, None, FALSE)
        ELSE IF local = None THEN Decision(LocalFacts(kv), n, None, MakePin(kv, n), FALSE)
        ELSE IF ~has THEN Decision(LocalFacts(local), local.seq, "kv_missing", None, TRUE)
        ELSE IF SamePin(local, kv) THEN Decision(LocalFacts(local), Max({local.seq, n}), None, None, FALSE)
        ELSE IF MovesPin(n, local) THEN Decision(LocalFacts(kv), n, None, MakePin(kv, n), FALSE)
        ELSE Decision(LocalFacts(local), local.seq, Reported, None, Heals)
----------------------------------------------------------------------------
\* evaluateSenderTrust(): the verdict on a header signed with key k, for contact
\* c (or None) and directory answer a (None when the lookup failed).
SenderTrust(k, c, a) ==
    LET p == ContactFacts(c) IN
    IF a = None \/ a.legacy THEN "directory_missing"
    ELSE IF a.ed # k THEN "key_mismatch"
    ELSE IF a.bad THEN "identity_unverifiable"
    ELSE IF p # None /\ (p.ed # k \/ (p.x # 0 /\ p.x # a.x)) THEN "key_changed"
    ELSE IF p # None /\ ChangedFacts(p, DirectoryFacts(a)) # {} THEN "record_changed"
    ELSE IF c # None THEN "allowlisted"
    ELSE IF a.tier2 THEN "domain_verified"
    ELSE "unknown_pending"

\* The personal filter: blocked keys always count, addresses in deny mode only.
FilterBlocks(filter, k) == k \in filter.keys \/ (filter.deny /\ filter.addr)

CategorizeSender(k, c, filter) ==
    IF FilterBlocks(filter, k) THEN "blocked"
    ELSE IF c # None /\ ~(c.ed # 0 /\ c.ed # k) THEN "allowlisted"
    ELSE "pending"

\* The key Block adds to the filter, or none: only one the directory confirms.
BlockKey(t, k) ==
    IF t \in {"allowlisted", "domain_verified", "unknown_pending", "record_changed", "key_changed"}
    THEN {k} ELSE {}

\* A message: the key of its header, what its bridge attestation is worth ("none",
\* "bad": does not verify; "weak": verifies, checks failed; "good") and its
\* delivery receipt ("none", "bad": does not verify, "failed", "ok").
Receipted(m) == m.receipt \in {"ok", "failed"}

BridgedLegacy(m) == m.att \in {"weak", "good"}

NativeDanger(m, t) ==
    ~BridgedLegacy(m) /\ t \in {"key_mismatch", "key_changed", "identity_unverifiable"}

\* A contact without a key, held to the bridge's checks.
SenderIsLegacyContact(m, c, t) ==
    /\ c # None /\ c.ed = 0
    /\ c.prov \/ BridgedLegacy(m) \/ t \in {None, "directory_missing"}

\* The reader's category: what decides whether a message opens.
Gate(m, c, t, filter) ==
    LET base == IF Receipted(m) THEN "allowlisted" ELSE CategorizeSender(m.key, c, filter) IN
    IF Receipted(m) \/ base # "allowlisted" THEN base
    ELSE IF SenderIsLegacyContact(m, c, t) /\ m.att # "good" THEN "pending"
    ELSE IF NativeDanger(m, t) THEN "pending"
    ELSE base

\* Why a message of that category is held.
GateReason(m, t, category) ==
    IF category = "blocked" THEN "blocked"
    ELSE IF m.att = "weak" THEN "unauthenticated"
    ELSE IF NativeDanger(m, t) THEN "impersonation"
    ELSE "unknown"

\* Whether "I trust the sender" is offered on a gated message.
TrustActionable(m, c, t, category) ==
    LET why == GateReason(m, t, category) IN
    /\ why \notin {"blocked", "unauthenticated"}
    /\ ~(~BridgedLegacy(m) /\ t = "identity_unverifiable")
    /\ ~(category = "pending" /\ SenderIsLegacyContact(m, c, t) /\ why = "unknown")

\* The tone of the notice shown with a message ("none": no notice).
ReceiptChecks(m) ==
    CASE m.receipt = "ok" -> "neutral" [] m.receipt = "failed" -> "danger" [] OTHER -> "warning"

BridgedChecks(m) == IF m.att = "good" THEN "none" ELSE "danger"

\* Mutant: an entry the domain disowns is only unusual.
NativeChecksMild(t) ==
    IF t \in {"allowlisted", "domain_verified"} THEN "none"
    ELSE IF t \in {"key_changed", "identity_unverifiable"} THEN "danger"
    ELSE "warning"

NativeChecks(t) ==
    IF t \in {"allowlisted", "domain_verified"} THEN "none"
    ELSE IF t \in {"key_changed", "key_mismatch", "identity_unverifiable"} THEN "danger"
    ELSE "warning"

MessageChecks(m, t) ==
    IF m.receipt # "none" THEN ReceiptChecks(m)
    ELSE IF m.att # "none" THEN BridgedChecks(m)
    ELSE NativeChecks(t)
=============================================================================
