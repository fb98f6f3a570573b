------------------------------ MODULE Accounts ------------------------------
(***************************************************************************)
(* Several accounts in one browser: the encrypted keystores, the unlocked  *)
(* working handles, the shared device unlock and the lock posture (all in  *)
(* IndexedDB, common to every tab), and in each tab the session, the keys  *)
(* it acts with, the handles its page holds, session renewal, the app lock *)
(* and the account a tapped notification is for.                           *)
(*                                                                         *)
(* An asynchronous function is one action per await.  React commits a      *)
(* state change and runs its passive effects in a later task: until the    *)
(* action Effects of that tab, every effect still holds the values (and    *)
(* the cancellation flags) of the previous commit.                         *)
(***************************************************************************)
EXTENDS Naturals, FiniteSets

CONSTANTS Accounts,       \* the addresses
          First,          \* the account signed in at the start
          Tabs,           \* tab ids; a tab id is never used twice
          Tab1,           \* the tab open at the start
          None,           \* no account
          MaxActs,        \* bound: acts of people, workers and other devices
          MaxFails        \* bound: failed writes of a handle or the posture

ASSUME AccountsAssumption ==
    None \notin Accounts /\ First \in Accounts /\ Tab1 \in Tabs /\ MaxActs \in Nat

VARIABLES keystores,  \* account -> its encrypted bundle (the only copy)
          handles,    \* ref -> generation of the key stored there, 0: nothing
          entries,    \* the device keystore: account -> the bundle key kept
          posture,    \* the stored "lock when I leave"
          last,       \* the account last acted as
          woken,      \* accounts a notification has marked
          bound,      \* account -> generation of the key the directory binds
          tab,        \* tab id -> the page
          acts, fails

shared == <<keystores, handles, entries, posture, last, woken, bound>>
vars == <<shared, tab, acts, fails>>

-----------------------------------------------------------------------------
(* Values *)

\* Key generations; a bundle holds one under a nonce of its own (key 0: the
\* keystore is gone, and its nonce will not come back).
Gens == 1..2
Bundles == [key: Gens \cup {0}, nonce: 0..2]
NoBundle == [key |-> 0, nonce |-> 0]
NoEntry == [made |-> 0, opens |-> 0]
NoKeys == [a |-> None, k |-> 0]
WorkingKeys == [a: Accounts, k: Gens] \cup {NoKeys}

TabRef(t, a) == <<"tab", t, a>>
AcctRef(a) == <<"acct", a>>
Refs == {TabRef(t, a): t \in Tabs, a \in Accounts} \cup {AcctRef(a): a \in Accounts}

workingKeyRef(t, lock, a) == IF lock THEN TabRef(t, a) ELSE AcctRef(a)

\* What switchTo, unlockAll, a sign-out, forgetAccount, attachAccount,
\* detachAccount or a change of posture has under way in a tab.
NoOp == [kind |-> "none", at |-> "none", wk |-> NoKeys, ks |-> NoBundle,
         open |-> FALSE, todo |-> {}, snap |-> [a \in Accounts |-> NoEntry], warn |-> FALSE]

NoLoad == [at |-> "none", wk |-> NoKeys]
NoRenewal == [on |-> FALSE, wk |-> NoKeys, a |-> None, stale |-> FALSE]
NotRun == [addr |-> None, keys |-> NoKeys, route |-> "none", up |-> FALSE]

NoTab == [st |-> "new", addr |-> None, tok |-> None, keys |-> NoKeys,
          live |-> [a \in Accounts |-> 0], lock |-> TRUE, seen |-> TRUE, route |-> "login",
          ran |-> NotRun, armed |-> FALSE, load |-> NoLoad, locking |-> "none",
          op |-> NoOp, renew |-> NoRenewal, intent |-> NoKeys, woke |-> None,
          out |-> FALSE, crossed |-> FALSE, raced |-> FALSE, relaxed |-> FALSE]

-----------------------------------------------------------------------------
(* Reading *)

Open(t) == tab[t].st = "open"
Idle(t) == Open(t) /\ tab[t].op = NoOp

\* loadUnlockedKeys: the page's own handle first; otherwise a stored one, unless
\* the keystore record it is compared with holds another key.
StoredKey(t, a) == handles[workingKeyRef(t, tab[t].lock, a)]
StaleHandle(t, a, ks) ==
    tab[t].live[a] = 0 /\ StoredKey(t, a) # 0 /\ ks.key # 0 /\ StoredKey(t, a) # ks.key
loadUnlockedKeys(t, a, ks) ==
    IF tab[t].live[a] # 0 THEN tab[t].live[a]
    ELSE IF StaleHandle(t, a, ks) THEN 0 ELSE StoredKey(t, a)

\* listDeviceAccounts: a keystore, or a handle that loads.
Listed(t, a) == keystores[a].key # 0 \/ loadUnlockedKeys(t, a, keystores[a]) # 0

\* loginWithKeys: the directory's key for the address must be the one signing.
LoginAccepted(a, wk) == wk.a = a /\ wk.k = bound[a]

\* Opening a bundle gives its key; the key that opens a bundle opens no other.
unlockKeystore(ks) == ks.key
bundleKeyFor(ks) == ks.nonce

\* unlockDevice opens an entry whose account is still here, whose bundle has not
\* been wrapped again since, and whose key really is that bundle's.
Claimed(entry, a) == entry # NoEntry /\ keystores[a].key # 0 /\ entry.opens = keystores[a].nonce
Opened == {a \in Accounts: Claimed(entries[a], a) /\ entries[a].made = entries[a].opens}
Attached == {a \in Accounts: Claimed(entries[a], a)}

-----------------------------------------------------------------------------
(* Writing one tab *)

SetTab(t, r) == tab' = [tab EXCEPT ![t] = r]
Act == acts < MaxActs /\ acts' = acts + 1
NoAct == UNCHANGED acts
Finished(r) == [r EXCEPT !.op = NoOp]
Stage(r, at) == [r EXCEPT !.op.at = at]

\* persistWorkingKeys: the page remembers the handle whatever the store does; a
\* write fails, or is not tried in a browser that cannot read handles back.
Remembered(r, wk) == [r EXCEPT !.live[wk.a] = wk.k]
HandleLost == fails < MaxFails /\ fails' = fails + 1
SaveHandle(t, wk) ==
    \/ handles' = [handles EXCEPT ![workingKeyRef(t, tab[t].lock, wk.a)] = wk.k] /\ UNCHANGED fails
    \/ HandleLost /\ UNCHANGED handles

\* adoptKeys and setSession in one continuation: React batches the two.
Adopted(r, wk) == [r EXCEPT !.keys = wk, !.addr = wk.a, !.tok = wk.a, !.out = FALSE]
\* clearSession.
NoSession(r) == [r EXCEPT !.addr = None, !.tok = None]

\* A protected route without a session or without keys goes to the login screen.
Redirected(r) ==
    IF r.ran # NotRun /\ r.route = "shell" /\ r.load = NoLoad /\ (r.addr = None \/ r.keys = NoKeys)
    THEN [r EXCEPT !.route = "login"] ELSE r

-----------------------------------------------------------------------------
(* Pages: opening, reloading, closing, effects *)

\* The page of tab t as it starts: what sessionStorage kept, and nothing in memory.
Page(t, addr, intent) ==
    [NoTab EXCEPT !.st = "open", !.addr = addr, !.tok = addr, !.lock = posture,
                  !.route = "shell", !.intent = intent,
                  !.seen = IF Open(t) THEN tab[t].seen ELSE TRUE,
                  !.out = tab[t].out, !.crossed = tab[t].crossed, !.raced = tab[t].raced]

OpenTab(t) ==
    /\ tab[t].st = "new" /\ Act
    /\ SetTab(t, Page(t, None, NoKeys))
    /\ UNCHANGED <<shared, fails>>

Reload(t) ==
    /\ Open(t) /\ Act
    /\ SetTab(t, Page(t, tab[t].addr, tab[t].intent))
    /\ UNCHANGED <<shared, fails>>

\* Closing a tab orphans its handles; only another page's sweep removes them.
Close(t) ==
    /\ Open(t) /\ Act
    /\ SetTab(t, [NoTab EXCEPT !.st = "closed"])
    /\ UNCHANGED <<shared, fails>>

\* The sweep of a page's first effects: handles of tabs that are not open.  A
\* closed tab's heartbeat may still be fresh, and then its handles stay.
gcWorkingHandles(t) ==
    \/ UNCHANGED handles
    \/ handles' = [r \in Refs |-> IF r[1] = "tab" /\ r[2] # t /\ ~Open(r[2]) THEN 0 ELSE handles[r]]

\* Is the signed-in shell on screen?
Loading(r) == r.load.at # "none" /\ r.keys.a # r.load.wk.a
ShellUp(r) == r.route = "shell" /\ r.addr # None /\ r.keys # NoKeys /\ ~Loading(r)

\* KeysProvider's effect on a new address: abandon the running load, start one.
LoadEffect(r) ==
    IF r.ran.route # "none" /\ r.ran.addr = r.addr THEN r
    ELSE [r EXCEPT !.load = [at |-> "start", wk |-> [a |-> r.addr, k |-> 0]]]

\* SessionRenewer's cleanup: a renewal under way belongs to the values left behind.
RenewerEffect(r) ==
    IF r.ran.addr = r.addr /\ r.ran.keys = r.keys /\ r.ran.route = r.route THEN r
    ELSE [r EXCEPT !.renew.stale = r.renew.on]

\* useAppLock runs in the shell, when it mounts, signs in or navigates.
\* Mutant: a lock that is not armed in a tab that mounts in the background.
LockEffectVisible(r) ==
    IF ~ShellUp(r) THEN [r EXCEPT !.armed = FALSE]
    ELSE IF r.ran.up /\ r.ran.route = r.route /\ r.ran.addr # None THEN r
    ELSE [r EXCEPT !.armed = r.lock /\ r.seen]
LockEffect(r) ==
    IF ~ShellUp(r) THEN [r EXCEPT !.armed = FALSE]
    ELSE IF r.ran.up /\ r.ran.route = r.route /\ r.ran.addr # None THEN r
    ELSE [r EXCEPT !.armed = r.lock]

\* accountForScope: a notification names the key it was subscribed under.
accountForScope(i) == IF i # NoKeys /\ keystores[i.a].key = i.k THEN i.a ELSE None

\* Login's effect, as it mounts, takes the account a notification named.
LoginEffect(r) ==
    IF r.route # "login" THEN [r EXCEPT !.woke = None]
    ELSE IF r.ran.route = "login" THEN r
    ELSE [r EXCEPT !.intent = NoKeys, !.woke = accountForScope(r.intent)]

RanNow(r) == [addr |-> r.addr, keys |-> r.keys, route |-> r.route, up |-> ShellUp(r)]
AfterEffects(r) ==
    LET s == LoginEffect(LockEffect(RenewerEffect(LoadEffect(Redirected(r)))))
    IN  [s EXCEPT !.ran = RanNow(s)]

Settled(r) == r.ran = RanNow(r) /\ r.load = NoLoad

\* A person acts on a page in front of them, whose effects have run (React runs
\* them before it handles a click) and which is not busy.
Ready(t) == Idle(t) /\ tab[t].seen /\ tab[t].ran = RanNow(tab[t]) /\ tab[t].locking = "none"

Effects(t) ==
    /\ Open(t) /\ tab[t].ran # RanNow(tab[t])
    /\ SetTab(t, AfterEffects(tab[t]))
    /\ IF tab[t].ran = NotRun THEN gcWorkingHandles(t) ELSE UNCHANGED handles
    /\ NoAct /\ UNCHANGED <<keystores, entries, posture, last, woken, bound, fails>>

-----------------------------------------------------------------------------
(* KeysProvider: the keys of the session's account *)

\* No address, or already unlocked in memory: done.  Otherwise the handle is read
\* here and set in the next action; a stale stored one is dropped as it is found.
LoadRead(t) ==
    LET r == tab[t]
        a == r.load.wk.a
    IN
    /\ Open(t) /\ r.load.at = "start"
    /\ \/ a = None /\ SetTab(t, Redirected([r EXCEPT !.keys = NoKeys, !.load = NoLoad]))
                   /\ UNCHANGED handles
       \/ a # None /\ r.keys.a = a /\ SetTab(t, [r EXCEPT !.load = NoLoad]) /\ UNCHANGED handles
       \/ /\ a # None /\ r.keys.a # a
          /\ SetTab(t, [r EXCEPT !.load = [at |-> "set",
                           wk |-> [a |-> a, k |-> loadUnlockedKeys(t, a, keystores[a])]]])
          /\ handles' = IF StaleHandle(t, a, keystores[a])
                        THEN [handles EXCEPT ![workingKeyRef(t, r.lock, a)] = 0] ELSE handles
    /\ NoAct /\ UNCHANGED <<keystores, entries, posture, last, woken, bound, fails>>

LoadSet(t) ==
    LET r == tab[t]
        wk == IF r.load.wk.k = 0 THEN NoKeys ELSE r.load.wk
    IN
    /\ Open(t) /\ r.load.at = "set"
    /\ SetTab(t, Redirected([r EXCEPT !.keys = wk, !.load = NoLoad]))
    /\ NoAct /\ UNCHANGED <<shared, fails>>

-----------------------------------------------------------------------------
(* Session renewal *)

\* A request answered 401 renews through the handler the last effects installed
\* (one renewal at a time); without an account or keys the handler gives up.
Renew(t) ==
    LET r == tab[t] IN
    /\ Open(t) /\ r.addr # None /\ ~r.renew.on /\ r.ran # NotRun /\ Act
    /\ SetTab(t, IF r.ran.addr = None \/ r.ran.keys = NoKeys
                 THEN [r EXCEPT !.tok = None]
                 ELSE [r EXCEPT !.tok = None,
                          !.renew = [on |-> TRUE, wk |-> r.ran.keys, a |-> r.ran.addr, stale |-> FALSE]])
    /\ UNCHANGED <<shared, fails>>

\* The login answered: the new token is installed unless the renewal is stale.
\* A refused or failed login ends the session, whichever account holds it now.
\* Mutant: a stale renewal still hands its token to the API client.
RenewedStale(r) ==
    LET s == [r EXCEPT !.renew = NoRenewal]
    IN  IF r.renew.stale THEN [s EXCEPT !.tok = r.renew.a]
        ELSE [s EXCEPT !.addr = r.renew.a, !.tok = r.renew.a, !.raced = @ \/ r.ran # RanNow(r)]
Renewed(r) ==
    LET s == [r EXCEPT !.renew = NoRenewal]
    IN  IF r.renew.stale THEN [s EXCEPT !.tok = None]
        ELSE [s EXCEPT !.addr = r.renew.a, !.tok = r.renew.a, !.raced = @ \/ r.ran # RanNow(r)]
FinishRenew(t) ==
    LET r == tab[t] IN
    /\ Open(t) /\ r.renew.on
    /\ \/ /\ LoginAccepted(r.renew.a, r.renew.wk)
          /\ SetTab(t, Renewed(r))
          /\ last' = IF r.renew.stale THEN last ELSE r.renew.a
       \/ /\ SetTab(t, [NoSession(r) EXCEPT !.renew = NoRenewal, !.route = "login",
                                            !.raced = @ \/ r.ran # RanNow(r)])
          /\ UNCHANGED last
    /\ NoAct /\ UNCHANGED <<keystores, handles, entries, posture, woken, bound, fails>>

-----------------------------------------------------------------------------
(* Switching to an account; one unlock for all *)

\* What the account list said when the row was clicked: its keystore, and
\* whether it was unlocked.
Begin(r, t, a) ==
    [r EXCEPT !.op = [NoOp EXCEPT !.kind = "switch", !.at = "unlock", !.wk = [a |-> a, k |-> 0],
                                  !.ks = keystores[a],
                                  !.open = loadUnlockedKeys(t, a, keystores[a]) # 0],
              !.crossed = @ \/ r.locking # "none"]

switchTo(t, a) ==
    LET r == tab[t] IN
    /\ Ready(t) /\ Listed(t, a) /\ Act
    /\ SetTab(t, IF r.addr = a /\ r.keys # NoKeys THEN [r EXCEPT !.route = "shell"] ELSE Begin(r, t, a))
    /\ UNCHANGED <<shared, fails>>

\* The handle if the account was unlocked and still is; otherwise the keystore of
\* the list opens with its passkey or password, or the prompt is dismissed.
SwitchUnlock(t) ==
    LET r == tab[t]
        a == r.op.wk.a
        k == IF r.op.open THEN loadUnlockedKeys(t, a, r.op.ks) ELSE 0
    IN
    /\ Open(t) /\ r.op.kind = "switch" /\ r.op.at = "unlock"
    /\ handles' = IF r.op.open /\ StaleHandle(t, a, r.op.ks)
                  THEN [handles EXCEPT ![workingKeyRef(t, r.lock, a)] = 0] ELSE handles
    /\ \/ k # 0 /\ SetTab(t, [Stage(r, "login") EXCEPT !.op.wk.k = k])
       \/ k = 0 /\ r.op.ks.key # 0 /\ SetTab(t, [Stage(r, "login") EXCEPT !.op.wk.k = unlockKeystore(r.op.ks)])
       \/ k = 0 /\ SetTab(t, Finished(r))
    /\ NoAct /\ UNCHANGED <<keystores, entries, posture, last, woken, bound, fails>>

unlockAll(t) ==
    /\ Ready(t) /\ tab[t].route = "login" /\ Attached # {} /\ Act
    /\ SetTab(t, [tab[t] EXCEPT !.op = [NoOp EXCEPT !.kind = "all", !.at = "unlock"]])
    /\ UNCHANGED <<shared, fails>>

\* unlockDevice: every entry that opens, in one prompt; none is an error.
DeviceUnlock(t) ==
    LET r == tab[t] IN
    /\ Open(t) /\ r.op.kind = "all" /\ r.op.at = "unlock"
    /\ \/ SetTab(t, Finished(r))
       \/ /\ Opened # {}
          /\ SetTab(t, [Stage(r, "persist") EXCEPT
                           !.op.todo = {[a |-> a, k |-> keystores[a].key]: a \in Opened},
                           !.op.snap = [a \in Accounts |-> IF a \in Opened THEN entries[a] ELSE NoEntry],
                           !.op.warn = \E a \in Accounts \ Opened: entries[a] # NoEntry])
    /\ NoAct /\ UNCHANGED <<shared, fails>>

\* Each opened account is imported and persisted; one the browser would not keep
\* is reported.
PersistOpened(t) ==
    LET r == tab[t] IN
    /\ Open(t) /\ r.op.kind = "all" /\ r.op.at = "persist"
    /\ \E wk \in r.op.todo:
        /\ SaveHandle(t, wk)
        /\ SetTab(t, [Remembered(r, wk) EXCEPT !.op.todo = @ \ {wk},
                        !.op.at = IF r.op.todo = {wk} THEN "choose" ELSE @,
                        !.op.warn = @ \/ fails' # fails])
    /\ NoAct /\ UNCHANGED <<keystores, entries, posture, last, woken, bound>>

\* The account to land in: the one a notification named, one with mail waiting,
\* the last one used, any.
chooseTarget(opened, prefer) ==
    IF prefer \in opened THEN {prefer}
    ELSE IF opened \cap woken # {} THEN opened \cap woken
    ELSE IF last \in opened THEN {last} ELSE opened

ChooseTarget(t) ==
    LET r == tab[t]
        opened == {a \in Accounts: r.op.snap[a] # NoEntry}
    IN
    /\ Open(t) /\ r.op.kind = "all" /\ r.op.at = "choose"
    /\ \E a \in chooseTarget(opened, r.woke):
         SetTab(t, [Stage(r, "login") EXCEPT !.op.wk = [a |-> a, k |-> r.live[a]]])
    /\ NoAct /\ UNCHANGED <<shared, fails>>

\* The incoming session is minted before anything is adopted; a failure leaves
\* the outgoing account as it was.
Login(t) ==
    LET r == tab[t] IN
    /\ Open(t) /\ r.op.at = "login"
    /\ \/ LoginAccepted(r.op.wk.a, r.op.wk) /\ SetTab(t, Stage(r, "draft"))
       \/ SetTab(t, Finished(r))
    /\ NoAct /\ UNCHANGED <<shared, fails>>

\* An unsent message is put away under the outgoing session, or the switch stops.
PutAway(t) ==
    LET r == tab[t] IN
    /\ Open(t) /\ r.op.at = "draft"
    /\ \/ SetTab(t, Stage(r, IF r.op.kind = "switch" THEN "persist" ELSE "adopt"))
       \/ SetTab(t, Finished(r))
    /\ NoAct /\ UNCHANGED <<shared, fails>>

PersistSwitched(t) ==
    LET r == tab[t] IN
    /\ Open(t) /\ r.op.kind = "switch" /\ r.op.at = "persist"
    /\ SaveHandle(t, r.op.wk)
    /\ SetTab(t, Stage(Remembered(r, r.op.wk), "adopt"))
    /\ NoAct /\ UNCHANGED <<keystores, entries, posture, last, woken, bound>>

\* unlockAll stays on the login screen when it has something to report.
Adopt(t) ==
    LET r == tab[t] IN
    /\ Open(t) /\ r.op.at = "adopt"
    /\ SetTab(t, Finished([Adopted(r, r.op.wk) EXCEPT !.route = IF r.op.warn THEN @ ELSE "shell"]))
    /\ last' = r.op.wk.a
    /\ NoAct /\ UNCHANGED <<keystores, handles, entries, posture, woken, bound, fails>>

-----------------------------------------------------------------------------
(* Signing out, locking *)

\* handleSignOut and handleSignOutAll: the draft is put away and the server told,
\* then the handles go (clearKeys: this account's; clearAllKeys: every one the
\* tab can reach), then the keys and the session.
SignOut(t, all) ==
    LET r == tab[t] IN
    /\ Ready(t) /\ ShellUp(r) /\ Act
    /\ SetTab(t, [r EXCEPT !.op = [NoOp EXCEPT !.kind = "out", !.at = "clear",
                                     !.wk = r.keys, !.open = all]])
    /\ UNCHANGED <<shared, fails>>

Dropped(r, all, a) == [r EXCEPT !.live = [b \in Accounts |-> IF all \/ b = a THEN 0 ELSE @[b]]]

\* clearWorkingKeys under the ref the current posture reads.
\* Mutant: it clears the ref of the other posture.
ClearHandlesOther(t, S) ==
    handles' = [x \in Refs |-> IF \E a \in S: x = workingKeyRef(t, ~tab[t].lock, a) THEN 0 ELSE handles[x]]
ClearHandles(t, S) ==
    handles' = [x \in Refs |-> IF \E a \in S: x = workingKeyRef(t, tab[t].lock, a) THEN 0 ELSE handles[x]]

SignOutClear(t) ==
    LET r == tab[t] IN
    /\ Open(t) /\ r.op.kind = "out" /\ r.op.at = "clear"
    /\ SetTab(t, Stage(Dropped(r, r.op.open, r.op.wk.a), "leave"))
    /\ ClearHandles(t, IF r.op.open THEN Accounts ELSE {r.op.wk.a})
    /\ NoAct /\ UNCHANGED <<keystores, entries, posture, last, woken, bound, fails>>

SignedOut(r) == [NoSession(r) EXCEPT !.keys = NoKeys, !.route = "login", !.out = TRUE]
SignOutLeave(t) ==
    /\ Open(t) /\ tab[t].op.kind = "out" /\ tab[t].op.at = "leave"
    /\ SetTab(t, Finished(SignedOut(tab[t])))
    /\ NoAct /\ UNCHANGED <<shared, fails>>

\* Leaving the tab starts the grace period; coming back cancels it.
Visibility(t) ==
    /\ Open(t) /\ Act
    /\ SetTab(t, [tab[t] EXCEPT !.seen = ~@])
    /\ UNCHANGED <<shared, fails>>

\* The grace period is minutes long: nothing that only touches local storage is
\* still under way when it ends.
LocalStages == {"persist", "choose", "adopt", "clear", "leave", "write", "handles", "keystore",
                "store", "list", "move", "drop"}
Grace(r) == r.armed /\ ~r.seen /\ r.locking = "none"

LockFires(t) ==
    LET r == tab[t] IN
    /\ Open(t) /\ Grace(r) /\ r.op.at \notin LocalStages
    /\ r.ran = RanNow(r) /\ r.load = NoLoad
    /\ SetTab(t, [Dropped(r, TRUE, None) EXCEPT !.locking = "clear", !.crossed = @ \/ r.op # NoOp])
    /\ NoAct /\ UNCHANGED <<shared, fails>>

LockClear(t) ==
    /\ Open(t) /\ tab[t].locking = "clear"
    /\ SetTab(t, [tab[t] EXCEPT !.locking = "leave"])
    /\ ClearHandles(t, Accounts)
    /\ NoAct /\ UNCHANGED <<keystores, entries, posture, last, woken, bound, fails>>

LockLeave(t) ==
    /\ Open(t) /\ tab[t].locking = "leave"
    /\ SetTab(t, [SignedOut(tab[t]) EXCEPT !.locking = "none"])
    /\ NoAct /\ UNCHANGED <<shared, fails>>

-----------------------------------------------------------------------------
(* The shared device unlock; removing an account *)

\* attachAccount: the key of the bundle as it is now ...
attachAccount(t) ==
    LET r == tab[t] IN
    /\ Ready(t) /\ ShellUp(r) /\ keystores[r.addr].key # 0 /\ Act
    /\ SetTab(t, [r EXCEPT !.op = [NoOp EXCEPT !.kind = "attach", !.at = "read",
                                     !.wk = r.keys, !.ks = keystores[r.addr]]])
    /\ UNCHANGED <<shared, fails>>

\* ... is stored with the nonce of the bundle as it is after the prompt, in the
\* device keystore as it was read then.
AttachRead(t) ==
    LET r == tab[t]
        a == r.op.wk.a
    IN
    /\ Open(t) /\ r.op.kind = "attach" /\ r.op.at = "read"
    /\ \/ SetTab(t, Finished(r))
       \/ /\ keystores[a].key # 0
          /\ SetTab(t, [Stage(r, "write") EXCEPT !.op.snap =
                [entries EXCEPT ![a] = [made |-> bundleKeyFor(r.op.ks), opens |-> keystores[a].nonce]]])
    /\ NoAct /\ UNCHANGED <<shared, fails>>

\* detachAccount, alone or as part of forgetAccount: read, then write what is left.
detachAccount(t) ==
    LET r == tab[t] IN
    /\ Ready(t) /\ ShellUp(r) /\ Act
    /\ SetTab(t, [r EXCEPT !.op = [NoOp EXCEPT !.kind = "detach", !.at = "write", !.wk = r.keys,
                                     !.snap = [entries EXCEPT ![r.addr] = NoEntry]]])
    /\ UNCHANGED <<shared, fails>>

forgetAccount(t, a) ==
    LET r == tab[t] IN
    /\ Ready(t) /\ r.route = "login" /\ Listed(t, a) /\ Act
    /\ SetTab(t, [r EXCEPT !.op = [NoOp EXCEPT !.kind = "forget", !.at = "write",
                                     !.wk = [a |-> a, k |-> 0], !.snap = [entries EXCEPT ![a] = NoEntry]]])
    /\ UNCHANGED <<shared, fails>>

WriteEntries(t) ==
    LET r == tab[t] IN
    /\ Open(t) /\ r.op.at = "write"
    /\ entries' = r.op.snap
    /\ SetTab(t, IF r.op.kind = "forget" THEN Stage(r, "handles") ELSE Finished(r))
    /\ NoAct /\ UNCHANGED <<keystores, handles, posture, last, woken, bound, fails>>

bothWorkingRefs(t, a) == {workingKeyRef(t, tab[t].lock, a), AcctRef(a)}

ForgetHandles(t) ==
    LET r == tab[t]
        a == r.op.wk.a
    IN
    /\ Open(t) /\ r.op.at = "handles"
    /\ handles' = [x \in Refs |-> IF x \in bothWorkingRefs(t, a) THEN 0 ELSE handles[x]]
    /\ SetTab(t, Stage(Dropped(r, FALSE, a), "keystore"))
    /\ NoAct /\ UNCHANGED <<keystores, entries, posture, last, woken, bound, fails>>

ForgetKeystore(t) ==
    LET a == tab[t].op.wk.a IN
    /\ Open(t) /\ tab[t].op.at = "keystore"
    /\ keystores' = [keystores EXCEPT ![a].key = 0]
    /\ last' = IF last = a THEN None ELSE last
    /\ SetTab(t, Finished(tab[t]))
    /\ NoAct /\ UNCHANGED <<handles, entries, posture, woken, bound, fails>>

-----------------------------------------------------------------------------
(* The lock posture *)

\* setLockOnLeave: the page reads the new posture at once; the store follows.
setLockOnLeave(t) ==
    LET r == tab[t] IN
    /\ Ready(t) /\ ShellUp(r) /\ Act
    /\ SetTab(t, [r EXCEPT !.lock = ~@, !.relaxed = TRUE,
                            !.op = [NoOp EXCEPT !.kind = "posture", !.at = "store"]])
    /\ UNCHANGED <<shared, fails>>

StorePosture(t) ==
    LET r == tab[t] IN
    /\ Open(t) /\ r.op.at = "store"
    /\ \/ posture' = r.lock /\ SetTab(t, Stage(r, "list")) /\ UNCHANGED fails
       \/ fails < MaxFails /\ fails' = fails + 1 /\ SetTab(t, Finished(r)) /\ UNCHANGED posture
    /\ NoAct /\ UNCHANGED <<keystores, handles, entries, last, woken, bound>>

\* applyLockPosture: every handle under the other posture's refs is put under
\* this one's and then deleted where it was.
OtherRef(t, a) == workingKeyRef(t, ~tab[t].lock, a)
Moving(t) == {a \in Accounts: handles[OtherRef(t, a)] # 0}

\* Mutant: a change of posture leaves the handles where they were.
applyLockPostureNone(t) ==
    /\ Open(t) /\ tab[t].op.at = "list"
    /\ SetTab(t, Finished(tab[t]))
    /\ NoAct /\ UNCHANGED <<shared, fails>>
applyLockPosture(t) ==
    LET r == tab[t]
        todo == {[a |-> a, k |-> 0]: a \in Moving(t)}
    IN
    /\ Open(t) /\ r.op.at = "list"
    /\ SetTab(t, IF todo = {} THEN Finished(r) ELSE [Stage(r, "move") EXCEPT !.op.todo = todo])
    /\ NoAct /\ UNCHANGED <<shared, fails>>

MoveHandle(t) ==
    LET r == tab[t] IN
    /\ Open(t) /\ r.op.at = "move"
    /\ \E x \in r.op.todo:
         /\ handles' = IF handles[OtherRef(t, x.a)] = 0 THEN handles
                       ELSE [handles EXCEPT ![workingKeyRef(t, r.lock, x.a)] = handles[OtherRef(t, x.a)]]
         /\ SetTab(t, [Stage(r, "drop") EXCEPT !.op.wk = x])
    /\ NoAct /\ UNCHANGED <<keystores, entries, posture, last, woken, bound, fails>>

DropHandle(t) ==
    LET r == tab[t]
        left == r.op.todo \ {r.op.wk}
    IN
    /\ Open(t) /\ r.op.at = "drop"
    /\ handles' = [handles EXCEPT ![OtherRef(t, r.op.wk.a)] = 0]
    /\ SetTab(t, IF left = {} THEN Finished(r) ELSE [Stage(r, "move") EXCEPT !.op.todo = left])
    /\ NoAct /\ UNCHANGED <<keystores, entries, posture, last, woken, bound, fails>>

-----------------------------------------------------------------------------
(* Notifications, and what other devices do *)

\* The worker marks the account and hands an open tab the tap.
Tap(t, a) ==
    /\ Open(t) /\ keystores[a].key # 0 /\ Act
    /\ woken' = woken \cup {a}
    /\ SetTab(t, [tab[t] EXCEPT !.intent = [a |-> a, k |-> keystores[a].key]])
    /\ UNCHANGED <<keystores, handles, entries, posture, last, bound, fails>>

\* PushIntentRouter: an account not held here is dropped; the current one goes to
\* its inbox; an unlocked one is switched to; a locked one needs the login screen,
\* which takes the intent as it mounts.
RouteIntent(t) ==
    LET r == tab[t]
        a == accountForScope(r.intent)
        taken == [r EXCEPT !.intent = NoKeys]
    IN
    /\ Idle(t) /\ r.intent # NoKeys /\ Settled(r)
    /\ \/ a = None /\ SetTab(t, taken)
       \/ a # None /\ a = r.addr /\ r.keys # NoKeys /\ SetTab(t, [taken EXCEPT !.route = "shell"])
       \/ /\ a # None /\ ~(a = r.addr /\ r.keys # NoKeys)
          /\ IF loadUnlockedKeys(t, a, keystores[a]) # 0
             THEN SetTab(t, Begin(taken, t, a))
             ELSE r.route # "login" /\ SetTab(t, [r EXCEPT !.route = "login"])
    /\ NoAct /\ UNCHANGED <<shared, fails>>

\* PushRegistrar: an account looking at its mail has seen what woke it.
ClearWoken(t) ==
    /\ Open(t) /\ ShellUp(tab[t]) /\ tab[t].addr \in woken
    /\ woken' = woken \ {tab[t].addr}
    /\ NoAct /\ UNCHANGED <<keystores, handles, entries, posture, last, bound, tab, fails>>

\* Another device gives the account a new key.
RekeyElsewhere(a) ==
    /\ bound[a] = 1 /\ Act
    /\ bound' = [bound EXCEPT ![a] = 2]
    /\ UNCHANGED <<keystores, handles, entries, posture, last, woken, tab, fails>>

\* A pairing, an import or a change of password wraps the account's current key
\* in a new bundle here.
Rewrap(a) ==
    /\ keystores[a].nonce < 2 /\ Act
    /\ keystores' = [keystores EXCEPT ![a] = [key |-> bound[a], nonce |-> @.nonce + 1]]
    /\ UNCHANGED <<handles, entries, posture, last, woken, bound, tab, fails>>

-----------------------------------------------------------------------------
(* The browser *)

\* A tab signed in as a, with the accounts of S unlocked in its page.
Signed(a, S) ==
    LET r == [NoTab EXCEPT !.st = "open", !.addr = a, !.tok = a, !.keys = [a |-> a, k |-> 1],
                 !.live = [b \in Accounts |-> IF b \in S THEN 1 ELSE 0],
                 !.lock = posture, !.route = "shell", !.armed = posture]
    IN  [r EXCEPT !.ran = RanNow(r)]

\* One tab is open and signed in; its account, or every account, is unlocked in
\* it; the shared unlock opens no account or (when that makes a difference) all.
Init ==
    \E S \in SUBSET Accounts:
        /\ First \in S
        /\ keystores = [b \in Accounts |-> [key |-> 1, nonce |-> 1]]
        /\ bound = [b \in Accounts |-> 1]
        /\ posture \in BOOLEAN
        /\ entries \in {[b \in Accounts |-> [made |-> n, opens |-> n]]: n \in 0..1}
        /\ S # {First} => posture /\ entries[First] = NoEntry
        /\ handles = [x \in Refs |-> IF \E b \in S: x = workingKeyRef(Tab1, posture, b)
                                     THEN 1 ELSE 0]
        /\ last = First /\ woken = {}
        /\ tab = [u \in Tabs |-> IF u = Tab1 THEN Signed(First, S) ELSE NoTab]
        /\ acts = 0 /\ fails = 0

\* What a person (or the notification worker) starts.
Acts(t) ==
    \/ OpenTab(t) \/ Reload(t) \/ Close(t) \/ Visibility(t) \/ Renew(t)
    \/ unlockAll(t) \/ attachAccount(t) \/ detachAccount(t) \/ setLockOnLeave(t)
    \/ \E a \in Accounts: switchTo(t, a) \/ forgetAccount(t, a) \/ Tap(t, a)
    \/ \E all \in BOOLEAN: SignOut(t, all)

\* What then runs by itself.
Runs(t) ==
    \/ Effects(t) \/ LoadRead(t) \/ LoadSet(t) \/ FinishRenew(t)
    \/ SwitchUnlock(t) \/ DeviceUnlock(t) \/ PersistOpened(t) \/ ChooseTarget(t)
    \/ Login(t) \/ PutAway(t) \/ PersistSwitched(t) \/ Adopt(t)
    \/ SignOutClear(t) \/ SignOutLeave(t) \/ LockFires(t) \/ LockClear(t) \/ LockLeave(t)
    \/ AttachRead(t) \/ WriteEntries(t) \/ ForgetHandles(t) \/ ForgetKeystore(t)
    \/ StorePosture(t) \/ applyLockPosture(t) \/ MoveHandle(t) \/ DropHandle(t)
    \/ RouteIntent(t) \/ ClearWoken(t)

Next ==
    \/ \E t \in Tabs: Acts(t) \/ Runs(t)
    \/ \E a \in Accounts: RekeyElsewhere(a) \/ Rewrap(a)

Spec == Init /\ [][Next]_vars

-----------------------------------------------------------------------------
(* Properties *)

OpType == [kind: {"none", "switch", "all", "out", "attach", "detach", "forget", "posture"},
           at: {"none", "unlock", "login", "draft", "read"} \cup LocalStages,
           wk: [a: Accounts \cup {None}, k: Gens \cup {0}], ks: Bundles, open: BOOLEAN,
           todo: SUBSET [a: Accounts, k: Gens \cup {0}],
           snap: [Accounts -> [made: 0..2, opens: 0..2]], warn: BOOLEAN]

TypeOK ==
    /\ keystores \in [Accounts -> Bundles]
    /\ handles \in [Refs -> Gens \cup {0}]
    /\ entries \in [Accounts -> [made: 0..2, opens: 0..2]]
    /\ posture \in BOOLEAN /\ last \in Accounts \cup {None} /\ woken \subseteq Accounts
    /\ bound \in [Accounts -> Gens]
    /\ \A t \in Tabs:
        LET r == tab[t] IN
        /\ r.st \in {"new", "open", "closed"}
        /\ {r.addr, r.tok, r.woke} \subseteq Accounts \cup {None}
        /\ {r.keys, r.intent, r.ran.keys} \subseteq WorkingKeys
        /\ r.live \in [Accounts -> Gens \cup {0}]
        /\ r.op \in OpType
        /\ r.load.at \in {"none", "start", "set"} /\ r.locking \in {"none", "clear", "leave"}

\* Once a tab's effects have run and nothing is loading, the keys it acts with are
\* those of the account it is signed in as, or it has none, however switches,
\* renewals, locks, loads and sign-outs interleave (useAccountSwitch.ts, "nothing
\* ever observes the new key alongside the old session").  Excepted is a page where
\* a renewal was answered in the one window this does not survive, between a state
\* change and the effects that follow it.
KeysMatchSession ==
    \A t \in Tabs:
        Open(t) /\ Settled(tab[t]) /\ ~tab[t].raced => tab[t].keys.a \in {None, tab[t].addr}

\* The bearer the API client sends is a token of the account the tab shows, or
\* none: a renewal left behind by a switch never installs the old account's.
TokenIsSessions == \A t \in Tabs: tab[t].tok \in {None, tab[t].addr}

\* So a tab acts as one account.
ActsAsOne == KeysMatchSession /\ TokenIsSessions

\* After a sign-out or the app lock, a renewal, a load or a reload may bring the
\* session back but never the keys: only an unlock does (default posture, and
\* except where the lock overtook a switch).
SignedOutStaysLocked ==
    \A t \in Tabs: LET r == tab[t] IN
        Open(t) /\ r.out /\ r.lock /\ Settled(r) /\ ~r.crossed => r.keys = NoKeys

\* In a browser with one tab, no failed write and the keystore never replaced, a
\* page that holds an account's keys can be reloaded without a prompt, whatever
\* changes of posture, switches and locks came before; excepted is a lock that
\* fired while a switch was under way, whose handle it then deletes.
ReloadKeepsUnlocked ==
    \A t \in Tabs: LET r == tab[t] IN
        /\ Idle(t) /\ Settled(r) /\ r.locking = "none" /\ ~r.crossed /\ ~r.raced /\ fails = 0
        /\ \A u \in Tabs \ {t}: tab[u].st = "new"
        /\ r.keys # NoKeys /\ keystores[r.keys.a] = [key |-> r.keys.k, nonce |-> 1]
        => handles[workingKeyRef(t, posture, r.keys.a)] = r.keys.k

\* In the lock posture a shell that has come to rest holding keys has its lock
\* armed, whatever was under way when the person left, and even if it was reloaded,
\* switched or signed in while hidden: left alone, it locks.  Excepted is a posture
\* changed in the same page, which useAppLock sees at the next navigation only.
LeftLocks ==
    \A t \in Tabs: LET r == tab[t] IN
        Open(t) /\ Settled(r) /\ ShellUp(r) /\ r.lock /\ ~r.relaxed => r.armed

=============================================================================
