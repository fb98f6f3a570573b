------------------------------- MODULE Drafts -------------------------------
(***************************************************************************)
(* One draft of the web client: the composers that edit it (ComposeDialog),*)
(* the two SaveSchedulers each of them runs, the device copies, the row,   *)
(* body and attachment records on the relay (DraftStore), the Drafts list's*)
(* settle pass, removal by Discard and by Send, and the choice a conflict  *)
(* offers.  A composer is one mount of the dialog: a later mount on the    *)
(* same device is another composer, taken to open once its predecessor's   *)
(* saves are done (Free).  A text is the set of edits it holds; a stamp is *)
(* kept as the set of saves a device copy is newer than.                   *)
(***************************************************************************)
EXTENDS Naturals, FiniteSets

CONSTANTS Composers, Devices,
          Keeps,      \* the devices that keep a copy (not a temporary session)
          First,      \* the composer the draft is begun in
          Layouts,    \* the device each composer runs on
          MaxEdits,   \* edits typed
          Parts,      \* attachments
          Flaky,      \* devices whose calls may fail and whose tab may die (a bound)
          MaxFails,   \* calls that fail and tabs that die
          None

Savers == {"device", "relay"}
Callers == {"bg", "away"}       \* a flush() nobody awaits; putAway's
\* The saves to the relay: a scheduler's, "keep this copy"'s, the settle pass's.
Uploads == (Composers \X {"relay", "keep"}) \cup (Devices \X {"settle"})
Jobs == (Composers \X {"device", "remove"}) \cup Uploads

Edits == 1..MaxEdits
Docs == [text : SUBSET Edits, parts : SUBSET Parts]
Bases == [head : Nat, body : Nat, parts : SUBSET Parts]
Rows == [ver : Nat, parts : SUBSET Parts]
Bodies == [ver : Nat, text : SUBSET Edits]
Copies == [doc : Docs, base : Bases, newer : SUBSET Uploads]
\* What is in flight: a device save, a save to the relay, a removal.
Puts == [step : {"put"}, res : {"ok", "fail"}, owner : Callers]
Saves == [step : {"parts", "body", "head", "drop", "check", "clear", "gone"}, doc : Docs,
          base : Bases, force : BOOLEAN, owner : Callers]
Removals == [step : {"wait", "wait other", "local", "other", "rm head", "rm body", "rm parts"}]

ASSUME DraftsAssumption ==
    /\ Keeps \subseteq Devices /\ Flaky \subseteq Devices
    /\ First \in Composers /\ Layouts \subseteq [Composers -> Devices]
    /\ MaxEdits \in Nat /\ MaxFails \in Nat
    /\ None \notin Rows \cup Bodies \cup Copies \cup Puts \cup Saves \cup Removals
    /\ None \notin Savers \cup {"kept", "ok", "fail"}

VARIABLES head, body, parts,   \* the relay's records of the draft
          local,               \* device -> its copy
          dev,                 \* composer -> the device it runs on
          st,                  \* composer -> "new", "loading", "open", "shut"
          doc, base,           \* composer -> its message, baseRef
          mark,                \* composer -> the refs that are set
          dirty,               \* composer -> schedulers with a change pending
          waits,               \* composer -> scheduler -> flush() calls waiting
          away, answer,        \* composer -> putAway's await, and what it got
          job,                 \* the saves and removals in flight
          fails,
          fate, settled,       \* edit -> what became of it; those settleLocal dropped
          removed              \* the draft was removed once: versions start again
relay == <<head, body, parts>>
refs == <<dev, st, doc, base, mark>>
sched == <<dirty, waits, away, answer>>
past == <<fate, settled, removed>>
vars == <<relay, local, refs, sched, job, fails, past>>

\* keepsLocal: a temporary session keeps no copy, and its device saver has
\* nothing to do.
KeepsLocal(d) == d \in Keeps
Own(c) == IF KeepsLocal(dev[c]) THEN Savers ELSE {"relay"}
Home(j) == IF j[2] = "settle" THEN j[1] ELSE dev[j[1]]

Blank == [text |-> {}, parts |-> {}]
NewBase == [head |-> 0, body |-> 0, parts |-> {}]
Ver(r) == IF r = None THEN 0 ELSE r.ver
Is(c, m) == m \in mark[c]

\* What became of each edit: saved somewhere, kept by putAway, or gone with
\* a decision or an accident.
Gone(es, f) == [e \in Edits |-> IF e \in es /\ fate[e] # "dropped" THEN f ELSE fate[e]]
Saved(es) == [e \in Edits |-> IF e \in es /\ fate[e] \notin {"kept", "dropped"} THEN "saved" ELSE fate[e]]

\* A call to the relay works, fails with its effect done (the answer is lost),
\* or fails without; a failed IndexedDB write has no effect.
Outcome(d, out) ==
    /\ out # "ok" => fails < MaxFails /\ d \in Flaky
    /\ fails' = IF out = "ok" THEN fails ELSE fails + 1
Outcomes == {"ok", "lost", "none"}
----------------------------------------------------------------------------
(* SaveScheduler *)

\* touch(): nothing once the scheduler is disposed.  A timer is set whenever a
\* change is pending and no flush() is waiting to save it.
Touch(c, ss) ==
    dirty' = [dirty EXCEPT ![c] = IF Is(c, "disposed") THEN @ ELSE @ \cup ss]
Armed(c, s) == s \in dirty[c] /\ ~Is(c, "disposed") /\ waits[c][s] = {}

\* flush() waits out a run; Resume goes on from there.  One that nobody awaits
\* is of no account when nothing is pending or running.
Flushing(c, ss, w) ==
    [waits EXCEPT ![c] = [s \in Savers |->
        IF s \in ss /\ (w = "away" \/ s \in dirty[c] \/ job[<<c, s>>] # None)
        THEN @[s] \cup {w} ELSE @[s]]]

\* A run of scheduler s ended: a failure leaves the change pending.
\* Mutant: a failed run is not made up for.
EndedForGood(c, s, res) ==
    /\ job' = [job EXCEPT ![<<c, s>>] = None]
    /\ answer' = IF job[<<c, s>>].owner = "away" THEN [answer EXCEPT ![c] = res] ELSE answer
    /\ UNCHANGED dirty
Ended(c, s, res) ==
    /\ job' = [job EXCEPT ![<<c, s>>] = None]
    /\ dirty' = IF res = "fail" THEN [dirty EXCEPT ![c] = @ \cup {s}] ELSE dirty
    /\ answer' = IF job[<<c, s>>].owner = "away" THEN [answer EXCEPT ![c] = res] ELSE answer

\* What a save starts with.  A save is newer than every device copy so far.
\* Mutant: the row is put before the body.
SaveRowFirst(d, b, forced, w) ==
    [step |-> "head", doc |-> d, base |-> b, force |-> forced, owner |-> w]
\* Mutant: new attachments are not uploaded.
SaveWithoutParts(d, b, forced, w) ==
    [step |-> "body", doc |-> d, base |-> b, force |-> forced, owner |-> w]
Save(d, b, forced, w) ==
    [step |-> IF d.parts \subseteq b.parts THEN "body" ELSE "parts", doc |-> d, base |-> b,
     force |-> forced, owner |-> w]
StartSave(j, r) ==
    /\ job' = [job EXCEPT ![j] = r]
    /\ local' = [d \in Devices |->
            IF local[d] = None THEN None ELSE [local[d] EXCEPT !.newer = local[d].newer \ {j}]]
\* saveLocal(): IndexedDB applies writes in the order they are issued, and
\* answers later; a copy is newer than the saves in flight.  A temporary
\* session keeps none.
StartPut(c, w) ==
    LET d == dev[c] IN
    \E out \in IF KeepsLocal(d) THEN {"ok", "none"} ELSE {"ok"} :
        /\ Outcome(d, out)
        /\ job' = [job EXCEPT ![<<c, "device">>] =
                [step |-> "put", owner |-> w, res |-> IF out = "ok" THEN "ok" ELSE "fail"]]
        /\ IF KeepsLocal(d) /\ out = "ok"
           THEN /\ local' = [local EXCEPT ![d] =
                        [doc |-> doc[c], base |-> base[c],
                         newer |-> {k \in Uploads : job[k] # None /\ Home(k) = d}]]
                /\ fate' = Saved(doc[c].text)
           ELSE UNCHANGED <<local, fate>>

HasContent(c) == doc[c] # Blank
\* snapshot() finds nothing to save, or the relay save waits for a choice.
Mute(c, s) ==
    \/ ~Is(c, "edited") \/ Is(c, "done")
    \/ ~Is(c, "id") /\ ~HasContent(c)
    \/ s = "relay" /\ Is(c, "conflict")

\* flush() past its wait: the change pending is saved, or nothing is pending.
Resume(c, s, w) ==
    /\ w \in waits[c][s] /\ job[<<c, s>>] = None
    /\ waits' = [waits EXCEPT ![c] = [@ EXCEPT ![s] = waits[c][s] \ {w}]]
    /\ dirty' = [dirty EXCEPT ![c] = @ \ {s}]
    /\ IF s \in dirty[c] /\ ~Mute(c, s)
       THEN /\ IF s = "device" THEN StartPut(c, w)
               ELSE StartSave(<<c, s>>, Save(doc[c], base[c], FALSE, w)) /\ UNCHANGED <<fails, fate>>
            /\ mark' = [mark EXCEPT ![c] = @ \cup {"id"}]
            /\ UNCHANGED answer
       ELSE /\ answer' = IF w = "away" THEN [answer EXCEPT ![c] = "ok"] ELSE answer
            /\ UNCHANGED <<job, local, mark, fails, fate>>
    /\ UNCHANGED <<relay, dev, st, doc, base, away, settled, removed>>

\* The timer set by touch() or by a failure.
Fire(c, s) ==
    /\ Armed(c, s)
    /\ waits' = Flushing(c, {s}, "bg")
    /\ UNCHANGED <<relay, local, refs, dirty, away, answer, job, fails, past>>

\* Continuations run before any other event of the page.
Busy(d) ==
    \E c \in Composers :
        /\ dev[c] = d
        /\ (answer[c] # None \/ \E s \in Savers : waits[c][s] # {} /\ job[<<c, s>>] = None)
----------------------------------------------------------------------------
(* DraftStore: the steps of save(), clearLocal() and delete() *)

Goto(j, r) == job' = [job EXCEPT ![j] = r]

\* save() threw something other than a conflict.
Failed(j) ==
    CASE j[2] = "relay" -> Ended(j[1], "relay", "fail")
      [] j[2] = "keep" -> Touch(j[1], {"relay"}) /\ Goto(j, None) /\ UNCHANGED answer
      [] OTHER -> Goto(j, None) /\ UNCHANGED <<dirty, answer>>
\* The caller of save() is done with it.
Settled(j) ==
    IF j[2] = "relay" THEN Ended(j[1], "relay", "ok")
    ELSE Goto(j, None) /\ UNCHANGED <<dirty, answer>>
Onward(j, r) == Goto(j, r) /\ UNCHANGED <<dirty, answer>>
\* A DraftConflictError: the composer stops saving, the settle pass asks
\* whether the draft is still stored.
Conflicted(j) ==
    /\ IF j[2] = "relay" THEN /\ mark' = [mark EXCEPT ![j[1]] = @ \cup {"conflict"}]
                              /\ Ended(j[1], "relay", "ok")
       ELSE Onward(j, [job[j] EXCEPT !.step = "gone"]) /\ UNCHANGED mark
    /\ UNCHANGED <<relay, base, fails, fate>>
\* save() returned: baseRef takes the versions, and clearLocal() is called.
Returned(j, b) ==
    /\ base' = IF j[2] = "settle" THEN base ELSE [base EXCEPT ![j[1]] = b]
    /\ IF KeepsLocal(Home(j)) THEN Onward(j, [job[j] EXCEPT !.step = "check", !.base = b])
       ELSE Settled(j)

PutParts(j) ==
    \E out \in Outcomes :
        LET r == job[j] IN
        /\ Outcome(Home(j), out)
        /\ parts' = IF out = "none" THEN parts ELSE parts \cup (r.doc.parts \ r.base.parts)
        /\ IF out # "ok" THEN Failed(j)
           ELSE Onward(j, [r EXCEPT !.step = "body", !.base = [@ EXCEPT !.parts = r.base.parts \cup r.doc.parts]])
        /\ UNCHANGED <<head, body, base, mark, fate>>

\* A put finds the record at another version than it names; 0 names none.
\* Mutant: a version that moved on is not noticed.
NeverStale(expect, cur, r) == FALSE
Stale(expect, cur, r) == ~r.force /\ expect # 0 /\ expect # cur

PutBody(j) ==
    LET r == job[j] v == Ver(body) + 1 IN
    \/ Stale(r.base.body, Ver(body), r) /\ Conflicted(j)
    \/ /\ ~Stale(r.base.body, Ver(body), r)
       /\ \E out \in Outcomes :
            /\ Outcome(Home(j), out)
            /\ body' = IF out = "none" THEN body ELSE [ver |-> v, text |-> r.doc.text]
            /\ fate' = IF out = "none" \/ body = None THEN fate
                       ELSE IF r.force THEN Gone(body.text \ r.doc.text, "dropped")
                       ELSE IF r.base.body = 0 \/ removed THEN Gone(body.text \ r.doc.text, "overrun")
                       ELSE fate
            /\ IF out # "ok" THEN Failed(j)
               ELSE Onward(j, [r EXCEPT !.step = "head", !.base = [@ EXCEPT !.body = v]])
       /\ UNCHANGED <<head, parts, base, mark>>

PutHead(j) ==
    LET r == job[j] v == Ver(head) + 1 b == [r.base EXCEPT !.head = v] IN
    \/ Stale(r.base.head, Ver(head), r) /\ Conflicted(j)
    \/ /\ ~Stale(r.base.head, Ver(head), r)
       /\ \E out \in Outcomes :
            /\ Outcome(Home(j), out)
            /\ head' = IF out = "none" THEN head
                       ELSE [ver |-> v, parts |-> r.doc.parts]
            /\ fate' = IF out = "none" \/ body = None THEN fate ELSE Saved(r.doc.text \cap body.text)
            /\ IF out # "ok" THEN Failed(j) /\ UNCHANGED base
               ELSE IF b.parts \subseteq r.doc.parts THEN Returned(j, b)
               ELSE Onward(j, [r EXCEPT !.step = "drop", !.base = b]) /\ UNCHANGED base
       /\ UNCHANGED <<body, parts, mark>>

\* Parts taken out of the message; a failure leaves them to the next save.
DropParts(j) ==
    \E out \in Outcomes :
        LET r == job[j] gone == r.base.parts \ r.doc.parts IN
        /\ Outcome(Home(j), out)
        /\ parts' = IF out = "none" THEN parts ELSE parts \ gone
        /\ Returned(j, [r.base EXCEPT !.parts = IF out = "ok" THEN r.base.parts \ gone ELSE r.base.parts])
        /\ UNCHANGED <<head, body, mark, fate>>

SaveStep(j) ==
    /\ job[j] # None
    /\ \/ job[j].step = "parts" /\ PutParts(j)
       \/ job[j].step = "body" /\ PutBody(j)
       \/ job[j].step = "head" /\ PutHead(j)
       \/ job[j].step = "drop" /\ DropParts(j)
    /\ UNCHANGED <<local, dev, st, doc, waits, away, settled, removed>>

\* clearLocal(id, at) reads the device copy, and removes it in a second
\* transaction unless it was newer.
ClearRead(j) ==
    /\ job[j] # None /\ job[j].step = "check"
    /\ IF local[Home(j)] # None /\ j \in local[Home(j)].newer THEN Settled(j)
       ELSE Onward(j, [job[j] EXCEPT !.step = "clear"])
    /\ UNCHANGED <<relay, local, refs, waits, away, fails, past>>
ClearDelete(j) ==
    LET l == local[Home(j)] IN
    /\ job[j] # None /\ job[j].step = "clear"
    /\ local' = [local EXCEPT ![Home(j)] = None]
    /\ fate' = IF l # None /\ j \in l.newer THEN Gone(l.doc.text, "raced") ELSE fate
    /\ Settled(j)
    /\ UNCHANGED <<relay, refs, waits, away, fails, settled, removed>>

DevicePut(c) ==
    /\ job[<<c, "device">>] # None
    /\ Ended(c, "device", job[<<c, "device">>].res)
    /\ UNCHANGED <<relay, local, refs, waits, away, fails, past>>

\* The composers of a device have nothing in flight and no timer set.
Quiet(d) ==
    /\ \A j \in Jobs : j[2] # "settle" /\ Home(j) = d => job[j] = None
    /\ \A c \in Composers, s \in Savers : dev[c] = d => ~Armed(c, s)

\* settleLocal(): a copy no composer of the tab has open is uploaded, once it
\* is older than LOCAL_SETTLE_MS, by when every timer (15 s at most) has fired
\* and every call has been answered;
\* on a conflict it is dropped if its draft is no longer stored.
Settle(d) ==
    /\ local[d] # None /\ job[<<d, "settle">>] = None /\ Quiet(d)
    /\ \A c \in Composers : dev[c] = d => st[c] # "open"
    /\ local' = [local EXCEPT ![d] = [@ EXCEPT !.newer = local[d].newer \ {<<d, "settle">>}]]
    /\ Goto(<<d, "settle">>, Save(local[d].doc, local[d].base, FALSE, "bg"))
    /\ UNCHANGED <<relay, refs, sched, fails, past>>
SettleGone(d) ==
    LET j == <<d, "settle">> IN
    /\ job[j] # None /\ job[j].step = "gone"
    /\ \E out \in {"ok", "none"} :
        LET gone == out = "ok" /\ job[j].base.head > 0 /\ head = None IN
        /\ Outcome(d, out)
        /\ Goto(j, IF gone THEN [job[j] EXCEPT !.step = "check"] ELSE None)
        /\ settled' = IF gone THEN settled \cup job[j].doc.text ELSE settled
    /\ UNCHANGED <<relay, local, refs, sched, fate, removed>>
----------------------------------------------------------------------------
(* ComposeDialog, and the shell that opens it *)

\* One composer of a tab at a time, the last one's saves done.
Free(c) ==
    /\ st[c] = "new" /\ Quiet(dev[c])
    /\ \A b \in Composers : dev[b] = dev[c] => st[b] \in {"new", "shut"}
Opened(c, d, b, m) ==
    /\ st' = [st EXCEPT ![c] = "open"] /\ doc' = [doc EXCEPT ![c] = d]
    /\ base' = [base EXCEPT ![c] = b] /\ mark' = [mark EXCEPT ![c] = m]

\* A new message; the draft is the first one written.
OpenNew(c) ==
    /\ Free(c) /\ c = First
    /\ Opened(c, Blank, NewBase, {})
    /\ UNCHANGED <<relay, local, dev, sched, job, fails, past>>
\* load(): the device's copy if it has one, else the relay's row, then its body.
OpenDraft(c) ==
    /\ Free(c)
    /\ \/ /\ local[dev[c]] # None
          /\ Opened(c, local[dev[c]].doc, local[dev[c]].base, {"id"})
       \/ /\ local[dev[c]] = None /\ head # None
          /\ st' = [st EXCEPT ![c] = "loading"]
          /\ doc' = [doc EXCEPT ![c] = [text |-> {}, parts |-> head.parts]]
          /\ base' = [base EXCEPT ![c] = [NewBase EXCEPT !.head = head.ver]]
          /\ UNCHANGED mark
    /\ UNCHANGED <<relay, local, dev, sched, job, fails, past>>
LoadBody(c) ==
    LET has == doc[c].parts \cap parts IN
    /\ st[c] = "loading"
    /\ IF body = None THEN st' = [st EXCEPT ![c] = "shut"] /\ UNCHANGED <<doc, base, mark>>
       ELSE Opened(c, [doc[c] EXCEPT !.text = body.text, !.parts = has],
                      [base[c] EXCEPT !.body = body.ver, !.parts = has], {"id"})
    /\ UNCHANGED <<relay, local, dev, sched, job, fails, past>>

\* markEdited(): text is typed, and parts attached or taken out.
Write(c, d) ==
    /\ doc' = [doc EXCEPT ![c] = d]
    /\ mark' = [mark EXCEPT ![c] = @ \cup {"edited"}]
    /\ Touch(c, Own(c))
    /\ UNCHANGED <<relay, local, dev, st, base, waits, away, answer, job, fails, settled, removed>>
Type(c, e) ==
    /\ st[c] = "open" /\ ~Is(c, "done") /\ fate[e] = "unused"
    /\ \A f \in 1..e - 1 : fate[f] # "unused"
    /\ fate' = [fate EXCEPT ![e] = "typed"]
    /\ \E ps \in SUBSET Parts :
        Write(c, [text |-> doc[c].text \cup {e}, parts |-> ps])

\* The shell unmounts the composer (signed out, locked) and both savers are
\* flushed, as they are when the page is hidden (the two timers, at once).
Closing(c) ==
    st' = [st EXCEPT ![c] = "shut"] /\ waits' = Flushing(c, Savers, "bg")
Unmount(c) ==
    /\ st[c] = "open" /\ Closing(c)
    /\ UNCHANGED <<relay, local, dev, doc, base, mark, dirty, away, answer, job, fails, past>>

\* removeDraft() and openOtherCopy(): both savers are abandoned, and their
\* runs waited out; then the draft is deleted, or only this device's copy.
Abandon(c, first) ==
    /\ job' = [job EXCEPT ![<<c, "remove">>] = [step |-> first]]
    /\ mark' = [mark EXCEPT ![c] = @ \cup {"done", "disposed"}]
    /\ dirty' = [dirty EXCEPT ![c] = {}]
    /\ fate' = Gone(doc[c].text, "dropped")
Discard(c) ==
    /\ st[c] = "open" /\ ~Is(c, "done")
    /\ Abandon(c, "wait") /\ Closing(c)
    /\ UNCHANGED <<relay, local, dev, doc, base, away, answer, fails, settled, removed>>
\* abandon() waits for the run it finds, of both savers.
\* Mutant: only the device saver is waited for.
IdleDevice(c) == job[<<c, "device">>] = None
Idle(c) == \A s \in Savers : job[<<c, s>>] = None
Remove(c) ==
    LET j == <<c, "remove">> d == dev[c] IN
    /\ job[j] # None
    /\ \/ /\ job[j].step \in {"wait", "wait other"}
          /\ Idle(c)
          /\ Goto(j, IF Is(c, "id") THEN [job[j] EXCEPT !.step = IF @ = "wait" THEN "local" ELSE "other"]
                     ELSE None)
          /\ UNCHANGED <<relay, local, st, fails, fate>>
       \/ /\ job[j].step \in {"local", "other"}
          /\ local' = [local EXCEPT ![d] = None]
          /\ fate' = IF local[d] # None THEN Gone(local[d].doc.text, "dropped") ELSE fate
          /\ Goto(j, IF job[j].step = "local" THEN [job[j] EXCEPT !.step = "rm head"] ELSE None)
          /\ st' = [st EXCEPT ![c] = "shut"]
          /\ UNCHANGED <<relay, fails>>
       \/ /\ job[j].step \in {"rm head", "rm body", "rm parts"}
          /\ \E out \in Outcomes :
                LET hits(k) == job[j].step = k /\ out # "none" IN
                /\ Outcome(d, out)
                /\ head' = IF hits("rm head") THEN None ELSE head
                /\ body' = IF hits("rm body") THEN None ELSE body
                /\ parts' = IF hits("rm parts") THEN {} ELSE parts
                /\ fate' = IF (hits("rm head") \/ hits("rm body")) /\ body # None THEN Gone(body.text, "dropped") ELSE fate
                /\ Goto(j, IF out # "ok" \/ job[j].step = "rm parts" THEN None
                           ELSE [job[j] EXCEPT !.step = IF @ = "rm head" THEN "rm body" ELSE "rm parts"])
          /\ UNCHANGED <<local, st>>
    /\ removed' = (removed \/ job[j].step = "rm head")
    /\ UNCHANGED <<dev, doc, base, mark, sched, settled>>

\* The choice after a conflict.
KeepThisCopy(c) ==
    /\ st[c] = "open" /\ Is(c, "conflict") /\ ~Is(c, "done") /\ job[<<c, "keep">>] = None
    /\ mark' = [mark EXCEPT ![c] = @ \ {"conflict"}]
    /\ StartSave(<<c, "keep">>, Save(doc[c], NewBase, TRUE, "bg"))
    /\ UNCHANGED <<relay, dev, st, doc, base, sched, fails, past>>
OpenOtherCopy(c) ==
    /\ st[c] = "open" /\ Is(c, "conflict") /\ ~Is(c, "done")
    /\ Abandon(c, "wait other")
    /\ UNCHANGED <<relay, local, dev, st, doc, base, waits, away, answer, fails, settled, removed>>

\* putAway(): nothing changed, or the device copy first and then the relay,
\* which is waited for no longer than PUT_AWAY_WAIT_MS.  A message emptied out
\* is discarded.
PutAway(c) ==
    /\ st[c] = "open" /\ away[c] = None /\ ~Is(c, "done")
    /\ IF ~Is(c, "edited") THEN st' = [st EXCEPT ![c] = "shut"] /\ UNCHANGED <<waits, away>>
       ELSE LET s == IF KeepsLocal(dev[c]) THEN "device" ELSE "relay" IN
            /\ away' = [away EXCEPT ![c] = s]
            /\ waits' = Flushing(c, {s}, "away")
            /\ UNCHANGED st
    /\ UNCHANGED <<relay, local, dev, doc, base, mark, dirty, answer, job, fails, past>>

\* The last lines of putAway(): both timers stop and the composer closes, or
\* it stays open and says the draft could not be saved.
Stop(c, ok) ==
    /\ away' = [away EXCEPT ![c] = None]
    /\ IF ok THEN /\ mark' = [mark EXCEPT ![c] = @ \cup {"disposed"}]
                  /\ st' = [st EXCEPT ![c] = "shut"]
       ELSE UNCHANGED <<mark, st>>
KeptNow(c) == [e \in Edits |-> IF e \in doc[c].text /\ fate[e] = "saved" THEN "kept" ELSE fate[e]]

AwayDevice(c) ==
    LET ok == answer[c] = "ok" IN
    /\ away[c] = "device" /\ answer[c] # None
    /\ answer' = [answer EXCEPT ![c] = None]
    /\ away' = [away EXCEPT ![c] = IF ok THEN "kept" ELSE "relay"]
    /\ waits' = [waits EXCEPT ![c] = [s \in Savers |->
            @[s] \cup (IF ok /\ s \in dirty[c] THEN {"bg"} ELSE {})
                 \cup (IF s = "relay" THEN {"away"} ELSE {})]]
    /\ st' = IF ok THEN [st EXCEPT ![c] = "shut"] ELSE st
    /\ fate' = IF ok /\ ~Is(c, "done") THEN KeptNow(c) ELSE fate
    /\ UNCHANGED <<relay, local, dev, doc, base, mark, dirty, job, fails, settled, removed>>
AwayRelay(c) ==
    LET reached == answer[c] = "ok" /\ ~Is(c, "conflict") IN
    /\ away[c] \in {"relay", "kept"} /\ answer[c] # None
    /\ answer' = [answer EXCEPT ![c] = None]
    /\ Stop(c, reached \/ away[c] = "kept")
    /\ waits' = IF reached /\ away[c] = "relay" THEN Flushing(c, Savers, "bg") ELSE waits
    /\ fate' = IF reached /\ away[c] = "relay" /\ ~Is(c, "done") THEN KeptNow(c) ELSE fate
    /\ UNCHANGED <<relay, local, dev, doc, base, dirty, job, fails, settled, removed>>
\* within(): the wait for the relay is bounded, with a device copy or without.
\* Mutant: only a composer with a device copy stops waiting.
BoundedOnceKept(c) == away[c] = "kept"
Bounded(c) == away[c] \in {"relay", "kept"}
AwayTimeout(c) ==
    /\ Bounded(c) /\ answer[c] = None
    /\ waits' = IF "away" \in waits[c]["relay"]
                THEN [waits EXCEPT ![c] = [@ EXCEPT !["relay"] = (waits[c]["relay"] \ {"away"}) \cup {"bg"}]] ELSE waits
    /\ job' = IF "away" \in waits[c]["relay"] \/ job[<<c, "relay">>] = None THEN job
              ELSE [job EXCEPT ![<<c, "relay">>] = [@ EXCEPT !.owner = "bg"]]
    /\ Stop(c, away[c] = "kept")
    /\ UNCHANGED <<relay, local, dev, doc, base, dirty, answer, fails, past>>

\* The tab dies, with everything it had in flight.
Crash(d) ==
    LET mine == {c \in Composers : dev[c] = d /\ st[c] # "new"} IN
    /\ mine # {} /\ d \in Flaky /\ fails < MaxFails /\ fails' = fails + 1
    /\ job' = [j \in Jobs |-> IF Home(j) = d THEN None ELSE job[j]]
    /\ st' = [c \in Composers |-> IF c \in mine THEN "shut" ELSE st[c]]
    /\ dirty' = [c \in Composers |-> IF c \in mine THEN {} ELSE dirty[c]]
    /\ waits' = [c \in Composers |-> IF c \in mine THEN [s \in Savers |-> {}] ELSE waits[c]]
    /\ away' = [c \in Composers |-> IF c \in mine THEN None ELSE away[c]]
    /\ UNCHANGED <<relay, local, dev, doc, base, mark, answer, past>>
----------------------------------------------------------------------------
Init ==
    /\ head = None /\ body = None /\ parts = {}
    /\ local = [d \in Devices |-> None]
    /\ dev \in Layouts
    /\ st = [c \in Composers |-> "new"]
    /\ doc = [c \in Composers |-> Blank] /\ base = [c \in Composers |-> NewBase]
    /\ mark = [c \in Composers |-> {}]
    /\ dirty = [c \in Composers |-> {}]
    /\ waits = [c \in Composers |-> [s \in Savers |-> {}]]
    /\ away = [c \in Composers |-> None] /\ answer = [c \in Composers |-> None]
    /\ job = [j \in Jobs |-> None]
    /\ fails = 0 /\ fate = [e \in Edits |-> "unused"] /\ settled = {} /\ removed = FALSE

Continue(c) ==
    \/ \E s \in Savers, w \in Callers : Resume(c, s, w)
    \/ AwayDevice(c) \/ AwayRelay(c)
Work(j) ==
    \/ j \in Uploads /\ (SaveStep(j) \/ ClearRead(j) \/ ClearDelete(j))
    \/ j[2] = "device" /\ DevicePut(j[1])
    \/ j[2] = "remove" /\ Remove(j[1])
    \/ j[2] = "settle" /\ SettleGone(j[1])
Person(c) ==
    \/ OpenNew(c) \/ OpenDraft(c) \/ LoadBody(c)
    \/ \E e \in Edits : Type(c, e)
    \/ Unmount(c) \/ PutAway(c) \/ Discard(c)
    \/ KeepThisCopy(c) \/ OpenOtherCopy(c)
Events(d) ==
    \/ \E j \in Jobs : Home(j) = d /\ Work(j)
    \/ \E c \in Composers : /\ dev[c] = d
                             /\ (Person(c) \/ AwayTimeout(c) \/ \E s \in Savers : Fire(c, s))
    \/ Settle(d) \/ Crash(d)
Next == \E d \in Devices :
    \/ \E c \in Composers : dev[c] = d /\ Continue(c)
    \/ ~Busy(d) /\ Events(d)
\* The page runs its continuations and timers, and IndexedDB answers; nothing is
\* assumed of the relay, whose calls have no timeout.
Fairness ==
    \A c \in Composers :
        /\ WF_vars(Continue(c))
        /\ WF_vars(~Busy(dev[c]) /\ DevicePut(c))
        /\ WF_vars(~Busy(dev[c]) /\ Fire(c, "device"))
        /\ WF_vars(~Busy(dev[c]) /\ AwayTimeout(c))
Spec == Init /\ [][Next]_vars /\ Fairness
----------------------------------------------------------------------------
\* The shape of the state; and a temporary session (DraftStore with keepLocal
\* false) never leaves a copy on its device.
TypeOK ==
    /\ head \in Rows \cup {None} /\ body \in Bodies \cup {None} /\ parts \subseteq Parts
    /\ local \in [Devices -> Copies \cup {None}] /\ \A d \in Devices \ Keeps : local[d] = None
    /\ dev \in Layouts /\ st \in [Composers -> {"new", "loading", "open", "shut"}]
    /\ doc \in [Composers -> Docs] /\ base \in [Composers -> Bases]
    /\ mark \in [Composers -> SUBSET {"id", "edited", "done", "conflict", "disposed"}]
    /\ dirty \in [Composers -> SUBSET Savers] /\ waits \in [Composers -> [Savers -> SUBSET Callers]]
    /\ away \in [Composers -> {"device", "relay", "kept", None}]
    /\ answer \in [Composers -> {"ok", "fail", None}]
    /\ job \in [Jobs -> Puts \cup Saves \cup Removals \cup {None}]
    /\ \A c \in Composers : /\ job[<<c, "device">>] \in Puts \cup {None}
                            /\ job[<<c, "remove">>] \in Removals \cup {None}
    /\ \A j \in Uploads : job[j] \in Saves \cup {None}
    /\ fails \in 0..MaxFails
    /\ fate \in [Edits -> {"unused", "typed", "saved", "kept", "dropped", "overrun", "raced"}]
    /\ settled \subseteq Edits /\ removed \in BOOLEAN

\* An edit once written to the device or the relay stays in the stored draft or
\* in a device's copy, whatever composers, failing calls, dying tabs and the
\* settle pass do, until a person drops it (Discard, Send, "keep this copy",
\* "open the other copy") or one of three accidents of the code takes it: a
\* save that names no version, clearLocal()'s two transactions, or
\* settleLocal() with the row gone.
Somewhere(e) ==
    \/ head # None /\ body # None /\ e \in body.text
    \/ \E d \in Devices : local[d] # None /\ e \in local[d].doc.text
SavedStays ==
    \A e \in Edits : fate[e] \in {"saved", "kept"} /\ e \notin settled => Somewhere(e)

\* Once removeDraft() has waited out its two savers, neither runs again, though
\* a failed run leaves its change pending and a flush() was waiting behind it.
Past(c) == job[<<c, "remove">>] = None \/ job[<<c, "remove">>].step \notin {"wait", "wait other"}
RemovedIsSilent ==
    \A c \in Composers : Is(c, "done") /\ Past(c) => \A s \in Savers : job[<<c, s>>] = None

\* "The row ... never points at a body that is not there" (DraftStore.save),
\* with the steps of two saves interleaved and any of them failing, as long as
\* the draft was not removed.
RowHasBody == head # None /\ ~removed => body # None

\* Nor does a row name a part that is not stored (one composer at work).
RowHasParts == head # None /\ ~removed => head.parts \subseteq parts

\* putAway() comes to an end though the relay may never answer.
PutAwayEnds == \A c \in Composers : away[c] # None ~> away[c] = None

\* What is typed on a device that keeps copies is saved, a failed save being
\* tried again, unless the composer goes away first.
TypedIsSaved ==
    \A c \in Composers, e \in Edits :
        (/\ dev[c] \in Keeps /\ st[c] = "open" /\ e \in doc[c].text
         /\ fate[e] = "typed") ~> (fate[e] # "typed" \/ st[c] = "shut")
=============================================================================
