---------------------------- MODULE DraftsProofs ----------------------------
(***************************************************************************)
(* What the steps of a draft do, for any composers, devices, layouts,      *)
(* edits, parts and failures: each keeps the state's shape, and is one     *)
(* composer's, or one save's, and leaves the others alone.  Most are Calm: *)
(* they store nothing and take nothing away.  On these lemmas: the types,  *)
(* the silence of a removed draft, and the row that never points at a body *)
(* that is not there.  DraftsKeptProofs shows that what was saved stays.   *)
(***************************************************************************)
EXTENDS Drafts, TLAPS

\* The parts of TypeOK.
RelayOK == head \in Rows \cup {None} /\ body \in Bodies \cup {None} /\ parts \subseteq Parts
CopyOK == local \in [Devices -> Copies \cup {None}] /\ \A d \in Devices \ Keeps : local[d] = None
RefOK ==
    /\ dev \in Layouts /\ st \in [Composers -> {"new", "loading", "open", "shut"}]
    /\ doc \in [Composers -> Docs] /\ base \in [Composers -> Bases]
    /\ mark \in [Composers -> SUBSET {"id", "edited", "done", "conflict", "disposed"}]
SchedOK ==
    /\ dirty \in [Composers -> SUBSET Savers] /\ waits \in [Composers -> [Savers -> SUBSET Callers]]
    /\ away \in [Composers -> {"device", "relay", "kept", None}]
    /\ answer \in [Composers -> {"ok", "fail", None}]
JobOK ==
    /\ job \in [Jobs -> Puts \cup Saves \cup Removals \cup {None}]
    /\ \A c \in Composers : /\ job[<<c, "device">>] \in Puts \cup {None}
                            /\ job[<<c, "remove">>] \in Removals \cup {None}
    /\ \A j \in Uploads : job[j] \in Saves \cup {None}
Fates == [Edits -> {"unused", "typed", "saved", "kept", "dropped", "overrun", "raced"}]
PastOK ==
    /\ fails \in 0..MaxFails /\ fate \in Fates
    /\ settled \subseteq Edits /\ removed \in BOOLEAN

\* A composer that is not open yet has set nothing going.
Kinds == {"device", "relay", "keep", "remove"}
Fresh(c) ==
    /\ mark[c] = {} /\ dirty[c] = {} /\ \A s \in Savers : waits[c][s] = {}
    /\ away[c] = None /\ answer[c] = None
    /\ \A k \in Kinds : job[<<c, k>>] = None
FreshUntilOpen == \A c \in Composers : st[c] \in {"new", "loading"} => Fresh(c)

Shape == TypeOK /\ FreshUntilOpen

\* A composer that is open, or may still change something.
Live(c) ==
    \/ st[c] \in {"loading", "open"} \/ answer[c] # None
    \/ \E s \in Savers : waits[c][s] # {} \/ Armed(c, s)
    \/ \E k \in Kinds : job[<<c, k>>] # None

\* Its savers are silent once its removal has waited for them.
Silent(c) == Is(c, "done") /\ Past(c) => \A s \in Savers : job[<<c, s>>] = None
\* Its removal is past the row.
Clears(c) == job[<<c, "remove">>] # None /\ job[<<c, "remove">>].step \in {"rm body", "rm parts"}

\* A step of another composer, or of the settle pass.
Still(b) ==
    /\ st'[b] = st[b] /\ doc'[b] = doc[b] /\ mark'[b] = mark[b]
    /\ dirty'[b] = dirty[b] /\ waits'[b] = waits[b] /\ away'[b] = away[b] /\ answer'[b] = answer[b]
    /\ \A k \in Kinds : job'[<<b, k>>] = job[<<b, k>>]
\* A step of an opened composer: the others keep still, its text only grows,
\* and it does not come to life.
Acts(c) ==
    /\ UNCHANGED <<dev, base>> /\ \A b \in Composers \ {c} : Still(b)
    /\ \A d \in Devices : job'[<<d, "settle">>] = job[<<d, "settle">>]
    /\ Live(c)' => Live(c)
    /\ st[c] \in {"open", "shut"} /\ st'[c] \in {st[c], "shut"}
    /\ doc[c].text \subseteq doc'[c].text
    /\ Silent(c) => Silent(c)'

\* A step that stores nothing and takes nothing away: the saves in flight end or
\* go on with the text they have, and no nearer to removing a device copy.
Safe == {"saved", "kept"}
Clearing == {"drop", "check", "clear"}
Tame(k) ==
    job'[k] # None =>
        /\ job[k] # None /\ job'[k].doc.text = job[k].doc.text
        /\ job'[k].base.body = job[k].base.body
        /\ job'[k].step = "head" => job[k].step = "head"
        /\ job'[k].step \in Clearing => job[k].step \in Clearing
Renewed(c) ==
    \/ base'[c] = base[c]
    \/ \E k \in {"relay", "keep"} :
        job[<<c, k>>] # None /\ base'[c].body = job[<<c, k>>].base.body
Calm ==
    /\ UNCHANGED <<head, body, local, dev, settled, removed>>
    /\ \A k \in Uploads : Tame(k)
    /\ \A c \in Composers : Renewed(c) /\ (Clears(c)' => Clears(c))
    /\ \A e \in Edits : fate'[e] \in Safe => fate[e] \in Safe

-----------------------------------------------------------------------------
(* The operators                                                           *)

\* TypeOK is its parts, now and after a step.
LEMMA TypeParts == TypeOK <=> RelayOK /\ CopyOK /\ RefOK /\ SchedOK /\ JobOK /\ PastOK
  BY DEF TypeOK, RelayOK, CopyOK, RefOK, SchedOK, JobOK, PastOK, Fates

\* The same after a step.
LEMMA TypePartsNext == TypeOK' <=> RelayOK' /\ CopyOK' /\ RefOK' /\ SchedOK' /\ JobOK' /\ PastOK'
  BY DEF TypeOK, RelayOK, CopyOK, RefOK, SchedOK, JobOK, PastOK, Fates

\* The keys of what may be in flight.
LEMMA Keys ==
    /\ Uploads \subseteq Jobs
    /\ \A c \in Composers : /\ <<c, "device">> \in Jobs /\ <<c, "remove">> \in Jobs
                            /\ <<c, "relay">> \in Uploads /\ <<c, "keep">> \in Uploads
                            /\ <<c, "device">> \notin Uploads /\ <<c, "remove">> \notin Uploads
    /\ \A d \in Devices : <<d, "settle">> \in Uploads
  BY DEF Uploads, Jobs

\* A save is a composer's own, one that keeps this copy, or a settle pass's.
LEMMA UploadKinds ==
    ASSUME NEW j \in Uploads
    PROVE  \/ \E c \in Composers : j = <<c, "relay">>
           \/ \E c \in Composers : j = <<c, "keep">>
           \/ \E d \in Devices : j = <<d, "settle">>
  BY DEF Uploads

\* Every key is a composer's or a device's settle pass.
LEMMA HomeOk ==
    ASSUME dev \in Layouts
    PROVE  /\ dev \in [Composers -> Devices]
           /\ \A j \in Uploads : Home(j) \in Devices
           /\ \A c \in Composers, k \in Kinds : Home(<<c, k>>) = dev[c]
           /\ \A d \in Devices : Home(<<d, "settle">>) = d
<1>1. dev \in [Composers -> Devices]
  BY DraftsAssumption
<1>2. /\ \A c \in Composers, k \in Kinds : Home(<<c, k>>) = dev[c]
      /\ \A d \in Devices : Home(<<d, "settle">>) = d
  BY DEF Home, Kinds
<1> QED
  BY Zenon, <1>1, <1>2, UploadKinds DEF Kinds

\* One entry of job is set.
LEMMA JobSet ==
    ASSUME JobOK, NEW j \in Jobs, NEW r \in Puts \cup Saves \cup Removals \cup {None},
           job' = [job EXCEPT ![j] = r]
    PROVE  /\ job' \in [Jobs -> Puts \cup Saves \cup Removals \cup {None}]
           /\ job'[j] = r /\ \A k \in Jobs \ {j} : job'[k] = job[k]
  BY DEF JobOK

\* Setting a save, a device put or a removal sets it alone.
LEMMA UploadSet ==
    ASSUME JobOK, NEW j \in Uploads, NEW r \in Saves \cup {None}, job' = [job EXCEPT ![j] = r]
    PROVE  JobOK' /\ job'[j] = r /\ \A k \in Jobs \ {j} : job'[k] = job[k]
<1>1. /\ job' \in [Jobs -> Puts \cup Saves \cup Removals \cup {None}]
      /\ job'[j] = r /\ \A k \in Jobs \ {j} : job'[k] = job[k]
  BY Zenon, JobSet, Keys
<1>2. \A c \in Composers : /\ job'[<<c, "device">>] = job[<<c, "device">>]
                           /\ job'[<<c, "remove">>] = job[<<c, "remove">>]
  BY Zenon, <1>1, Keys
<1>3. \A k \in Uploads : job[k] \in Saves \cup {None}
  BY Zenon DEF JobOK
<1>4. \A k \in Uploads : job'[k] \in Saves \cup {None}
  BY Zenon, <1>1, <1>3, Keys
<1> QED
  BY <1>1, <1>2, <1>4 DEF JobOK

\* A device put is set alone.
LEMMA DeviceSet ==
    ASSUME JobOK, NEW c \in Composers, NEW r \in Puts \cup {None},
           job' = [job EXCEPT ![<<c, "device">>] = r]
    PROVE  JobOK' /\ job'[<<c, "device">>] = r /\ \A k \in Jobs \ {<<c, "device">>} : job'[k] = job[k]
<1>1. /\ job' \in [Jobs -> Puts \cup Saves \cup Removals \cup {None}]
      /\ job'[<<c, "device">>] = r /\ \A k \in Jobs \ {<<c, "device">>} : job'[k] = job[k]
  BY Zenon, JobSet, Keys
<1>2. /\ \A b \in Composers : /\ job'[<<b, "device">>] \in Puts \cup {None}
                              /\ job'[<<b, "remove">>] = job[<<b, "remove">>]
      /\ \A k \in Uploads : job'[k] \in Saves \cup {None}
  BY Zenon, <1>1, Keys DEF JobOK
<1> QED
  BY <1>1, <1>2 DEF JobOK

\* A removal is set alone.
LEMMA RemoveSet ==
    ASSUME JobOK, NEW c \in Composers, NEW r \in Removals \cup {None},
           job' = [job EXCEPT ![<<c, "remove">>] = r]
    PROVE  JobOK' /\ job'[<<c, "remove">>] = r /\ \A k \in Jobs \ {<<c, "remove">>} : job'[k] = job[k]
<1>1. /\ job' \in [Jobs -> Puts \cup Saves \cup Removals \cup {None}]
      /\ job'[<<c, "remove">>] = r /\ \A k \in Jobs \ {<<c, "remove">>} : job'[k] = job[k]
  BY Zenon, JobSet, Keys
<1>2. /\ \A b \in Composers : /\ job'[<<b, "remove">>] \in Removals \cup {None}
                              /\ job'[<<b, "device">>] = job[<<b, "device">>]
      /\ \A k \in Uploads : job'[k] \in Saves \cup {None}
  BY Zenon, <1>1, Keys DEF JobOK
<1> QED
  BY <1>1, <1>2 DEF JobOK

\* flush() adds a waiter to the schedulers named.
LEMMA FlushingOk ==
    ASSUME SchedOK, NEW c \in Composers, NEW ss \in SUBSET Savers, NEW w \in Callers
    PROVE  /\ Flushing(c, ss, w) \in [Composers -> [Savers -> SUBSET Callers]]
           /\ \A b \in Composers \ {c} : Flushing(c, ss, w)[b] = waits[b]
           /\ \A s \in Savers : /\ waits[c][s] \subseteq Flushing(c, ss, w)[c][s]
                                /\ s \in ss /\ w = "away" => "away" \in Flushing(c, ss, w)[c][s]
<1>1. waits \in [Composers -> [Savers -> SUBSET Callers]]
  BY DEF SchedOK
<1> QED
  BY <1>1 DEF Flushing

\* What becomes of the edits.
LEMMA FateOk ==
    ASSUME PastOK
    PROVE  /\ \A es : Saved(es) \in Fates
           /\ \A es : \A f \in {"dropped", "overrun", "raced"} : Gone(es, f) \in Fates
           /\ \A c \in Composers : KeptNow(c) \in Fates
  BY DEF PastOK, Fates, Saved, Gone, KeptNow

\* An edit that is safe after its fate is set was saved by this step, or was safe before.
LEMMA FateSafe ==
    ASSUME NEW e \in Edits
    PROVE  /\ \A es : Saved(es)[e] \in Safe => e \in es \/ fate[e] \in Safe
           /\ \A es : \A f \in {"dropped", "overrun", "raced"} :
                Gone(es, f)[e] \in Safe => e \notin es /\ fate[e] \in Safe
           /\ \A c \in Composers : KeptNow(c)[e] \in Safe => fate[e] \in Safe
  BY DEF Saved, Gone, KeptNow, Safe

\* Steps that leave the relay, the device copies and the saves alone.
LEMMA JobCalm ==
    ASSUME UNCHANGED <<head, body, local, dev, base, settled, removed>>,
           \A k \in Uploads : job'[k] = job[k],
           \A c \in Composers : Clears(c)' => Clears(c),
           \A e \in Edits : fate'[e] \in Safe => fate[e] \in Safe
    PROVE  Calm
  BY DEF Calm, Tame, Renewed

\* A step that leaves the stores, the bases and what is in flight alone is calm.
LEMMA SameCalm ==
    ASSUME UNCHANGED <<head, body, local, dev, base, job, settled, removed>>,
           \A e \in Edits : fate'[e] \in Safe => fate[e] \in Safe
    PROVE  Calm
  BY Zenon DEF Calm, Tame, Renewed, Clears

\* A save starts with its attachments, or with the body.
LEMMA SaveOk ==
    ASSUME NEW d \in Docs, NEW b \in Bases, NEW f \in BOOLEAN, NEW w \in Callers
    PROVE  /\ Save(d, b, f, w) \in Saves
           /\ Save(d, b, f, w).doc = d /\ Save(d, b, f, w).base = b /\ Save(d, b, f, w).force = f
           /\ Save(d, b, f, w).owner = w /\ Save(d, b, f, w).step \in {"body", "parts"}
  BY DEF Save, Saves

\* A save that starts is newer than every device copy.
LEMMA StartSaveOk ==
    ASSUME JobOK, CopyOK, NEW j \in Uploads, NEW r \in Saves, StartSave(j, r)
    PROVE  /\ JobOK' /\ job'[j] = r /\ \A k \in Jobs \ {j} : job'[k] = job[k]
           /\ CopyOK'
           /\ \A d \in Devices :
                IF local[d] = None THEN local'[d] = None
                ELSE /\ local'[d] # None /\ local'[d].doc = local[d].doc
                     /\ local'[d].base = local[d].base /\ local'[d].newer = local[d].newer \ {j}
<1>1. job' = [job EXCEPT ![j] = r]
  BY DEF StartSave
<1>2. ASSUME NEW d \in Devices, local[d] # None
      PROVE  /\ local'[d] \in Copies /\ local'[d].doc = local[d].doc
             /\ local'[d].base = local[d].base /\ local'[d].newer = local[d].newer \ {j}
  <2>1. local[d] \in Copies /\ local'[d] = [local[d] EXCEPT !.newer = local[d].newer \ {j}]
    BY <1>2 DEF CopyOK, StartSave
  <2> QED
    BY <2>1 DEF Copies
<1>3. ASSUME NEW d \in Devices, local[d] = None
      PROVE  local'[d] = None
  BY <1>3 DEF StartSave
<1>4. local' \in [Devices -> Copies \cup {None}]
  BY <1>2, <1>3 DEF StartSave
<1>5. JobOK' /\ job'[j] = r /\ \A k \in Jobs \ {j} : job'[k] = job[k]
  BY Zenon, <1>1, UploadSet
<1>6. CopyOK'
  BY <1>3, <1>4 DEF CopyOK
<1>7. None \notin Copies
  BY DraftsAssumption
<1> QED
  BY <1>2, <1>3, <1>5, <1>6, <1>7

-----------------------------------------------------------------------------
(* The steps of a composer                                                 *)

\* What is Fresh has nothing to go on with.
LEMMA Begun ==
    ASSUME Shape, NEW c \in Composers,
           \/ \E s \in Savers : waits[c][s] # {} \/ s \in dirty[c]
           \/ away[c] # None \/ answer[c] # None
           \/ \E k \in Kinds : job[<<c, k>>] # None
           \/ st[c] = "open"
    PROVE  st[c] \in {"open", "shut"}
<1>1. st[c] \in {"new", "loading", "open", "shut"}
  BY DEF Shape, TypeOK
<1> QED
  BY Zenon, <1>1 DEF Shape, FreshUntilOpen, Fresh

\* A timer fires.
LEMMA FireStep ==
    ASSUME Shape, NEW c \in Composers, NEW s \in Savers, Fire(c, s)
    PROVE  TypeOK' /\ Acts(c) /\ Calm
<1>0. SchedOK /\ RelayOK /\ CopyOK /\ RefOK /\ JobOK /\ PastOK
  BY TypeParts DEF Shape
<1>1. /\ waits' \in [Composers -> [Savers -> SUBSET Callers]]
      /\ \A b \in Composers \ {c} : waits'[b] = waits[b]
  <2>1. {s} \in SUBSET Savers /\ waits' = Flushing(c, {s}, "bg")
    BY DEF Fire
  <2> QED
    BY Zenon, <1>0, <2>1, FlushingOk DEF Callers
<1>2. UNCHANGED <<head, body, parts, local, dev, st, doc, base, mark, dirty, away, answer, job, fails, fate, settled, removed>>
  BY DEF Fire, relay, refs, past
<1>3. TypeOK'
  BY <1>0, <1>1, <1>2, TypePartsNext DEF SchedOK, RelayOK, CopyOK, RefOK, JobOK, PastOK
<1>4. Live(c) /\ st[c] \in {"open", "shut"}
  BY Begun DEF Fire, Armed, Live
<1>5. Acts(c)
  BY Zenon, <1>1, <1>2, <1>4 DEF Acts, Still, Silent, Past, Is
<1> QED
  BY <1>2, <1>3, <1>5, SameCalm

\* The shell unmounts the composer.
LEMMA UnmountStep ==
    ASSUME Shape, NEW c \in Composers, Unmount(c)
    PROVE  TypeOK' /\ Acts(c) /\ Calm
<1>0. SchedOK /\ RelayOK /\ CopyOK /\ RefOK /\ JobOK /\ PastOK
  BY TypeParts DEF Shape
<1>1. /\ waits' \in [Composers -> [Savers -> SUBSET Callers]]
      /\ \A b \in Composers \ {c} : waits'[b] = waits[b]
  BY <1>0, FlushingOk DEF Unmount, Closing, Callers
<1>2. UNCHANGED <<head, body, parts, local, dev, doc, base, mark, dirty, away, answer, job, fails, fate, settled, removed>>
  BY DEF Unmount, relay, past
<1>3. st[c] = "open" /\ st' = [st EXCEPT ![c] = "shut"]
  BY DEF Unmount, Closing
<1>4. TypeOK'
  BY <1>0, <1>1, <1>2, <1>3, TypePartsNext DEF SchedOK, RelayOK, CopyOK, RefOK, JobOK, PastOK
<1>5. Acts(c)
  BY Zenon, <1>0, <1>1, <1>2, <1>3 DEF Acts, Still, Live, RefOK, Silent, Past, Is
<1> QED
  BY <1>2, <1>4, <1>5, SameCalm

\* putAway() begins, or has nothing to do.
LEMMA PutAwayStep ==
    ASSUME Shape, NEW c \in Composers, PutAway(c)
    PROVE  TypeOK' /\ Acts(c) /\ Calm
<1>0. SchedOK /\ RelayOK /\ CopyOK /\ RefOK /\ JobOK /\ PastOK
  BY TypeParts DEF Shape
<1>1. UNCHANGED <<head, body, parts, local, dev, doc, base, mark, dirty, answer, job, fails, fate, settled, removed>>
  BY DEF PutAway, relay, past
<1>2. st[c] = "open" /\ st' \in {st, [st EXCEPT ![c] = "shut"]}
  BY DEF PutAway
<1>3. /\ waits' \in [Composers -> [Savers -> SUBSET Callers]] /\ \A b \in Composers \ {c} : waits'[b] = waits[b]
      /\ away' \in [Composers -> {"device", "relay", "kept", None}] /\ \A b \in Composers \ {c} : away'[b] = away[b]
  <2>1. CASE ~Is(c, "edited")
    BY <1>0, <2>1 DEF PutAway, SchedOK
  <2>2. CASE Is(c, "edited")
    <3>1. PICK s \in Savers : away' = [away EXCEPT ![c] = s] /\ waits' = Flushing(c, {s}, "away")
      BY <2>2 DEF PutAway, Savers
    <3>2. {s} \in SUBSET Savers
      OBVIOUS
    <3>3. /\ waits' \in [Composers -> [Savers -> SUBSET Callers]]
          /\ \A b \in Composers \ {c} : waits'[b] = waits[b]
      BY Zenon, <1>0, <3>1, <3>2, FlushingOk DEF Callers
    <3> QED
      BY Zenon, <1>0, <3>1, <3>3 DEF SchedOK, Savers
  <2> QED
    BY <2>1, <2>2
<1>4. TypeOK'
  BY <1>0, <1>1, <1>2, <1>3, TypePartsNext DEF SchedOK, RelayOK, CopyOK, RefOK, JobOK, PastOK
<1>5. Acts(c)
  BY Zenon, <1>0, <1>1, <1>2, <1>3 DEF Acts, Still, Live, RefOK, Silent, Past, Is
<1> QED
  BY <1>1, <1>4, <1>5, SameCalm

\* Both savers are abandoned, by Discard, by Send or by "open the other copy".
LEMMA AbandonStep ==
    ASSUME Shape, NEW c \in Composers, Discard(c) \/ OpenOtherCopy(c)
    PROVE  TypeOK' /\ Acts(c) /\ Calm
<1>0. SchedOK /\ RelayOK /\ CopyOK /\ RefOK /\ JobOK /\ PastOK
  BY TypeParts DEF Shape
<1>1. /\ UNCHANGED <<head, body, parts, local, dev, doc, base, away, answer, fails, settled, removed>>
      /\ st[c] = "open" /\ st' \in {st, [st EXCEPT ![c] = "shut"]}
      /\ waits' \in {waits, Flushing(c, Savers, "bg")}
  BY Zenon DEF Discard, OpenOtherCopy, Closing, relay
<1>2. PICK first \in {"wait", "wait other"} : Abandon(c, first)
  BY Zenon DEF Discard, OpenOtherCopy
<1>3. /\ waits' \in [Composers -> [Savers -> SUBSET Callers]]
      /\ \A b \in Composers \ {c} : waits'[b] = waits[b]
  <2>1. CASE waits' = waits
    BY Zenon, <1>0, <2>1 DEF SchedOK
  <2>2. CASE waits' = Flushing(c, Savers, "bg")
    <3>1. Savers \in SUBSET Savers /\ "bg" \in Callers
      BY Zenon DEF Callers
    <3>2. /\ Flushing(c, Savers, "bg") \in [Composers -> [Savers -> SUBSET Callers]]
          /\ \A b \in Composers \ {c} : Flushing(c, Savers, "bg")[b] = waits[b]
      <4>1. SchedOK
        BY Zenon, <1>0
      <4> QED
        BY Zenon, <3>1, <4>1, FlushingOk
    <3> QED
      BY Zenon, <2>2, <3>2
  <2> QED
    BY Zenon, <1>1, <2>1, <2>2
<1> DEFINE r == [step |-> first]
<1>4. /\ r \in Removals /\ r.step \in {"wait", "wait other"} /\ job' = [job EXCEPT ![<<c, "remove">>] = r]
      /\ mark' = [mark EXCEPT ![c] = @ \cup {"done", "disposed"}]
      /\ dirty' = [dirty EXCEPT ![c] = {}] /\ fate' = Gone(doc[c].text, "dropped")
  BY Zenon, <1>2 DEF Abandon, Removals
<1> HIDE DEF r
<1>5. JobOK' /\ job'[<<c, "remove">>] = r /\ \A k \in Jobs \ {<<c, "remove">>} : job'[k] = job[k]
  BY Zenon, <1>0, <1>4, RemoveSet
<1>6. fate' \in Fates /\ \A e \in Edits : fate'[e] \in Safe => fate[e] \in Safe
  BY Zenon, <1>0, <1>4, FateOk, FateSafe
<1>7. TypeOK'
  BY Zenon, <1>0, <1>1, <1>3, <1>4, <1>5, <1>6, TypePartsNext DEF SchedOK, RelayOK, CopyOK, RefOK, PastOK
<1>8. /\ \A b \in Composers \ {c}, k \in Kinds : job'[<<b, k>>] = job[<<b, k>>]
      /\ \A d \in Devices : job'[<<d, "settle">>] = job[<<d, "settle">>]
      /\ \A k \in Uploads : job'[k] = job[k]
  BY Zenon, <1>5, Keys DEF Kinds
<1>9. Silent(c)' /\ ~Clears(c)'
  <2>1. job'[<<c, "remove">>] # None
    BY Zenon, <1>4, <1>5, DraftsAssumption
  <2>2. job'[<<c, "remove">>].step \in {"wait", "wait other"}
    BY Zenon, <1>4, <1>5
  <2>3. ~Past(c)'
    BY Zenon, <2>1, <2>2 DEF Past
  <2>4. ~Clears(c)'
    BY Zenon, <2>2 DEF Clears
  <2> QED
    BY Zenon, <2>3, <2>4 DEF Silent
<1>10. Acts(c)
  <2>1. \A b \in Composers \ {c} : st'[b] = st[b] /\ mark'[b] = mark[b] /\ dirty'[b] = dirty[b]
    BY Zenon, <1>0, <1>1, <1>4 DEF RefOK, SchedOK
  <2>2. \A b \in Composers \ {c} : Still(b)
    BY Zenon, <1>1, <1>3, <1>8, <2>1 DEF Still
  <2>3. Live(c) /\ st[c] = "open" /\ st'[c] \in {st[c], "shut"}
    BY Zenon, <1>0, <1>1 DEF Live, RefOK
  <2> QED
    BY Zenon, <1>1, <1>8, <1>9, <2>2, <2>3 DEF Acts
<1>11. \A b \in Composers : Clears(b)' => Clears(b)
  BY Zenon, <1>8, <1>9 DEF Clears, Kinds
<1> QED
  BY Zenon, <1>1, <1>6, <1>7, <1>8, <1>10, <1>11, JobCalm

\* Something is typed.
LEMMA TypeStep ==
    ASSUME Shape, NEW c \in Composers, NEW e \in Edits, Type(c, e)
    PROVE  TypeOK' /\ Acts(c) /\ Calm
<1>0. SchedOK /\ RelayOK /\ CopyOK /\ RefOK /\ JobOK /\ PastOK
  BY TypeParts DEF Shape
<1>1. PICK ps \in SUBSET Parts : Write(c, [text |-> doc[c].text \cup {e}, parts |-> ps])
  BY Zenon DEF Type
<1>2. /\ UNCHANGED <<head, body, parts, local, dev, st, base, waits, away, answer, job, fails, settled, removed>>
      /\ st[c] = "open" /\ fate' = [fate EXCEPT ![e] = "typed"]
      /\ mark' = [mark EXCEPT ![c] = @ \cup {"edited"}]
      /\ doc' = [doc EXCEPT ![c] = [text |-> doc[c].text \cup {e}, parts |-> ps]]
  BY Zenon, <1>1 DEF Type, Write, relay
<1>3. dirty' \in [Composers -> SUBSET Savers] /\ \A b \in Composers \ {c} : dirty'[b] = dirty[b]
  BY <1>0, <1>1 DEF Write, Touch, Own, Savers, SchedOK
<1>4. doc' \in [Composers -> Docs] /\ doc'[c].text = doc[c].text \cup {e}
  BY <1>0, <1>2 DEF RefOK, Docs
<1>5. TypeOK'
  BY <1>0, <1>2, <1>3, <1>4, TypePartsNext DEF SchedOK, RelayOK, CopyOK, RefOK, JobOK, PastOK, Fates
<1>6. Acts(c)
  BY Zenon, <1>0, <1>2, <1>3, <1>4 DEF Acts, Still, Live, RefOK, SchedOK, Silent, Past, Is
<1>7. \A f \in Edits : fate'[f] \in Safe => fate[f] \in Safe
  BY <1>0, <1>2 DEF Safe, PastOK, Fates
<1> QED
  BY <1>2, <1>5, <1>6, <1>7, SameCalm

\* A composer's save to the relay starts.
Starting(c, k) ==
    LET j == <<c, k>> IN
    /\ UNCHANGED <<head, body, fate, settled, removed>>
    /\ job'[j] # None /\ job'[j].doc = doc[c] /\ job'[j].base.body \in {0, base[c].body}
    /\ job'[j].step \in {"body", "parts"}
    /\ \A u \in Uploads \ {j} : job'[u] = job[u]
    /\ \A b \in Composers : job'[<<b, "remove">>] = job[<<b, "remove">>]
    /\ \A d \in Devices :
        IF local[d] = None THEN local'[d] = None
        ELSE /\ local'[d] # None /\ local'[d].doc = local[d].doc
             /\ local'[d].base = local[d].base /\ local'[d].newer = local[d].newer \ {j}

\* StartSave starts one save, of the composer's document, and the copy is no longer newer than it.
LEMMA StartingSave ==
    ASSUME JobOK, CopyOK, NEW c \in Composers, NEW k \in {"relay", "keep"}, NEW r \in Saves,
           StartSave(<<c, k>>, r), UNCHANGED <<head, body, fate, settled, removed>>,
           r.doc = doc[c], r.base.body \in {0, base[c].body}, r.step \in {"body", "parts"}
    PROVE  /\ JobOK' /\ CopyOK' /\ Starting(c, k) /\ job'[<<c, k>>] = r
           /\ \A u \in Jobs \ {<<c, k>>} : job'[u] = job[u]
<1> DEFINE j == <<c, k>>
<1>1. /\ j \in Uploads /\ Uploads \subseteq Jobs
      /\ \A b \in Composers : <<b, "remove">> \in Jobs /\ <<b, "remove">> # j
  BY Zenon, Keys
<1> HIDE DEF j
<1>2. /\ JobOK' /\ CopyOK' /\ job'[j] = r /\ \A u \in Jobs \ {j} : job'[u] = job[u]
      /\ \A d \in Devices :
            IF local[d] = None THEN local'[d] = None
            ELSE /\ local'[d] # None /\ local'[d].doc = local[d].doc
                 /\ local'[d].base = local[d].base /\ local'[d].newer = local[d].newer \ {j}
  BY <1>1, StartSaveOk DEF j
<1>3. r # None
  BY DraftsAssumption
<1>4. \A b \in Composers : job'[<<b, "remove">>] = job[<<b, "remove">>]
  BY Zenon, <1>1, <1>2
<1>5. \A u \in Uploads \ {j} : job'[u] = job[u]
  BY <1>1, <1>2
<1> QED
  BY <1>2, <1>3, <1>4, <1>5 DEF Starting, j

\* "Keep this copy" saves over the stored one.
LEMMA KeepStep ==
    ASSUME Shape, NEW c \in Composers, KeepThisCopy(c)
    PROVE  TypeOK' /\ Acts(c) /\ Live(c) /\ Starting(c, "keep")
<1>0. SchedOK /\ RelayOK /\ CopyOK /\ RefOK /\ JobOK /\ PastOK
  BY TypeParts DEF Shape
<1> DEFINE r == Save(doc[c], NewBase, TRUE, "bg")
<1>1. /\ UNCHANGED <<head, body, parts, dev, st, doc, base, dirty, waits, away, answer, fails, fate, settled, removed>>
      /\ st[c] = "open" /\ mark' = [mark EXCEPT ![c] = @ \ {"conflict"}] /\ StartSave(<<c, "keep">>, r)
  BY Zenon DEF KeepThisCopy, relay, sched, past
<1>2. r \in Saves /\ r.doc = doc[c] /\ r.base.body = 0 /\ r.step \in {"body", "parts"}
  <2>1. doc[c] \in Docs /\ NewBase \in Bases /\ NewBase.body = 0
    BY <1>0 DEF RefOK, NewBase, Bases
  <2> QED
    BY <2>1 DEF Save, Saves, Callers
<1> HIDE DEF r
<1>3. JobOK' /\ CopyOK' /\ Starting(c, "keep") /\ \A u \in Jobs \ {<<c, "keep">>} : job'[u] = job[u]
  BY Zenon, <1>0, <1>1, <1>2, StartingSave
<1>4. TypeOK'
  BY <1>0, <1>1, <1>3, TypePartsNext DEF SchedOK, RelayOK, RefOK, PastOK
<1>5. /\ \A b \in Composers \ {c}, k \in Kinds : job'[<<b, k>>] = job[<<b, k>>]
      /\ \A d \in Devices : job'[<<d, "settle">>] = job[<<d, "settle">>]
      /\ \A k \in Kinds \ {"keep"} : job'[<<c, k>>] = job[<<c, k>>]
  BY Zenon, <1>3, Keys DEF Kinds
<1>6. mark'[c] = mark[c] \ {"conflict"} /\ \A b \in Composers \ {c} : mark'[b] = mark[b]
  BY <1>0, <1>1 DEF RefOK
<1>7. Silent(c) => Silent(c)'
  BY Zenon, <1>5, <1>6 DEF Silent, Past, Is, Kinds, Savers
<1>8. Acts(c) /\ Live(c)
  BY Zenon, <1>0, <1>1, <1>5, <1>6, <1>7 DEF Acts, Still, Live, RefOK
<1> QED
  BY <1>3, <1>4, <1>8

\* putAway() goes on from the device copy to the relay.
LEMMA AwayDeviceStep ==
    ASSUME Shape, NEW c \in Composers, AwayDevice(c)
    PROVE  TypeOK' /\ Acts(c) /\ Calm
<1>0. SchedOK /\ RelayOK /\ CopyOK /\ RefOK /\ JobOK /\ PastOK
  BY TypeParts DEF Shape
<1>1. /\ UNCHANGED <<head, body, parts, local, dev, doc, base, mark, dirty, job, fails, settled, removed>>
      /\ answer[c] # None /\ answer' = [answer EXCEPT ![c] = None]
      /\ away' \in {[away EXCEPT ![c] = "kept"], [away EXCEPT ![c] = "relay"]}
      /\ st' \in {st, [st EXCEPT ![c] = "shut"]} /\ fate' \in {fate, KeptNow(c)}
  BY Zenon DEF AwayDevice, relay
<1>2. fate' \in Fates /\ \A e \in Edits : fate'[e] \in Safe => fate[e] \in Safe
  BY <1>0, <1>1, FateOk, FateSafe DEF PastOK
<1>3. /\ waits' \in [Composers -> [Savers -> SUBSET Callers]]
      /\ \A b \in Composers \ {c} : waits'[b] = waits[b]
  BY <1>0 DEF AwayDevice, SchedOK, Savers, Callers
<1>4. TypeOK'
  BY Zenon, <1>0, <1>1, <1>2, <1>3, TypePartsNext DEF SchedOK, RelayOK, CopyOK, RefOK, JobOK, PastOK
<1>5. Live(c) /\ st[c] \in {"open", "shut"}
  BY Zenon, <1>1, Begun DEF Live
<1>6. Acts(c)
  BY Zenon, <1>0, <1>1, <1>3, <1>5 DEF Acts, Still, RefOK, SchedOK, Silent, Past, Is
<1> QED
  BY <1>1, <1>2, <1>4, <1>6, SameCalm

\* putAway() has heard of the relay.
LEMMA AwayRelayStep ==
    ASSUME Shape, NEW c \in Composers, AwayRelay(c)
    PROVE  TypeOK' /\ Acts(c) /\ Calm
<1>0. SchedOK /\ RelayOK /\ CopyOK /\ RefOK /\ JobOK /\ PastOK
  BY TypeParts DEF Shape
<1>1. /\ UNCHANGED <<head, body, parts, local, dev, doc, base, dirty, job, fails, settled, removed>>
      /\ answer[c] # None /\ answer' = [answer EXCEPT ![c] = None]
      /\ away' = [away EXCEPT ![c] = None]
      /\ st' \in {st, [st EXCEPT ![c] = "shut"]}
      /\ mark' \in {mark, [mark EXCEPT ![c] = @ \cup {"disposed"}]}
      /\ waits' \in {waits, Flushing(c, Savers, "bg")} /\ fate' \in {fate, KeptNow(c)}
  BY DEF AwayRelay, Stop, relay
<1>2. fate' \in Fates /\ \A e \in Edits : fate'[e] \in Safe => fate[e] \in Safe
  BY <1>0, <1>1, FateOk, FateSafe DEF PastOK
<1>3. /\ waits' \in [Composers -> [Savers -> SUBSET Callers]]
      /\ \A b \in Composers \ {c} : waits'[b] = waits[b]
  BY <1>0, <1>1, FlushingOk DEF SchedOK, Callers
<1>4. st' \in [Composers -> {"new", "loading", "open", "shut"}] /\ \A b \in Composers \ {c} : st'[b] = st[b]
  BY <1>0, <1>1 DEF RefOK
<1>5. /\ mark' \in [Composers -> SUBSET {"id", "edited", "done", "conflict", "disposed"}]
      /\ \A b \in Composers \ {c} : mark'[b] = mark[b]
      /\ Is(c, "done")' => Is(c, "done")
  BY <1>0, <1>1 DEF RefOK, Is
<1>6. RefOK' /\ SchedOK'
  BY Zenon, <1>0, <1>1, <1>3, <1>4, <1>5 DEF RefOK, SchedOK
<1>7. TypeOK'
  BY Zenon, <1>0, <1>1, <1>2, <1>6, TypePartsNext DEF RelayOK, CopyOK, JobOK, PastOK
<1>8. Live(c) /\ st[c] \in {"open", "shut"} /\ st'[c] \in {st[c], "shut"}
  BY Zenon, <1>0, <1>1, Begun DEF Live, RefOK
<1>9. Acts(c)
  <2>1. \A b \in Composers \ {c} : away'[b] = away[b] /\ answer'[b] = answer[b]
    BY <1>0, <1>1 DEF SchedOK
  <2>2. \A b \in Composers \ {c} : Still(b)
    BY Zenon, <1>1, <1>3, <1>4, <1>5, <2>1 DEF Still
  <2>3. Silent(c) => Silent(c)'
    BY Zenon, <1>1, <1>5 DEF Silent, Past
  <2> QED
    BY Zenon, <1>1, <1>8, <2>2, <2>3 DEF Acts
<1> QED
  BY <1>1, <1>2, <1>7, <1>9, SameCalm

\* putAway() has waited long enough: the flush() it waited for goes on alone.
LEMMA AwayTimeoutStep ==
    ASSUME Shape, NEW c \in Composers, AwayTimeout(c)
    PROVE  TypeOK' /\ Acts(c) /\ Calm
<1>0. SchedOK /\ RelayOK /\ CopyOK /\ RefOK /\ JobOK /\ PastOK
  BY TypeParts DEF Shape
<1> DEFINE j == <<c, "relay">>
<1>1. /\ UNCHANGED <<head, body, parts, local, dev, doc, base, dirty, answer, fails, fate, settled, removed>>
      /\ away[c] \in {"relay", "kept"} /\ away' = [away EXCEPT ![c] = None]
      /\ st' \in {st, [st EXCEPT ![c] = "shut"]}
      /\ mark' \in {mark, [mark EXCEPT ![c] = @ \cup {"disposed"}]}
  BY DEF AwayTimeout, Bounded, Stop, relay, past
<1>2. /\ waits' \in [Composers -> [Savers -> SUBSET Callers]]
      /\ \A b \in Composers \ {c} : waits'[b] = waits[b]
      /\ \A s \in Savers : waits'[c][s] # {} => \E t \in Savers : waits[c][t] # {}
  BY <1>0 DEF AwayTimeout, SchedOK, Savers, Callers
<1>3. /\ JobOK' /\ \A k \in Jobs \ {j} : job'[k] = job[k]
      /\ Tame(j) /\ (job[j] = None => job'[j] = None)
  <2>1. CASE job' = job
    BY <1>0, <2>1 DEF JobOK, Tame
  <2>2. CASE job' # job
    <3> DEFINE r == [job[j] EXCEPT !.owner = "bg"]
    <3>1. job[j] # None /\ job' = [job EXCEPT ![j] = r]
      BY <2>2 DEF AwayTimeout
    <3>2. job[j] \in Saves
      BY Zenon, <1>0, <3>1, Keys DEF JobOK
    <3>3. r \in Saves /\ r.doc = job[j].doc /\ r.base = job[j].base /\ r.step = job[j].step
      BY <3>2 DEF Saves, Callers
    <3>4. j \in Uploads
      BY Zenon, Keys
    <3> HIDE DEF j, r
    <3>5. JobOK' /\ job'[j] = r /\ \A k \in Jobs \ {j} : job'[k] = job[k]
      BY Zenon, <1>0, <3>1, <3>3, <3>4, UploadSet
    <3> QED
      BY <3>1, <3>3, <3>5 DEF Tame
  <2> QED
    BY <2>1, <2>2
<1>4. st' \in [Composers -> {"new", "loading", "open", "shut"}] /\ \A b \in Composers \ {c} : st'[b] = st[b]
  BY <1>0, <1>1 DEF RefOK
<1>5. /\ mark' \in [Composers -> SUBSET {"id", "edited", "done", "conflict", "disposed"}]
      /\ \A b \in Composers \ {c} : mark'[b] = mark[b]
      /\ mark[c] \subseteq mark'[c] /\ (Is(c, "done")' => Is(c, "done"))
  BY <1>0, <1>1 DEF RefOK, Is
<1>6. RefOK' /\ SchedOK'
  BY Zenon, <1>0, <1>1, <1>2, <1>4, <1>5 DEF RefOK, SchedOK
<1>7. TypeOK'
  BY <1>0, <1>1, <1>3, <1>6, TypePartsNext DEF RelayOK, CopyOK, PastOK
<1>8. /\ \A b \in Composers \ {c}, k \in Kinds : job'[<<b, k>>] = job[<<b, k>>]
      /\ \A d \in Devices : job'[<<d, "settle">>] = job[<<d, "settle">>]
      /\ \A k \in Kinds \ {"relay"} : job'[<<c, k>>] = job[<<c, k>>]
  BY Zenon, <1>3, Keys DEF Kinds
<1>9. \A k \in Kinds : job[<<c, k>>] = None => job'[<<c, k>>] = None
  BY <1>3, <1>8
<1>10. st[c] \in {"open", "shut"} /\ st'[c] \in {st[c], "shut"}
  BY <1>0, <1>1, Begun, DraftsAssumption DEF Savers, RefOK
<1>11. Live(c)' => Live(c)
  BY Zenon, <1>1, <1>2, <1>5, <1>9, <1>10 DEF Live, Armed, Is
<1>12. Silent(c) => Silent(c)'
  BY Zenon, <1>5, <1>8, <1>9 DEF Silent, Past, Kinds, Savers
<1>13. Acts(c)
  BY Zenon, <1>0, <1>1, <1>2, <1>4, <1>5, <1>8, <1>10, <1>11, <1>12 DEF Acts, Still, SchedOK
<1>14. Calm
  <2>1. \A k \in Uploads : Tame(k)
    BY <1>3, Keys DEF Tame
  <2>2. \A b \in Composers : Clears(b)' => Clears(b)
    BY Zenon, <1>8 DEF Clears, Kinds
  <2> QED
    BY Zenon, <1>1, <2>1, <2>2 DEF Calm, Renewed
<1> QED
  BY <1>7, <1>13, <1>14

\* A run of the device saver ends.
LEMMA DevicePutStep ==
    ASSUME Shape, NEW c \in Composers, DevicePut(c)
    PROVE  TypeOK' /\ Acts(c) /\ Calm
<1>0. SchedOK /\ RelayOK /\ CopyOK /\ RefOK /\ JobOK /\ PastOK
  BY TypeParts DEF Shape
<1> DEFINE j == <<c, "device">>
<1>1. /\ UNCHANGED <<head, body, parts, local, dev, st, doc, base, mark, waits, away, fails, fate, settled, removed>>
      /\ job[j] # None /\ Ended(c, "device", job[j].res)
  BY Zenon DEF DevicePut, relay, refs, past
<1>2. job[j].res \in {"ok", "fail"}
  BY Zenon, <1>0, <1>1 DEF JobOK, Puts
<1>3. /\ dirty' \in [Composers -> SUBSET Savers] /\ \A b \in Composers \ {c} : dirty'[b] = dirty[b]
      /\ answer' \in [Composers -> {"ok", "fail", None}]
      /\ \A b \in Composers \ {c} : answer'[b] = answer[b]
  BY Zenon, <1>0, <1>1, <1>2 DEF Ended, SchedOK, Savers
<1>4. JobOK' /\ job'[j] = None /\ \A k \in Jobs \ {j} : job'[k] = job[k]
  BY Zenon, <1>0, <1>1, DeviceSet DEF Ended
<1>5. TypeOK'
  BY Zenon, <1>0, <1>1, <1>3, <1>4, TypePartsNext DEF SchedOK, RelayOK, CopyOK, RefOK, PastOK
<1>6. Live(c) /\ st[c] \in {"open", "shut"}
  BY Zenon, <1>1, Begun DEF Live, Kinds
<1>7. /\ \A b \in Composers \ {c}, k \in Kinds : job'[<<b, k>>] = job[<<b, k>>]
      /\ \A d \in Devices : job'[<<d, "settle">>] = job[<<d, "settle">>]
      /\ \A k \in Uploads : job'[k] = job[k]
      /\ \A b \in Composers : job'[<<b, "remove">>] = job[<<b, "remove">>]
  BY Zenon, <1>4, Keys DEF Kinds
<1>8. Silent(c) => Silent(c)'
  BY Zenon, <1>1, <1>4, <1>7, Keys DEF Silent, Past, Is, Savers
<1>9. Acts(c)
  BY Zenon, <1>0, <1>1, <1>3, <1>6, <1>7, <1>8 DEF Acts, Still, RefOK
<1>10. \A b \in Composers : Clears(b)' => Clears(b)
  BY Zenon, <1>7 DEF Clears
<1> QED
  BY Zenon, <1>1, <1>5, <1>7, <1>9, <1>10, JobCalm

\* A call counts its failure.
LEMMA OutcomeOk ==
    ASSUME PastOK, NEW d, NEW out, Outcome(d, out)
    PROVE  fails' \in 0..MaxFails
  BY DraftsAssumption DEF PastOK, Outcome

\* The copy a device save writes.
CopyOf(c) ==
    [doc |-> doc[c], base |-> base[c],
     newer |-> {k \in Uploads : job[k] # None /\ Home(k) = dev[c]}]

\* A device save is issued: it writes the copy, or will say that it failed.
LEMMA StartPutOk ==
    ASSUME TypeOK, NEW c \in Composers, NEW w \in Callers, StartPut(c, w)
    PROVE  /\ JobOK' /\ CopyOK' /\ fate' \in Fates /\ fails' \in 0..MaxFails
           /\ job'[<<c, "device">>] \in Puts /\ job'[<<c, "device">>].owner = w
           /\ \A k \in Jobs \ {<<c, "device">>} : job'[k] = job[k]
           /\ \/ UNCHANGED <<local, fate>>
              \/ /\ KeepsLocal(dev[c]) /\ fate' = Saved(doc[c].text)
                 /\ local' = [local EXCEPT ![dev[c]] = CopyOf(c)]
<1>0. CopyOK /\ RefOK /\ JobOK /\ PastOK
  BY TypeParts
<1>1. PICK out \in {"ok", "none"} :
        /\ Outcome(dev[c], out)
        /\ job' = [job EXCEPT ![<<c, "device">>] =
                [step |-> "put", owner |-> w, res |-> IF out = "ok" THEN "ok" ELSE "fail"]]
        /\ IF KeepsLocal(dev[c]) /\ out = "ok"
           THEN local' = [local EXCEPT ![dev[c]] = CopyOf(c)] /\ fate' = Saved(doc[c].text)
           ELSE UNCHANGED <<local, fate>>
  BY Zenon DEF StartPut, CopyOf
<1>2. fails' \in 0..MaxFails
  BY Zenon, <1>0, <1>1, OutcomeOk
<1> DEFINE r == [step |-> "put", owner |-> w, res |-> IF out = "ok" THEN "ok" ELSE "fail"]
<1>3. r \in Puts /\ r.owner = w
  BY DEF Puts
<1>4. /\ JobOK' /\ job'[<<c, "device">>] = r
      /\ \A k \in Jobs \ {<<c, "device">>} : job'[k] = job[k]
  <2>1. job' = [job EXCEPT ![<<c, "device">>] = r]
    BY <1>1
  <2> HIDE DEF r
  <2> QED
    BY Zenon, <1>0, <1>3, <2>1, DeviceSet
<1>5. CopyOf(c) \in Copies
  BY <1>0 DEF CopyOf, Copies, RefOK
<1>6. CopyOK' /\ fate' \in Fates
  <2>1. CASE KeepsLocal(dev[c]) /\ out = "ok"
    <3>1. local' = [local EXCEPT ![dev[c]] = CopyOf(c)] /\ fate' = Saved(doc[c].text) /\ dev[c] \in Keeps
      BY <1>1, <2>1 DEF KeepsLocal
    <3>2. CopyOK'
      BY Zenon, <1>0, <1>5, <3>1 DEF CopyOK
    <3> QED
      BY <1>0, <3>1, <3>2, FateOk
  <2>2. CASE ~(KeepsLocal(dev[c]) /\ out = "ok")
    BY Zenon, <1>0, <1>1, <2>2 DEF CopyOK, PastOK
  <2> QED
    BY <2>1, <2>2
<1> HIDE DEF r
<1> QED
  BY <1>1, <1>2, <1>3, <1>4, <1>6

\* A composer writes its device's copy.
Putting(c) ==
    /\ UNCHANGED <<head, body, settled, removed>> /\ KeepsLocal(dev[c])
    /\ local' = [local EXCEPT ![dev[c]] = CopyOf(c)] /\ fate' = Saved(doc[c].text)
    /\ \A u \in Uploads : job'[u] = job[u]
    /\ \A b \in Composers : job'[<<b, "remove">>] = job[<<b, "remove">>]

\* A flush() goes on past its wait.
Resumes(c, s) ==
    /\ job[<<c, s>>] = None /\ waits[c][s] # {}
    /\ UNCHANGED <<head, body, parts, dev, st, doc, base, away, settled, removed>>
    /\ \A k \in Jobs \ {<<c, s>>} : job'[k] = job[k]
    /\ \/ /\ ~Is(c, "done") /\ mark' = [mark EXCEPT ![c] = @ \cup {"id"}] /\ UNCHANGED answer
          /\ \/ s = "device" /\ UNCHANGED <<local, fate>>
             \/ s = "device" /\ Putting(c)
             \/ s = "relay" /\ Starting(c, "relay")
       \/ /\ UNCHANGED <<job, local, mark, fate>>
          /\ answer' \in {answer, [answer EXCEPT ![c] = "ok"]}

\* What a caller that waited for a save does when it wakes.
LEMMA ResumeOk ==
    ASSUME Shape, NEW c \in Composers, NEW s \in Savers, NEW w \in Callers, Resume(c, s, w)
    PROVE  JobOK' /\ CopyOK' /\ PastOK' /\ Resumes(c, s)
<1>0. CopyOK /\ RefOK /\ JobOK /\ PastOK
  BY TypeParts DEF Shape
<1>1. /\ waits[c][s] # {} /\ job[<<c, s>>] = None
      /\ UNCHANGED <<head, body, parts, dev, st, doc, base, away, settled, removed>>
  BY DEF Resume, relay
<1>2. CASE s \in dirty[c] /\ ~Mute(c, s) /\ s = "device"
  <2>1. StartPut(c, w) /\ mark' = [mark EXCEPT ![c] = @ \cup {"id"}] /\ UNCHANGED answer
    BY <1>2 DEF Resume
  <2>2. /\ JobOK' /\ CopyOK' /\ fate' \in Fates /\ fails' \in 0..MaxFails
        /\ \A k \in Jobs \ {<<c, "device">>} : job'[k] = job[k]
        /\ \/ UNCHANGED <<local, fate>>
           \/ /\ KeepsLocal(dev[c]) /\ fate' = Saved(doc[c].text)
              /\ local' = [local EXCEPT ![dev[c]] = CopyOf(c)]
    BY Zenon, <2>1, StartPutOk DEF Shape
  <2>3. /\ \A u \in Uploads : job'[u] = job[u]
        /\ \A b \in Composers : job'[<<b, "remove">>] = job[<<b, "remove">>]
    BY Zenon, <2>2, Keys
  <2>4. UNCHANGED <<local, fate>> \/ Putting(c)
    BY Zenon, <1>1, <2>2, <2>3 DEF Putting
  <2>5. ~Is(c, "done")
    BY Zenon, <1>2 DEF Mute
  <2> QED
    BY Zenon, <1>0, <1>1, <1>2, <2>1, <2>2, <2>4, <2>5 DEF Resumes, PastOK
<1>3. CASE s \in dirty[c] /\ ~Mute(c, s) /\ s = "relay"
  <2> DEFINE r == Save(doc[c], base[c], FALSE, w)
  <2>1. /\ StartSave(<<c, "relay">>, r) /\ UNCHANGED <<fails, fate>>
        /\ mark' = [mark EXCEPT ![c] = @ \cup {"id"}] /\ UNCHANGED answer
    BY Zenon, <1>3 DEF Resume
  <2>2. r \in Saves /\ r.doc = doc[c] /\ r.base.body \in {0, base[c].body} /\ r.step \in {"body", "parts"}
    <3>1. doc[c] \in Docs /\ base[c] \in Bases
      BY <1>0 DEF RefOK
    <3> QED
      BY Zenon, <3>1 DEF Save, Saves
  <2> HIDE DEF r
  <2>3. /\ JobOK' /\ CopyOK' /\ Starting(c, "relay")
        /\ \A k \in Jobs \ {<<c, "relay">>} : job'[k] = job[k]
    BY Zenon, <1>0, <1>1, <2>1, <2>2, StartingSave
  <2>4. ~Is(c, "done")
    BY <1>3 DEF Mute
  <2> QED
    BY Zenon, <1>0, <1>1, <1>3, <2>1, <2>3, <2>4 DEF Resumes, PastOK
<1>4. CASE ~(s \in dirty[c] /\ ~Mute(c, s))
  <2>1. /\ UNCHANGED <<job, local, mark, fails, fate>>
        /\ answer' \in {answer, [answer EXCEPT ![c] = "ok"]}
    BY Zenon, <1>4 DEF Resume
  <2> QED
    BY Zenon, <1>0, <1>1, <2>1 DEF Resumes, PastOK, JobOK, CopyOK
<1> QED
  BY Zenon, <1>2, <1>3, <1>4 DEF Savers

\* A caller that wakes puts a copy on the device, starts a save, or does nothing.
LEMMA ResumeStep ==
    ASSUME Shape, NEW c \in Composers, NEW s \in Savers, NEW w \in Callers, Resume(c, s, w)
    PROVE  TypeOK' /\ Acts(c) /\ Live(c) /\ (Calm \/ Putting(c) \/ Starting(c, "relay"))
<1>0. SchedOK /\ RelayOK /\ RefOK /\ JobOK
  BY TypeParts DEF Shape
<1>1. JobOK' /\ CopyOK' /\ PastOK' /\ Resumes(c, s)
  BY ResumeOk
<1>2. /\ waits' \in [Composers -> [Savers -> SUBSET Callers]]
      /\ \A b \in Composers \ {c} : waits'[b] = waits[b]
  BY Zenon, <1>0 DEF Resume, SchedOK
<1>3. /\ answer' \in [Composers -> {"ok", "fail", None}]
      /\ \A b \in Composers \ {c} : answer'[b] = answer[b]
  BY <1>0, <1>1 DEF Resumes, SchedOK
<1>4. mark' \in [Composers -> SUBSET {"id", "edited", "done", "conflict", "disposed"}]
      /\ \A b \in Composers \ {c} : mark'[b] = mark[b]
  BY <1>0, <1>1 DEF Resumes, RefOK
<1>5. dirty' \in [Composers -> SUBSET Savers] /\ \A b \in Composers \ {c} : dirty'[b] = dirty[b]
  BY Zenon, <1>0 DEF Resume, SchedOK
<1>6. UNCHANGED <<head, body, parts, dev, st, doc, base, away, settled, removed>>
  BY <1>1 DEF Resumes
<1>7. TypeOK'
  BY <1>0, <1>1, <1>2, <1>3, <1>4, <1>5, <1>6, TypePartsNext DEF SchedOK, RelayOK, RefOK
<1>8. /\ \A b \in Composers \ {c}, k \in Kinds : job'[<<b, k>>] = job[<<b, k>>]
      /\ \A d \in Devices : job'[<<d, "settle">>] = job[<<d, "settle">>]
      /\ \A b \in Composers : job'[<<b, "remove">>] = job[<<b, "remove">>]
      /\ s = "device" => \A u \in Uploads : job'[u] = job[u]
  BY Zenon, <1>1, Keys DEF Resumes, Kinds, Savers
<1>9. Live(c) /\ st[c] \in {"open", "shut"}
  BY Zenon, <1>1, Begun DEF Resumes, Live
<1>10. Silent(c) => Silent(c)'
  <2>1. CASE UNCHANGED <<job, mark>>
    BY Zenon, <2>1 DEF Silent, Past, Is
  <2>2. CASE ~Is(c, "done") /\ mark' = [mark EXCEPT ![c] = @ \cup {"id"}]
    BY Zenon, <1>0, <2>2 DEF Silent, Is, RefOK
  <2> QED
    BY Zenon, <1>1, <2>1, <2>2 DEF Resumes
<1>11. Acts(c)
  BY Zenon, <1>0, <1>2, <1>3, <1>4, <1>5, <1>6, <1>8, <1>9, <1>10 DEF Acts, Still, RefOK
<1>12. \A b \in Composers : Clears(b)' => Clears(b)
  BY Zenon, <1>8 DEF Clears
<1>13. Calm \/ Putting(c) \/ Starting(c, "relay")
  <2>1. CASE s = "device" /\ UNCHANGED <<local, fate>>
    BY Zenon, <1>6, <1>8, <1>12, <2>1, JobCalm
  <2>2. CASE UNCHANGED <<job, local, fate>>
    BY <1>6, <2>2, SameCalm
  <2> QED
    BY Zenon, <1>1, <2>1, <2>2 DEF Resumes
<1> QED
  BY <1>7, <1>9, <1>11, <1>13

\* A removal takes the device copy, the row or the body, and drops what they held.
Removing(c) ==
    /\ UNCHANGED settled /\ \A u \in Uploads : job'[u] = job[u]
    /\ removed' \in BOOLEAN /\ (removed => removed') /\ (Clears(c)' => Clears(c) \/ removed')
    /\ head' \in {head, None} /\ body' \in {body, None}
    /\ local' \in {local, [local EXCEPT ![dev[c]] = None]}
    /\ head' # head => removed'
    /\ body' # body => Clears(c)
    /\ \A e \in Edits : fate'[e] \in Safe =>
        /\ fate[e] \in Safe
        /\ head' # head \/ body' # body => body = None \/ e \notin body.text
        /\ local' # local => local[dev[c]] = None \/ e \notin local[dev[c]].doc.text

\* removeDraft, once nothing of its composer's is in flight.
LEMMA RemoveStep ==
    ASSUME Shape, NEW c \in Composers, Remove(c)
    PROVE  TypeOK' /\ Acts(c) /\ Removing(c)
<1>0. SchedOK /\ RelayOK /\ CopyOK /\ RefOK /\ JobOK /\ PastOK
  BY TypeParts DEF Shape
<1> DEFINE j == <<c, "remove">>
<1>1. /\ UNCHANGED <<dev, doc, base, mark, dirty, waits, away, answer, settled>>
      /\ removed' = (removed \/ job[j].step = "rm head") /\ job[j] # None
  BY Zenon DEF Remove, sched
<1>2. job[j] \in Removals /\ removed' \in BOOLEAN
  BY Zenon, <1>0, <1>1 DEF JobOK, PastOK
<1>3. \A step \in {"local", "other", "rm head", "rm body", "rm parts"} :
        [job[j] EXCEPT !.step = step] \in Removals /\ [job[j] EXCEPT !.step = step].step = step
  BY Zenon, <1>2 DEF Removals
<1> DEFINE To(steps) ==
        \E r \in Removals \cup {None} : job' = [job EXCEPT ![j] = r] /\ (r # None => r.step \in steps)
<1>4. st' \in {st, [st EXCEPT ![c] = "shut"]}
  BY Zenon DEF Remove
<1>5. /\ RelayOK' /\ fate' \in Fates /\ fails' \in 0..MaxFails
      /\ head' \in {head, None} /\ body' \in {body, None}
      /\ local' \in {local, [local EXCEPT ![dev[c]] = None]}
      /\ head' # head => removed'
      /\ body' # body => job[j].step = "rm body"
      /\ \A e \in Edits : fate'[e] \in Safe =>
            /\ fate[e] \in Safe
            /\ head' # head \/ body' # body => body = None \/ e \notin body.text
            /\ local' # local => local[dev[c]] = None \/ e \notin local[dev[c]].doc.text
      /\ \/ job[j].step \in {"wait", "wait other"} /\ Idle(c) /\ To({"local", "other"})
         \/ job[j].step \in {"local", "other"} /\ To({"rm head"})
         \/ job[j].step = "rm head" /\ To({"rm body"})
         \/ job[j].step \in {"rm body", "rm parts"} /\ To({"rm parts"})
  <2>1. CASE job[j].step \in {"wait", "wait other"}
    <3>1. /\ UNCHANGED <<head, body, parts, local, fails, fate>> /\ Idle(c)
          /\ \/ job' = [job EXCEPT ![j] = None]
             \/ \E step \in {"local", "other"} : job' = [job EXCEPT ![j] = [job[j] EXCEPT !.step = step]]
      BY Zenon, <2>1 DEF Remove, Goto, relay
    <3>2. To({"local", "other"})
      BY Zenon, <1>3, <3>1
    <3> HIDE DEF To
    <3> QED
      BY Zenon, <1>0, <2>1, <3>1, <3>2 DEF RelayOK, PastOK
  <2>2. CASE job[j].step \in {"local", "other"}
    <3>1. /\ UNCHANGED <<head, body, parts, fails>> /\ local' = [local EXCEPT ![dev[c]] = None]
          /\ fate' = IF local[dev[c]] # None THEN Gone(local[dev[c]].doc.text, "dropped") ELSE fate
          /\ \/ job' = [job EXCEPT ![j] = None]
             \/ job' = [job EXCEPT ![j] = [job[j] EXCEPT !.step = "rm head"]]
      BY Zenon, <2>2 DEF Remove, Goto, relay
    <3>2. To({"rm head"})
      BY Zenon, <1>3, <3>1
    <3>3. fate' \in Fates
      BY Zenon, <1>0, <3>1, FateOk DEF PastOK
    <3>4. \A e \in Edits : fate'[e] \in Safe =>
            fate[e] \in Safe /\ (local[dev[c]] = None \/ e \notin local[dev[c]].doc.text)
      <4>1. CASE local[dev[c]] = None
        BY Zenon, <3>1, <4>1
      <4>2. CASE local[dev[c]] # None
        <5> DEFINE es == local[dev[c]].doc.text
        <5>1. fate' = Gone(es, "dropped")
          BY Zenon, <3>1, <4>2
        <5>2. \A e \in Edits : Gone(es, "dropped")[e] \in Safe => e \notin es /\ fate[e] \in Safe
          BY FateSafe
        <5> QED
          BY <5>1, <5>2
      <4> QED
        BY Zenon, <4>1, <4>2
    <3> HIDE DEF To
    <3> QED
      BY Zenon, <1>0, <2>2, <3>1, <3>2, <3>3, <3>4 DEF RelayOK, PastOK
  <2>3. CASE job[j].step \in {"rm head", "rm body", "rm parts"}
    <3> DEFINE st0 == job[j].step
    <3>1. PICK out \in Outcomes :
            /\ Outcome(dev[c], out) /\ UNCHANGED local
            /\ head' = IF st0 = "rm head" /\ out # "none" THEN None ELSE head
            /\ body' = IF st0 = "rm body" /\ out # "none" THEN None ELSE body
            /\ parts' \in {parts, {}}
            /\ fate' = IF ((st0 = "rm head" /\ out # "none") \/ (st0 = "rm body" /\ out # "none")) /\ body # None
                       THEN Gone(body.text, "dropped") ELSE fate
            /\ \/ job' = [job EXCEPT ![j] = None]
               \/ st0 = "rm head" /\ job' = [job EXCEPT ![j] = [job[j] EXCEPT !.step = "rm body"]]
               \/ st0 = "rm body" /\ job' = [job EXCEPT ![j] = [job[j] EXCEPT !.step = "rm parts"]]
      BY Zenon, <2>3 DEF Remove, Goto
    <3>2. fails' \in 0..MaxFails
      BY Zenon, <1>0, <3>1, OutcomeOk
    <3>3. \/ st0 = "rm head" /\ To({"rm body"})
          \/ st0 \in {"rm body", "rm parts"} /\ To({"rm parts"})
      BY Zenon, <1>3, <2>3, <3>1
    <3>4. fate' \in Fates
      BY Zenon, <1>0, <3>1, FateOk DEF PastOK
    <3>5. \A e \in Edits : fate'[e] \in Safe =>
            /\ fate[e] \in Safe
            /\ head' # head \/ body' # body => body = None \/ e \notin body.text
      BY Zenon, <3>1, FateSafe
    <3>6. (head' # head => removed') /\ (body' # body => st0 = "rm body")
      BY Zenon, <1>1, <3>1
    <3> HIDE DEF To
    <3> QED
      BY Zenon, <1>0, <2>3, <3>1, <3>2, <3>3, <3>4, <3>5, <3>6 DEF RelayOK
  <2> QED
    BY Zenon, <1>2, <2>1, <2>2, <2>3 DEF Removals
<1>6. JobOK' /\ \A k \in Jobs \ {j} : job'[k] = job[k]
  <2>1. PICK r \in Removals \cup {None} : job' = [job EXCEPT ![j] = r]
    BY Zenon, <1>5
  <2> QED
    BY Zenon, <1>0, <2>1, RemoveSet
<1>7. job'[j] # None => \/ job[j].step \in {"wait", "wait other"} /\ Idle(c) /\ job'[j].step \in {"local", "other"}
                        \/ job[j].step \in {"local", "other"} /\ job'[j].step = "rm head"
                        \/ job[j].step = "rm head" /\ job'[j].step = "rm body"
                        \/ job[j].step \in {"rm body", "rm parts"} /\ job'[j].step = "rm parts"
  <2>1. \A r : job' = [job EXCEPT ![j] = r] => job'[j] = r
    BY Zenon, <1>0, Keys DEF JobOK
  <2> QED
    BY Zenon, <1>5, <2>1
<1>8. CopyOK'
  BY Zenon, <1>0, <1>5 DEF CopyOK
<1>9. RefOK' /\ SchedOK' /\ PastOK'
  BY Zenon, <1>0, <1>1, <1>2, <1>4, <1>5 DEF RefOK, SchedOK, PastOK
<1>10. /\ \A b \in Composers \ {c}, k \in Kinds : job'[<<b, k>>] = job[<<b, k>>]
       /\ \A d \in Devices : job'[<<d, "settle">>] = job[<<d, "settle">>]
       /\ \A s \in Savers : job'[<<c, s>>] = job[<<c, s>>]
       /\ \A u \in Uploads : job'[u] = job[u]
  BY Zenon, <1>6, Keys DEF Kinds, Savers
<1>11. Live(c) /\ st[c] \in {"open", "shut"}
  BY Zenon, <1>1, Begun DEF Live, Kinds
<1>12. Silent(c) => Silent(c)'
  <2>1. CASE job[j].step \in {"wait", "wait other"}
    <3>1. Idle(c)
      BY Zenon, <1>5, <2>1
    <3> QED
      BY <1>10, <3>1 DEF Silent, Idle
  <2>2. CASE job[j].step \notin {"wait", "wait other"}
    BY Zenon, <1>1, <1>10, <2>2 DEF Silent, Past, Is
  <2> QED
    BY Zenon, <2>1, <2>2
<1>13. Acts(c)
  BY Zenon, <1>0, <1>1, <1>4, <1>10, <1>11, <1>12 DEF Acts, Still, RefOK
<1>14. (Clears(c)' => Clears(c) \/ removed') /\ (body' # body => Clears(c))
  BY Zenon, <1>1, <1>5, <1>7 DEF Clears
<1>15. TypeOK'
  BY Zenon, <1>5, <1>6, <1>8, <1>9, TypePartsNext
<1>16. removed => removed'
  BY Zenon, <1>1
<1>17. Removing(c)
  BY Zenon, <1>1, <1>2, <1>5, <1>10, <1>14, <1>16 DEF Removing
<1> QED
  BY <1>13, <1>15, <1>17

-----------------------------------------------------------------------------
(* The steps of a save to the relay                                        *)

\* A step of save j ends it or takes it on, and is at most felt by its composer.
Turn(j) ==
    /\ \A k \in Jobs \ {j} : job'[k] = job[k]
    /\ job'[j] # None => job'[j].doc = job[j].doc
    /\ dirty' \in [Composers -> SUBSET Savers] /\ answer' \in [Composers -> {"ok", "fail", None}]
    /\ \A b \in Composers :
        b # j[1] \/ j[2] = "settle" => dirty'[b] = dirty[b] /\ answer'[b] = answer[b]

\* A save that failed or settled is no longer in flight, and only its composer hears of it.
LEMMA EndTurn ==
    ASSUME TypeOK, NEW j \in Uploads, job[j] # None, Failed(j) \/ Settled(j)
    PROVE  JobOK' /\ Turn(j) /\ job'[j] = None
<1>0. SchedOK /\ JobOK
  BY TypeParts
<1>1. job' = [job EXCEPT ![j] = None]
  <2>1. ASSUME NEW c \in Composers, j = <<c, "relay">>
        PROVE  job' = [job EXCEPT ![j] = None]
    BY <2>1 DEF Failed, Settled, Ended
  <2>2. ASSUME j[2] # "relay"
        PROVE  job' = [job EXCEPT ![j] = None]
    BY <2>2 DEF Failed, Settled, Goto
  <2> QED
    BY <2>1, <2>2, UploadKinds
<1>2. JobOK' /\ job'[j] = None /\ \A k \in Jobs \ {j} : job'[k] = job[k]
  BY Zenon, <1>0, <1>1, UploadSet
<1>3. ASSUME NEW c \in Composers, j = <<c, "relay">>
      PROVE  Turn(j)
  <2>1. PICK res \in {"ok", "fail"} : Ended(c, "relay", res)
    BY <1>3 DEF Failed, Settled
  <2>2. /\ dirty' \in [Composers -> SUBSET Savers] /\ \A b \in Composers \ {c} : dirty'[b] = dirty[b]
        /\ answer' \in [Composers -> {"ok", "fail", None}]
        /\ \A b \in Composers \ {c} : answer'[b] = answer[b]
    BY Zenon, <1>0, <1>3, <2>1 DEF Ended, SchedOK, Savers
  <2> QED
    BY Zenon, <1>2, <1>3, <2>2 DEF Turn
<1>4. ASSUME NEW c \in Composers, j = <<c, "keep">>
      PROVE  Turn(j)
  <2>1. UNCHANGED answer /\ (UNCHANGED dirty \/ Touch(c, {"relay"}))
    BY <1>4 DEF Failed, Settled
  <2>2. dirty' \in [Composers -> SUBSET Savers] /\ \A b \in Composers \ {c} : dirty'[b] = dirty[b]
    BY <1>0, <2>1 DEF Touch, SchedOK, Savers
  <2> QED
    BY Zenon, <1>0, <1>2, <1>4, <2>1, <2>2 DEF Turn, SchedOK
<1>5. ASSUME NEW d \in Devices, j = <<d, "settle">>
      PROVE  Turn(j)
  <2>1. UNCHANGED <<dirty, answer>>
    BY <1>5 DEF Failed, Settled
  <2> QED
    BY <1>0, <1>2, <1>5, <2>1 DEF Turn, SchedOK
<1> QED
  BY <1>2, <1>3, <1>4, <1>5, UploadKinds

\* A save that goes on to its next step keeps its document.
LEMMA OnwardTurn ==
    ASSUME TypeOK, NEW j \in Uploads, NEW r \in Saves, Onward(j, r), r.doc = job[j].doc
    PROVE  JobOK' /\ Turn(j) /\ job'[j] = r
<1>0. SchedOK /\ JobOK
  BY TypeParts
<1>1. job' = [job EXCEPT ![j] = r] /\ UNCHANGED <<dirty, answer>>
  BY DEF Onward, Goto
<1>2. JobOK' /\ job'[j] = r /\ \A k \in Jobs \ {j} : job'[k] = job[k]
  BY Zenon, <1>0, <1>1, UploadSet
<1>3. r # None
  BY DraftsAssumption
<1> QED
  BY <1>0, <1>1, <1>2, <1>3 DEF Turn, SchedOK

\* A conflict is noted by the composer whose save met it.
MarkTurn(j) ==
    /\ mark' \in [Composers -> SUBSET {"id", "edited", "done", "conflict", "disposed"}]
    /\ \A b \in Composers :
        /\ b # j[1] \/ j[2] = "settle" => mark'[b] = mark[b]
        /\ mark[b] \subseteq mark'[b] /\ mark'[b] \subseteq mark[b] \cup {"conflict"}
BaseTurn(j) ==
    /\ base' \in [Composers -> Bases]
    /\ \A b \in Composers : b # j[1] \/ j[2] = "settle" => base'[b] = base[b]

\* Nothing but the save itself and what it notes with its composer.
LEMMA SameTurn ==
    ASSUME TypeOK, NEW j
    PROVE  (UNCHANGED mark => MarkTurn(j)) /\ (UNCHANGED base => BaseTurn(j))
  BY DEF TypeOK, MarkTurn, BaseTurn

\* save() returned.
LEMMA ReturnedTurn ==
    ASSUME TypeOK, NEW j \in Uploads, job[j] # None, NEW b \in Bases, Returned(j, b)
    PROVE  /\ JobOK' /\ Turn(j) /\ BaseTurn(j)
           /\ \A c \in Composers : j[2] # "settle" /\ c = j[1] => base'[c] = b
           /\ job'[j] # None => job'[j].step = "check" /\ job'[j].base = b
<1>0. RefOK /\ JobOK
  BY TypeParts
<1>1. BaseTurn(j) /\ \A c \in Composers : j[2] # "settle" /\ c = j[1] => base'[c] = b
  BY Zenon, <1>0 DEF Returned, RefOK, BaseTurn
<1>2. CASE KeepsLocal(Home(j))
  <2> DEFINE r == [job[j] EXCEPT !.step = "check", !.base = b]
  <2>1. Onward(j, r)
    BY <1>2 DEF Returned
  <2>2. /\ r \in Saves /\ r.doc = job[j].doc
        /\ r.step = "check" /\ r.base = b
    BY Zenon, <1>0 DEF JobOK, Saves
  <2> HIDE DEF r
  <2>3. JobOK' /\ Turn(j) /\ job'[j] = r
    BY <2>1, <2>2, OnwardTurn
  <2> QED
    BY <1>1, <2>2, <2>3
<1>3. CASE ~KeepsLocal(Home(j))
  <2>1. JobOK' /\ Turn(j) /\ job'[j] = None
    BY <1>3, EndTurn DEF Returned
  <2> QED
    BY <1>1, <2>1
<1> QED
  BY <1>2, <1>3

\* save() met a version it did not expect.
LEMMA ConflictedTurn ==
    ASSUME TypeOK, NEW j \in Uploads, job[j] # None, Conflicted(j)
    PROVE  /\ JobOK' /\ Turn(j) /\ MarkTurn(j) /\ UNCHANGED <<head, body, parts, base, fails, fate>>
           /\ job'[j] # None => job'[j].step = "gone" /\ job'[j].base = job[j].base
<1>0. RefOK /\ JobOK
  BY TypeParts
<1>1. UNCHANGED <<head, body, parts, base, fails, fate>>
  BY DEF Conflicted, relay
<1>2. CASE j[2] = "relay"
  <2>1. JobOK' /\ Turn(j) /\ job'[j] = None
    BY <1>2, EndTurn DEF Conflicted, Settled
  <2>2. MarkTurn(j)
    BY <1>0, <1>2 DEF Conflicted, RefOK, MarkTurn
  <2> QED
    BY <1>1, <2>1, <2>2
<1>3. CASE j[2] # "relay"
  <2> DEFINE r == [job[j] EXCEPT !.step = "gone"]
  <2>1. Onward(j, r) /\ UNCHANGED mark
    BY <1>3 DEF Conflicted
  <2>2. /\ r \in Saves /\ r.doc = job[j].doc
        /\ r.step = "gone" /\ r.base = job[j].base
    BY <1>0 DEF JobOK, Saves
  <2> HIDE DEF r
  <2>3. JobOK' /\ Turn(j) /\ job'[j] = r
    BY <2>1, <2>2, OnwardTurn
  <2> QED
    BY Zenon, <1>1, <2>1, <2>2, <2>3, SameTurn
<1> QED
  BY <1>2, <1>3

\* Attachments are uploaded.
LEMMA PutPartsStep ==
    ASSUME TypeOK, NEW j \in Uploads, job[j] # None, PutParts(j)
    PROVE  /\ JobOK' /\ Turn(j) /\ UNCHANGED <<head, body, base, mark, fate>>
           /\ parts' \subseteq Parts /\ fails' \in 0..MaxFails
           /\ job'[j] # None => /\ job'[j].step = "body" /\ job'[j].base.body = job[j].base.body
<1>0. JobOK /\ RelayOK /\ PastOK
  BY TypeParts
<1>1. job[j] \in Saves
  BY <1>0 DEF JobOK
<1> DEFINE r == [job[j] EXCEPT !.step = "body", !.base = [@ EXCEPT !.parts = job[j].base.parts \cup job[j].doc.parts]]
<1>2. PICK out \in Outcomes :
        /\ Outcome(Home(j), out)
        /\ parts' = IF out = "none" THEN parts ELSE parts \cup (job[j].doc.parts \ job[j].base.parts)
        /\ IF out # "ok" THEN Failed(j) ELSE Onward(j, r)
        /\ UNCHANGED <<head, body, base, mark, fate>>
  BY DEF PutParts
<1>3. parts' \subseteq Parts
  BY <1>0, <1>1, <1>2 DEF RelayOK, Saves, Docs
<1>4. fails' \in 0..MaxFails
  BY <1>0, <1>2, OutcomeOk
<1>5. /\ r \in Saves /\ r.doc = job[j].doc
      /\ r.step = "body" /\ r.base.body = job[j].base.body
  BY Zenon, <1>1 DEF Saves, Docs, Bases
<1> HIDE DEF r
<1>6. CASE out # "ok"
  <2>1. JobOK' /\ Turn(j) /\ job'[j] = None
    BY <1>2, <1>6, EndTurn
  <2> QED
    BY <1>2, <1>3, <1>4, <2>1
<1>7. CASE out = "ok"
  <2>1. JobOK' /\ Turn(j) /\ job'[j] = r
    BY Zenon, <1>2, <1>5, <1>7, OnwardTurn
  <2> QED
    BY Zenon, <1>2, <1>3, <1>4, <1>5, <2>1
<1> QED
  BY <1>6, <1>7

\* The body is put, unless another version is stored than the save names.
Overwritten(j) ==
    IF body = None THEN fate
    ELSE IF job[j].force THEN Gone(body.text \ job[j].doc.text, "dropped")
    ELSE IF job[j].base.body = 0 \/ removed THEN Gone(body.text \ job[j].doc.text, "overrun")
    ELSE fate
BodyPut(j) ==
    /\ ~Stale(job[j].base.body, Ver(body), job[j])
    /\ body' = [ver |-> Ver(body) + 1, text |-> job[j].doc.text] /\ fate' = Overwritten(j)
    /\ job'[j] # None => job'[j].step = "head" /\ job'[j].base.body = Ver(body) + 1

\* The conditional put of the body.
LEMMA PutBodyStep ==
    ASSUME TypeOK, NEW j \in Uploads, job[j] # None, PutBody(j)
    PROVE  /\ JobOK' /\ Turn(j) /\ MarkTurn(j) /\ UNCHANGED <<head, parts, base>>
           /\ body' \in Bodies \cup {None} /\ fate' \in Fates /\ fails' \in 0..MaxFails
           /\ \/ /\ UNCHANGED <<body, fate>>
                 /\ job'[j] # None => job'[j].step = "gone" /\ job'[j].base = job[j].base
              \/ BodyPut(j)
<1>0. JobOK /\ RelayOK /\ PastOK
  BY TypeParts
<1>1. job[j] \in Saves
  BY <1>0 DEF JobOK
<1> DEFINE v == Ver(body) + 1
           r == [job[j] EXCEPT !.step = "head", !.base = [@ EXCEPT !.body = v]]
<1>2. v \in Nat
  BY <1>0 DEF RelayOK, Bodies, Ver
<1>3. Overwritten(j) \in Fates
  BY Zenon, <1>0, FateOk DEF Overwritten, PastOK
<1>4. /\ r \in Saves /\ r.doc = job[j].doc
      /\ r.step = "head" /\ r.base.body = v
  BY Zenon, <1>1, <1>2 DEF Saves, Bases
<1>5. [ver |-> v, text |-> job[j].doc.text] \in Bodies
  BY <1>1, <1>2 DEF Saves, Docs, Bodies
<1>6. CASE Conflicted(j)
  BY Zenon, <1>0, <1>6, ConflictedTurn DEF RelayOK, PastOK
<1>7. CASE ~Conflicted(j)
  <2>1. /\ ~Stale(job[j].base.body, Ver(body), job[j])
        /\ UNCHANGED <<head, parts, base, mark>>
    BY <1>7 DEF PutBody
  <2>2. PICK out \in Outcomes :
            /\ Outcome(Home(j), out)
            /\ body' = IF out = "none" THEN body ELSE [ver |-> v, text |-> job[j].doc.text]
            /\ fate' = IF out = "none" THEN fate ELSE Overwritten(j)
            /\ IF out # "ok" THEN Failed(j) ELSE Onward(j, r)
    BY <1>7 DEF PutBody, Overwritten
  <2>3. fails' \in 0..MaxFails
    BY <1>0, <2>2, OutcomeOk
  <2>4. body' \in Bodies \cup {None} /\ fate' \in Fates
    BY <1>0, <1>3, <1>5, <2>2 DEF RelayOK, PastOK
  <2>5. MarkTurn(j)
    BY <2>1, SameTurn
  <2> HIDE DEF r
  <2>6. CASE out # "ok"
    <3>1. JobOK' /\ Turn(j) /\ job'[j] = None
      BY Zenon, <2>2, <2>6, EndTurn
    <3> QED
      BY Zenon, <2>1, <2>2, <2>3, <2>4, <2>5, <3>1 DEF BodyPut
  <2>7. CASE out = "ok"
    <3>1. JobOK' /\ Turn(j) /\ job'[j] = r
      BY Zenon, <1>4, <2>2, <2>7, OnwardTurn
    <3> QED
      BY Zenon, <1>4, <2>1, <2>2, <2>3, <2>4, <2>5, <2>7, <3>1 DEF BodyPut
  <2> QED
    BY Zenon, <2>6, <2>7
<1> QED
  BY <1>6, <1>7

\* The row is put, unless another version is stored than the save names.
HeadPut(j) ==
    /\ head' = [ver |-> Ver(head) + 1, parts |-> job[j].doc.parts]
    /\ fate' = IF body = None THEN fate ELSE Saved(job[j].doc.text \cap body.text)
    /\ job'[j] # None => job'[j].step \in {"drop", "check"} /\ job'[j].base.body = job[j].base.body
    /\ \A c \in Composers : base'[c] = base[c] \/ base'[c].body = job[j].base.body

\* The conditional put of the row.
LEMMA PutHeadStep ==
    ASSUME TypeOK, NEW j \in Uploads, job[j] # None, PutHead(j)
    PROVE  /\ JobOK' /\ Turn(j) /\ MarkTurn(j) /\ BaseTurn(j) /\ UNCHANGED <<body, parts>>
           /\ head' \in Rows \cup {None} /\ fate' \in Fates /\ fails' \in 0..MaxFails
           /\ \/ /\ UNCHANGED <<head, base, fate>>
                 /\ job'[j] # None => job'[j].step = "gone" /\ job'[j].base = job[j].base
              \/ HeadPut(j)
<1>0. JobOK /\ RelayOK /\ PastOK
  BY TypeParts
<1>1. job[j] \in Saves
  BY <1>0 DEF JobOK
<1> DEFINE v == Ver(head) + 1
           b == [job[j].base EXCEPT !.head = v]
           r == [job[j] EXCEPT !.step = "drop", !.base = b]
           row == [ver |-> v, parts |-> job[j].doc.parts]
           f == IF body = None THEN fate ELSE Saved(job[j].doc.text \cap body.text)
<1>2. v \in Nat
  BY <1>0 DEF RelayOK, Rows, Ver
<1>3. f \in Fates
  BY Zenon, <1>0, FateOk DEF PastOK
<1>4. b \in Bases /\ b.body = job[j].base.body
  BY <1>1, <1>2 DEF Saves, Bases
<1>5. /\ r \in Saves /\ r.doc = job[j].doc
      /\ r.step = "drop" /\ r.base = b
  <2> HIDE DEF b
  <2> QED
    BY Zenon, <1>1, <1>4 DEF Saves
<1>6. row \in Rows
  BY Zenon, <1>1, <1>2 DEF Saves, Docs, Rows
<1>7. CASE Conflicted(j)
  BY Zenon, <1>0, <1>7, ConflictedTurn, SameTurn DEF RelayOK, PastOK
<1>8. CASE ~Conflicted(j)
  <2>1. UNCHANGED <<body, parts, mark>>
    BY <1>8 DEF PutHead
  <2>2. PICK out \in Outcomes :
            /\ Outcome(Home(j), out)
            /\ head' = IF out = "none" THEN head ELSE row
            /\ fate' = IF out = "none" THEN fate ELSE f
            /\ IF out # "ok" THEN Failed(j) /\ UNCHANGED base
               ELSE IF b.parts \subseteq job[j].doc.parts THEN Returned(j, b)
               ELSE Onward(j, r) /\ UNCHANGED base
    BY Zenon, <1>8 DEF PutHead
  <2>3. fails' \in 0..MaxFails
    BY <1>0, <2>2, OutcomeOk
  <2>4. head' \in Rows \cup {None} /\ fate' \in Fates
    BY <1>0, <1>3, <1>6, <2>2 DEF RelayOK, PastOK
  <2>5. MarkTurn(j)
    BY <2>1, SameTurn
  <2>6. CASE out # "ok"
    <3>1. JobOK' /\ Turn(j) /\ job'[j] = None
      BY <2>2, <2>6, EndTurn
    <3>2. UNCHANGED base /\ BaseTurn(j)
      BY <2>2, <2>6, SameTurn
    <3> HIDE DEF r, b
    <3> QED
      BY Zenon, <2>1, <2>2, <2>3, <2>4, <2>5, <3>1, <3>2 DEF HeadPut
  <2>7. CASE out = "ok" /\ b.parts \subseteq job[j].doc.parts
    <3> HIDE DEF b
    <3>1. /\ JobOK' /\ Turn(j) /\ BaseTurn(j)
          /\ \A c \in Composers : j[2] # "settle" /\ c = j[1] => base'[c] = b
          /\ job'[j] # None => job'[j].step = "check" /\ job'[j].base = b
      BY <1>4, <2>2, <2>7, ReturnedTurn
    <3>2. \A c \in Composers : base'[c] = base[c] \/ base'[c].body = job[j].base.body
      BY Zenon, <1>4, <3>1 DEF BaseTurn
    <3> HIDE DEF r
    <3> QED
      BY Zenon, <1>4, <2>1, <2>2, <2>3, <2>4, <2>5, <2>7, <3>1, <3>2 DEF HeadPut
  <2>8. CASE out = "ok" /\ ~(b.parts \subseteq job[j].doc.parts)
    <3> HIDE DEF r, b
    <3>1. Onward(j, r) /\ UNCHANGED base
      BY Zenon, <2>2, <2>8
    <3>2. JobOK' /\ Turn(j) /\ job'[j] = r
      BY Zenon, <1>5, <3>1, OnwardTurn
    <3>3. BaseTurn(j)
      BY <3>1, SameTurn
    <3> QED
      BY Zenon, <1>4, <1>5, <2>1, <2>2, <2>3, <2>4, <2>5, <2>8, <3>1, <3>2, <3>3 DEF HeadPut
  <2> QED
    BY <2>6, <2>7, <2>8
<1> QED
  BY Zenon, <1>7, <1>8

\* Parts the message lost are removed from the relay.
LEMMA DropPartsStep ==
    ASSUME TypeOK, NEW j \in Uploads, job[j] # None, DropParts(j)
    PROVE  /\ JobOK' /\ Turn(j) /\ BaseTurn(j) /\ UNCHANGED <<head, body, mark, fate>>
           /\ parts' \subseteq Parts /\ fails' \in 0..MaxFails
           /\ job'[j] # None => job'[j].step = "check" /\ job'[j].base.body = job[j].base.body
           /\ \A c \in Composers : base'[c] = base[c] \/ base'[c].body = job[j].base.body
<1>0. JobOK /\ RelayOK /\ PastOK
  BY TypeParts
<1>1. job[j] \in Saves
  BY <1>0 DEF JobOK
<1>2. PICK out \in Outcomes :
        /\ Outcome(Home(j), out)
        /\ parts' = IF out = "none" THEN parts ELSE parts \ (job[j].base.parts \ job[j].doc.parts)
        /\ Returned(j, [job[j].base EXCEPT !.parts =
                IF out = "ok" THEN job[j].base.parts \ (job[j].base.parts \ job[j].doc.parts) ELSE job[j].base.parts])
        /\ UNCHANGED <<head, body, mark, fate>>
  BY Zenon DEF DropParts
<1> DEFINE b == [job[j].base EXCEPT !.parts =
                IF out = "ok" THEN job[j].base.parts \ (job[j].base.parts \ job[j].doc.parts) ELSE job[j].base.parts]
<1>3. parts' \subseteq Parts
  BY <1>0, <1>2 DEF RelayOK
<1>4. fails' \in 0..MaxFails
  BY <1>0, <1>2, OutcomeOk
<1>5. b \in Bases /\ b.body = job[j].base.body
  BY <1>1 DEF Saves, Bases
<1>6. Returned(j, b)
  BY <1>2
<1> HIDE DEF b
<1>7. /\ JobOK' /\ Turn(j) /\ BaseTurn(j)
      /\ \A c \in Composers : j[2] # "settle" /\ c = j[1] => base'[c] = b
      /\ job'[j] # None => job'[j].step = "check" /\ job'[j].base = b
  BY <1>5, <1>6, ReturnedTurn
<1>8. \A c \in Composers : base'[c] = base[c] \/ base'[c].body = job[j].base.body
  BY <1>5, <1>7 DEF BaseTurn
<1> QED
  BY <1>2, <1>3, <1>4, <1>5, <1>7, <1>8

\* A save that goes on with what it has, or ends, disturbs nothing.
LEMMA TurnCalm ==
    ASSUME NEW j \in Uploads, job[j] # None, Turn(j), BaseTurn(j),
           UNCHANGED <<head, body, local, dev, settled, removed, fate>>,
           \A c \in Composers : base'[c] = base[c] \/ base'[c].body = job[j].base.body,
           job'[j] # None =>
                /\ job'[j].base.body = job[j].base.body /\ job'[j].step # "head"
                /\ job'[j].step \in Clearing => job[j].step \in Clearing
    PROVE  Calm
<1>1. \A k \in Uploads : Tame(k)
  BY Zenon, Keys DEF Tame, Turn
<1>2. ASSUME NEW c \in Composers
      PROVE  Renewed(c)
  <2>1. CASE c # j[1] \/ j[2] = "settle"
    BY <2>1 DEF Renewed, BaseTurn
  <2>2. CASE c = j[1] /\ j[2] # "settle"
    <3>1. j = <<c, "relay">> \/ j = <<c, "keep">>
      BY <2>2, UploadKinds
    <3> QED
      BY <3>1 DEF Renewed
  <2> QED
    BY Zenon, <2>1, <2>2
<1>3. \A c \in Composers : Clears(c)' => Clears(c)
  BY Zenon, Keys DEF Turn, Clears
<1> QED
  BY Zenon, <1>1, <1>2, <1>3 DEF Calm

\* A step of a save leaves of the composers all but what its own one notes.
Ticks(j) ==
    /\ job[j] # None /\ Turn(j) /\ MarkTurn(j) /\ BaseTurn(j)
    /\ UNCHANGED <<dev, st, doc, waits, away>>

\* Any step of a save on the relay.
LEMMA SaveStepStep ==
    ASSUME TypeOK, NEW j \in Uploads, SaveStep(j)
    PROVE  /\ TypeOK' /\ Ticks(j) /\ UNCHANGED <<local, settled, removed>>
           /\ \/ Calm
              \/ BodyPut(j) /\ UNCHANGED <<head, base>>
              \/ HeadPut(j) /\ UNCHANGED body /\ job[j].step = "head"
<1>0. RelayOK /\ CopyOK /\ RefOK /\ SchedOK /\ PastOK
  BY TypeParts
<1>1. job[j] # None /\ UNCHANGED <<local, dev, st, doc, waits, away, settled, removed>>
  BY Zenon DEF SaveStep
<1>2. /\ JobOK' /\ Turn(j) /\ MarkTurn(j) /\ BaseTurn(j)
      /\ head' \in Rows \cup {None} /\ body' \in Bodies \cup {None} /\ parts' \subseteq Parts
      /\ fate' \in Fates /\ fails' \in 0..MaxFails
      /\ \/ Calm
         \/ BodyPut(j) /\ UNCHANGED <<head, base>>
         \/ HeadPut(j) /\ UNCHANGED body /\ job[j].step = "head"
  <2>1. CASE PutParts(j)
    <3>1. /\ JobOK' /\ Turn(j) /\ UNCHANGED <<head, body, base, mark, fate>>
          /\ parts' \subseteq Parts /\ fails' \in 0..MaxFails
          /\ job'[j] # None => /\ job'[j].step = "body" /\ job'[j].base.body = job[j].base.body
      BY <1>1, <2>1, PutPartsStep
    <3>2. MarkTurn(j) /\ BaseTurn(j)
      BY <3>1, SameTurn
    <3>3. Calm
      BY <1>1, <3>1, <3>2, TurnCalm DEF Clearing
    <3> QED
      BY <1>0, <3>1, <3>2, <3>3 DEF RelayOK, PastOK
  <2>2. CASE PutBody(j)
    <3>1. /\ JobOK' /\ Turn(j) /\ MarkTurn(j) /\ UNCHANGED <<head, parts, base>>
          /\ body' \in Bodies \cup {None} /\ fate' \in Fates /\ fails' \in 0..MaxFails
          /\ \/ /\ UNCHANGED <<body, fate>>
                /\ job'[j] # None => job'[j].step = "gone" /\ job'[j].base = job[j].base
             \/ BodyPut(j)
      BY <1>1, <2>2, PutBodyStep
    <3>2. BaseTurn(j)
      BY <3>1, SameTurn
    <3>3. Calm \/ BodyPut(j)
      BY Zenon, <1>1, <3>1, <3>2, TurnCalm DEF Clearing
    <3> QED
      BY Zenon, <1>0, <3>1, <3>2, <3>3 DEF RelayOK
  <2>3. CASE job[j].step = "head" /\ PutHead(j)
    <3>1. /\ JobOK' /\ Turn(j) /\ MarkTurn(j) /\ BaseTurn(j) /\ UNCHANGED <<body, parts>>
          /\ head' \in Rows \cup {None} /\ fate' \in Fates /\ fails' \in 0..MaxFails
          /\ \/ /\ UNCHANGED <<head, base, fate>>
                /\ job'[j] # None => job'[j].step = "gone" /\ job'[j].base = job[j].base
             \/ HeadPut(j)
      BY Zenon, <1>1, <2>3, PutHeadStep
    <3>2. Calm \/ HeadPut(j)
      BY Zenon, <1>1, <3>1, TurnCalm DEF Clearing
    <3> QED
      BY Zenon, <1>0, <2>3, <3>1, <3>2 DEF RelayOK
  <2>4. CASE job[j].step = "drop" /\ DropParts(j)
    <3>1. /\ JobOK' /\ Turn(j) /\ BaseTurn(j) /\ UNCHANGED <<head, body, mark, fate>>
          /\ parts' \subseteq Parts /\ fails' \in 0..MaxFails
          /\ job'[j] # None => job'[j].step = "check" /\ job'[j].base.body = job[j].base.body
          /\ \A c \in Composers : base'[c] = base[c] \/ base'[c].body = job[j].base.body
      BY <1>1, <2>4, DropPartsStep
    <3>2. MarkTurn(j)
      BY Zenon, <3>1, SameTurn
    <3>3. Calm
      BY Zenon, <1>1, <2>4, <3>1, TurnCalm DEF Clearing
    <3> QED
      BY <1>0, <3>1, <3>2, <3>3 DEF RelayOK, PastOK
  <2> QED
    BY Zenon, <2>1, <2>2, <2>3, <2>4 DEF SaveStep
<1>3. RelayOK' /\ CopyOK' /\ PastOK'
  BY Zenon, <1>0, <1>1, <1>2 DEF RelayOK, CopyOK, PastOK
<1>4. RefOK' /\ SchedOK'
  BY Zenon, <1>0, <1>1, <1>2 DEF RefOK, SchedOK, Turn, MarkTurn, BaseTurn
<1> QED
  BY Zenon, <1>1, <1>2, <1>3, <1>4, TypePartsNext DEF Ticks

\* clearLocal() looks at the device copy, and removes it.
LEMMA ClearReadStep ==
    ASSUME TypeOK, NEW j \in Uploads, ClearRead(j)
    PROVE  TypeOK' /\ Ticks(j) /\ Calm
<1>0. RelayOK /\ CopyOK /\ RefOK /\ SchedOK /\ PastOK /\ JobOK
  BY TypeParts
<1>1. job[j] # None /\ UNCHANGED <<head, body, parts, local, dev, st, doc, base, mark, waits, away, fails, fate, settled, removed>>
  BY DEF ClearRead, relay, refs, past
<1>2. /\ JobOK' /\ Turn(j)
      /\ job'[j] # None => job'[j].step = "clear" /\ job'[j].base = job[j].base
  <2>1. CASE Settled(j)
    BY <1>1, <2>1, EndTurn
  <2>2. CASE ~Settled(j)
    <3> DEFINE r == [job[j] EXCEPT !.step = "clear"]
    <3>1. Onward(j, r)
      BY <2>2 DEF ClearRead
    <3>2. /\ r \in Saves /\ r.doc = job[j].doc
          /\ r.step = "clear" /\ r.base = job[j].base
      BY <1>0, <1>1 DEF JobOK, Saves
    <3> HIDE DEF r
    <3>3. JobOK' /\ Turn(j) /\ job'[j] = r
      BY <3>1, <3>2, OnwardTurn
    <3> QED
      BY <3>1, <3>2, <3>3
  <2> QED
    BY Zenon, <2>1, <2>2
<1>3. MarkTurn(j) /\ BaseTurn(j)
  BY <1>1, SameTurn
<1>4. RelayOK' /\ CopyOK' /\ RefOK' /\ PastOK'
  BY <1>0, <1>1 DEF RelayOK, CopyOK, RefOK, PastOK
<1>5. SchedOK'
  BY Zenon, <1>0, <1>1, <1>2 DEF SchedOK, Turn
<1>6. job[j].step = "check"
  BY DEF ClearRead
<1>7. Calm
  BY Zenon, <1>1, <1>2, <1>3, <1>6, TurnCalm DEF Clearing
<1> QED
  BY Zenon, <1>1, <1>2, <1>3, <1>4, <1>5, <1>7, TypePartsNext DEF Ticks

Cleared(j) ==
    LET d == Home(j) IN
    /\ job[j].step = "clear" /\ job'[j] = None
    /\ UNCHANGED <<head, body, base, settled, removed>>
    /\ local'[d] = None /\ \A b \in Devices \ {d} : local'[b] = local[b]
    /\ \A e \in Edits : fate'[e] \in Safe =>
        /\ fate[e] \in Safe
        /\ local[d] # None /\ j \in local[d].newer => e \notin local[d].doc.text

\* The second transaction of clearLocal.
LEMMA ClearDeleteStep ==
    ASSUME TypeOK, NEW j \in Uploads, ClearDelete(j)
    PROVE  TypeOK' /\ Ticks(j) /\ Cleared(j)
<1>0. RelayOK /\ CopyOK /\ RefOK /\ SchedOK /\ PastOK /\ JobOK
  BY TypeParts
<1>1. job[j] # None /\ UNCHANGED <<head, body, parts, dev, st, doc, base, mark, waits, away, fails, settled, removed>>
  BY Zenon DEF ClearDelete, relay, refs
<1>2. local' = [local EXCEPT ![Home(j)] = None] /\ Settled(j)
  BY DEF ClearDelete
<1>3. fate' \in Fates
  BY <1>0, FateOk DEF ClearDelete, PastOK
<1>4. JobOK' /\ Turn(j) /\ job'[j] = None
  BY <1>1, <1>2, EndTurn
<1>5. MarkTurn(j) /\ BaseTurn(j)
  BY <1>1, SameTurn
<1>6. Home(j) \in Devices
  BY <1>0, HomeOk DEF RefOK
<1>7. /\ CopyOK' /\ local'[Home(j)] = None
      /\ \A d \in Devices \ {Home(j)} : local'[d] = local[d]
  BY <1>0, <1>2, <1>6 DEF CopyOK
<1>8. RelayOK' /\ RefOK' /\ PastOK'
  BY <1>0, <1>1, <1>3 DEF RelayOK, RefOK, PastOK
<1>9. SchedOK'
  BY Zenon, <1>0, <1>1, <1>4 DEF SchedOK, Turn
<1> DEFINE l == local[Home(j)]
<1>10. ASSUME NEW e \in Edits, fate'[e] \in Safe
       PROVE  fate[e] \in Safe /\ (l # None /\ j \in l.newer => e \notin l.doc.text)
  <2>1. CASE l # None /\ j \in l.newer
    <3> DEFINE es == l.doc.text
    <3>1. fate' = Gone(es, "raced")
      BY Zenon, <2>1 DEF ClearDelete
    <3>2. Gone(es, "raced")[e] \in Safe => e \notin es /\ fate[e] \in Safe
      BY FateSafe
    <3> QED
      BY <1>10, <3>1, <3>2
  <2>2. CASE ~(l # None /\ j \in l.newer)
    <3>1. fate' = fate
      BY Zenon, <2>2 DEF ClearDelete
    <3> QED
      BY <1>10, <2>2, <3>1
  <2> QED
    BY Zenon, <2>1, <2>2
<1>11. job[j].step = "clear"
  BY DEF ClearDelete
<1>12. Cleared(j)
  BY Zenon, <1>1, <1>4, <1>7, <1>10, <1>11 DEF Cleared
<1> QED
  BY Zenon, <1>1, <1>4, <1>5, <1>7, <1>8, <1>9, <1>12, TypePartsNext DEF Ticks

\* The settle pass, after a conflict, asks whether the draft is still stored.
Asked(j) ==
    /\ UNCHANGED <<head, body, local, base, fate, removed>>
    /\ \/ job'[j] = None /\ UNCHANGED settled
       \/ job'[j] # None /\ settled' = settled \cup job[j].doc.text
    /\ job'[j] # None => job'[j].step = "check" /\ job'[j].base = job[j].base

\* A settle pass whose save met a conflict asks whether the draft is still there.
LEMMA SettleGoneStep ==
    ASSUME TypeOK, NEW d \in Devices, SettleGone(d)
    PROVE  TypeOK' /\ Ticks(<<d, "settle">>) /\ Asked(<<d, "settle">>)
<1>0. RelayOK /\ CopyOK /\ RefOK /\ SchedOK /\ PastOK /\ JobOK
  BY TypeParts
<1> DEFINE j == <<d, "settle">>
           r == [job[j] EXCEPT !.step = "check"]
<1>1. /\ job[j] # None
      /\ UNCHANGED <<head, body, parts, local, dev, st, doc, base, mark, dirty, waits, away, answer, fate, removed>>
  BY DEF SettleGone, relay, refs, sched
<1>2. j \in Uploads
  BY Keys
<1>3. job[j] \in Saves
  BY <1>0, <1>1, <1>2 DEF JobOK
<1>4. r \in Saves /\ r.doc = job[j].doc /\ r.step = "check" /\ r.base = job[j].base /\ r # None
  BY <1>3, DraftsAssumption DEF Saves
<1>5. PICK out \in {"ok", "none"} :
        /\ Outcome(d, out)
        /\ \/ job' = [job EXCEPT ![j] = r] /\ settled' = settled \cup job[j].doc.text
           \/ job' = [job EXCEPT ![j] = None] /\ settled' = settled
  BY Zenon DEF SettleGone, Goto
<1>6. fails' \in 0..MaxFails
  BY <1>0, <1>5, OutcomeOk
<1>7. settled' \subseteq Edits
  BY <1>0, <1>3, <1>5 DEF PastOK, Saves, Docs
<1>8. MarkTurn(j) /\ BaseTurn(j)
  <2> HIDE DEF j
  <2> QED
    BY <1>1, SameTurn
<1>9. JobOK' /\ Turn(j) /\ Asked(j)
  <2>1. j[2] = "settle"
    OBVIOUS
  <2> HIDE DEF j, r
  <2>2. /\ JobOK' /\ \A k \in Jobs \ {j} : job'[k] = job[k]
        /\ \/ job'[j] = r /\ settled' = settled \cup job[j].doc.text
           \/ job'[j] = None /\ settled' = settled
    BY <1>0, <1>2, <1>4, <1>5, UploadSet
  <2>3. \A c \in Composers : j # <<c, "relay">>
    BY <2>1
  <2>4. Asked(j)
    BY <1>1, <1>4, <2>2 DEF Asked
  <2> QED
    BY Zenon, <1>0, <1>1, <1>4, <2>2, <2>3, <2>4 DEF Turn, SchedOK
<1>10. RelayOK' /\ CopyOK' /\ RefOK' /\ SchedOK' /\ PastOK'
  BY Zenon, <1>0, <1>1, <1>6, <1>7 DEF RelayOK, CopyOK, RefOK, SchedOK, PastOK
<1> QED
  BY <1>1, <1>8, <1>9, <1>10, TypePartsNext DEF Ticks

\* After the step of a save the composers are in order.
LEMMA TicksOk ==
    ASSUME Shape, NEW j \in Uploads, Ticks(j)
    PROVE  /\ FreshUntilOpen'
           /\ \A u \in Uploads \ {j} : job'[u] = job[u]
           /\ job'[j] # None => job'[j].doc = job[j].doc
           /\ \A c \in Composers :
                /\ Live(c)' => Live(c)
                /\ Silent(c) => Silent(c)'
                /\ job'[<<c, "remove">>] = job[<<c, "remove">>]
<1>1. ASSUME NEW c \in Composers, \A k \in Kinds : j # <<c, k>>
      PROVE  Still(c)
  <2>1. c # j[1] \/ j[2] = "settle"
    BY <1>1, UploadKinds DEF Kinds
  <2>2. \A k \in Kinds : <<c, k>> \in Jobs
    BY Zenon, Keys DEF Kinds
  <2> QED
    BY Zenon, <1>1, <2>1, <2>2 DEF Ticks, Turn, MarkTurn, Still
<1>2. ASSUME NEW c \in Composers, st'[c] \in {"new", "loading"}
      PROVE  Fresh(c)'
  <2>1. Fresh(c)
    BY <1>2 DEF Shape, FreshUntilOpen, Ticks
  <2>2. Still(c)
    BY Zenon, <1>1, <2>1 DEF Fresh, Ticks
  <2> QED
    BY Zenon, <2>1, <2>2 DEF Fresh, Still
<1>3. /\ \A u \in Uploads \ {j} : job'[u] = job[u]
      /\ job'[j] # None => job'[j].doc = job[j].doc
      /\ \A c \in Composers : job'[<<c, "remove">>] = job[<<c, "remove">>]
  BY Zenon, Keys DEF Ticks, Turn
<1>4. ASSUME NEW c \in Composers
      PROVE  (Live(c)' => Live(c)) /\ (Silent(c) => Silent(c)')
  <2>1. CASE \A k \in Kinds : j # <<c, k>>
    <3>1. Still(c)
      BY <1>1, <2>1
    <3> QED
      BY Zenon, <3>1 DEF Still, Live, Armed, Silent, Past, Is, Kinds, Savers
  <2>2. CASE \E k \in Kinds : j = <<c, k>>
    <3>1. Live(c)
      BY Zenon, <2>2 DEF Live, Ticks
    <3>2. \A s \in Savers : <<c, s>> \in Jobs
      BY Zenon, Keys DEF Savers
    <3>3. \A s \in Savers : job[<<c, s>>] = None => job'[<<c, s>>] = None
      BY Zenon, <3>2 DEF Ticks, Turn
    <3>4. Is(c, "done")' => Is(c, "done")
      BY Zenon DEF Ticks, MarkTurn, Is
    <3>5. Past(c)' => Past(c)
      BY Zenon, <1>3 DEF Past
    <3> QED
      BY Zenon, <3>1, <3>3, <3>4, <3>5 DEF Silent
  <2> QED
    BY <2>1, <2>2
<1> QED
  BY Zenon, <1>2, <1>3, <1>4 DEF FreshUntilOpen

-----------------------------------------------------------------------------
(* The settle pass begins, a composer opens, a tab dies                    *)

\* The settle pass starts its save.
Settles(d) ==
    /\ local[d] # None /\ Quiet(d) /\ job[<<d, "settle">>] = None
    /\ \A c \in Composers : dev[c] = d => st[c] # "open"
    /\ UNCHANGED <<head, body, parts, dev, st, doc, base, mark, dirty, waits, away, answer, fails, fate, settled, removed>>
    /\ \A k \in Jobs \ {<<d, "settle">>} : job'[k] = job[k]
    /\ job'[<<d, "settle">>] # None
    /\ job'[<<d, "settle">>].doc = local[d].doc /\ job'[<<d, "settle">>].base = local[d].base
    /\ job'[<<d, "settle">>].step \in {"body", "parts"}
    /\ \A i \in Devices \ {d} : local'[i] = local[i]
    /\ local'[d] # None /\ local'[d].doc = local[d].doc /\ local'[d].base = local[d].base
    /\ local'[d].newer = local[d].newer \ {<<d, "settle">>}

\* The settle pass only starts that save.
LEMMA SettleStep ==
    ASSUME TypeOK, NEW d \in Devices, Settle(d)
    PROVE  TypeOK' /\ Settles(d)
<1>0. RelayOK /\ CopyOK /\ RefOK /\ SchedOK /\ PastOK /\ JobOK
  BY TypeParts
<1> DEFINE j == <<d, "settle">>
           r == Save(local[d].doc, local[d].base, FALSE, "bg")
           l == [local[d] EXCEPT !.newer = local[d].newer \ {j}]
<1>1. /\ local[d] # None /\ Quiet(d) /\ job[j] = None
      /\ \A c \in Composers : dev[c] = d => st[c] # "open"
      /\ UNCHANGED <<head, body, parts, dev, st, doc, base, mark, dirty, waits, away, answer, fails, fate, settled, removed>>
  BY DEF Settle, relay, refs, sched, past
<1>2. local' = [local EXCEPT ![d] = l] /\ job' = [job EXCEPT ![j] = r]
  BY DEF Settle, Goto
<1>3. local[d] \in Copies
  BY Zenon, <1>0, <1>1 DEF CopyOK
<1>4. l \in Copies /\ l.doc = local[d].doc /\ l.base = local[d].base /\ l.newer = local[d].newer \ {j}
  <2> HIDE DEF j
  <2> QED
    BY <1>3 DEF Copies
<1>5. /\ r \in Saves /\ r.doc = local[d].doc /\ r.base = local[d].base /\ r.step \in {"body", "parts"}
  <2>1. local[d].doc \in Docs /\ local[d].base \in Bases
    BY <1>3 DEF Copies
  <2> QED
    BY Zenon, <2>1 DEF Save, Saves, Callers
<1>6. JobOK' /\ job'[j] = r /\ \A k \in Jobs \ {j} : job'[k] = job[k]
  <2>1. j \in Uploads
    BY Keys
  <2> HIDE DEF j, r
  <2> QED
    BY Zenon, <1>0, <1>2, <1>5, <2>1, UploadSet
<1>7. CopyOK' /\ local'[d] = l /\ \A i \in Devices \ {d} : local'[i] = local[i]
  <2> HIDE DEF l
  <2> QED
    BY Zenon, <1>0, <1>1, <1>2, <1>4 DEF CopyOK
<1>8. RelayOK' /\ RefOK' /\ SchedOK' /\ PastOK'
  BY Zenon, <1>0, <1>1 DEF RelayOK, RefOK, SchedOK, PastOK
<1>9. l # None /\ r # None
  BY Zenon, <1>4, <1>5, DraftsAssumption
<1>10. Settles(d)
  <2> HIDE DEF l, r
  <2> QED
    BY Zenon, <1>1, <1>4, <1>5, <1>6, <1>7, <1>9 DEF Settles
<1> QED
  BY <1>6, <1>7, <1>8, <1>10, TypePartsNext

\* A composer opens, on a new message or on the draft.
Opens(c) ==
    /\ UNCHANGED <<head, body, parts, local, dev, dirty, waits, away, answer, job, fails, fate, settled, removed>>
    /\ \A b \in Composers \ {c} : /\ st'[b] = st[b] /\ doc'[b] = doc[b]
                                  /\ base'[b] = base[b] /\ mark'[b] = mark[b]
    /\ \/ /\ Free(c) /\ c = First /\ st'[c] = "open" /\ doc'[c] = Blank /\ base'[c] = NewBase
       \/ /\ Free(c) /\ local[dev[c]] # None
          /\ st'[c] = "open" /\ doc'[c] = local[dev[c]].doc /\ base'[c] = local[dev[c]].base
       \/ /\ Free(c) /\ local[dev[c]] = None /\ head # None
          /\ st'[c] = "loading" /\ doc'[c].text = {} /\ base'[c].body = 0 /\ mark'[c] = mark[c]
       \/ /\ st[c] = "loading" /\ body # None
          /\ st'[c] = "open" /\ doc'[c].text = body.text /\ base'[c].body = body.ver
       \/ /\ st[c] = "loading" /\ st'[c] = "shut" /\ doc'[c] = doc[c] /\ base'[c] = base[c]

\* A composer opens, or its draft arrives: nothing else moves.
LEMMA OpenStep ==
    ASSUME TypeOK, NEW c \in Composers, OpenNew(c) \/ OpenDraft(c) \/ LoadBody(c)
    PROVE  TypeOK' /\ Opens(c)
<1>0. RelayOK /\ CopyOK /\ RefOK /\ SchedOK /\ PastOK /\ JobOK
  BY TypeParts
<1>1. UNCHANGED <<head, body, parts, local, dev, dirty, waits, away, answer, job, fails, fate, settled, removed>>
  BY DEF OpenNew, OpenDraft, LoadBody, relay, sched, past
<1>2. RelayOK' /\ CopyOK' /\ SchedOK' /\ PastOK' /\ JobOK'
  BY <1>0, <1>1 DEF RelayOK, CopyOK, SchedOK, PastOK, JobOK
<1>3. ASSUME NEW d \in Docs, NEW b \in Bases, NEW m \in {{}, {"id"}}, Opened(c, d, b, m)
      PROVE  /\ RefOK' /\ st'[c] = "open" /\ doc'[c] = d /\ base'[c] = b
             /\ \A a \in Composers \ {c} : /\ st'[a] = st[a] /\ doc'[a] = doc[a]
                                           /\ base'[a] = base[a] /\ mark'[a] = mark[a]
  <2>1. m \subseteq {"id", "edited", "done", "conflict", "disposed"}
    OBVIOUS
  <2> QED
    BY <1>0, <1>1, <1>3, <2>1 DEF Opened, RefOK
<1>4. CASE OpenNew(c)
  <2>1. Blank \in Docs /\ NewBase \in Bases
    BY Zenon DEF Blank, Docs, NewBase, Bases
  <2>2. Free(c) /\ c = First /\ Opened(c, Blank, NewBase, {})
    BY <1>4 DEF OpenNew
  <2>3. /\ RefOK' /\ st'[c] = "open" /\ doc'[c] = Blank /\ base'[c] = NewBase
        /\ \A a \in Composers \ {c} : /\ st'[a] = st[a] /\ doc'[a] = doc[a]
                                      /\ base'[a] = base[a] /\ mark'[a] = mark[a]
    <3>1. {} \in {{}, {"id"}}
      OBVIOUS
    <3> QED
      BY Zenon, <1>3, <2>1, <2>2, <3>1
  <2>4. TypeOK'
    BY Zenon, <1>2, <2>3, TypePartsNext
  <2>5. Opens(c)
    BY Zenon, <1>1, <2>2, <2>3 DEF Opens
  <2> QED
    BY Zenon, <2>4, <2>5
<1>5. CASE OpenDraft(c) /\ local[dev[c]] # None
  <2>1. Free(c) /\ Opened(c, local[dev[c]].doc, local[dev[c]].base, {"id"})
    BY <1>5 DEF OpenDraft
  <2>2. local[dev[c]] \in Copies
    BY <1>0, <1>5, HomeOk DEF CopyOK, RefOK
  <2>3. local[dev[c]].doc \in Docs /\ local[dev[c]].base \in Bases
    BY <2>2 DEF Copies
  <2> QED
    BY Zenon, <1>1, <1>2, <1>3, <1>5, <2>1, <2>3, TypePartsNext DEF Opens
<1>6. CASE OpenDraft(c) /\ local[dev[c]] = None
  <2> DEFINE dc == [text |-> {}, parts |-> head.parts]
             bs == [NewBase EXCEPT !.head = head.ver]
  <2>1. /\ Free(c) /\ head # None /\ UNCHANGED mark
        /\ st' = [st EXCEPT ![c] = "loading"]
        /\ doc' = [doc EXCEPT ![c] = dc] /\ base' = [base EXCEPT ![c] = bs]
    BY <1>6 DEF OpenDraft
  <2>2. head \in Rows
    BY <1>0, <2>1 DEF RelayOK
  <2>3. dc \in Docs /\ dc.text = {} /\ bs \in Bases /\ bs.body = 0
    BY <2>2 DEF Rows, Docs, Bases, NewBase
  <2> HIDE DEF dc, bs
  <2>4. RefOK'
    BY <1>0, <1>1, <2>1, <2>3 DEF RefOK
  <2>5. /\ st'[c] = "loading" /\ doc'[c] = dc /\ base'[c] = bs
        /\ \A a \in Composers \ {c} : st'[a] = st[a] /\ doc'[a] = doc[a] /\ base'[a] = base[a]
    BY <1>0, <2>1 DEF RefOK
  <2>6. Opens(c)
    BY Zenon, <1>1, <1>6, <2>1, <2>3, <2>5 DEF Opens
  <2> QED
    BY <1>2, <2>4, <2>6, TypePartsNext
<1>7. CASE LoadBody(c) /\ body # None
  <2> DEFINE has == doc[c].parts \cap parts
             dc == [doc[c] EXCEPT !.text = body.text, !.parts = has]
             bs == [base[c] EXCEPT !.body = body.ver, !.parts = has]
  <2>1. st[c] = "loading" /\ Opened(c, dc, bs, {"id"})
    BY <1>7 DEF LoadBody
  <2>2. body \in Bodies /\ doc[c] \in Docs /\ base[c] \in Bases /\ has \subseteq Parts
    BY <1>0, <1>7 DEF RelayOK, RefOK, Docs
  <2>3. dc \in Docs /\ dc.text = body.text
    <3> HIDE DEF has
    <3> QED
      BY Zenon, <2>2 DEF Bodies, Docs
  <2>4. bs \in Bases /\ bs.body = body.ver
    <3> HIDE DEF has
    <3> QED
      BY Zenon, <2>2 DEF Bodies, Bases
  <2> HIDE DEF dc, bs
  <2> QED
    BY Zenon, <1>1, <1>2, <1>3, <1>7, <2>1, <2>3, <2>4, TypePartsNext DEF Opens
<1>8. CASE LoadBody(c) /\ body = None
  <2>1. st[c] = "loading" /\ st' = [st EXCEPT ![c] = "shut"] /\ UNCHANGED <<doc, base, mark>>
    BY <1>8 DEF LoadBody
  <2>2. RefOK' /\ st'[c] = "shut" /\ \A a \in Composers \ {c} : st'[a] = st[a]
    BY <1>0, <1>1, <2>1 DEF RefOK
  <2> QED
    BY Zenon, <1>1, <1>2, <2>1, <2>2, TypePartsNext DEF Opens
<1> QED
  BY Zenon, <1>4, <1>5, <1>6, <1>7, <1>8

\* A composer that opens leaves the ones that have not opened fresh.
LEMMA OpensShape ==
    ASSUME Shape, NEW c \in Composers, Opens(c)
    PROVE  FreshUntilOpen'
<1>2. ASSUME NEW b \in Composers, st'[b] \in {"new", "loading"}
      PROVE  st[b] \in {"new", "loading"} /\ mark'[b] = mark[b]
  BY Zenon, <1>2 DEF Opens, Free
<1>3. ASSUME NEW b \in Composers, st'[b] \in {"new", "loading"}
      PROVE  Fresh(b)'
  BY Zenon, <1>2, <1>3 DEF Shape, FreshUntilOpen, Fresh, Opens
<1> QED
  BY <1>3 DEF FreshUntilOpen

\* A tab dies.
Dies(d) ==
    /\ UNCHANGED <<head, body, parts, local, dev, doc, base, mark, answer, fate, settled, removed>>
    /\ \A c \in Composers :
        IF dev[c] = d /\ st[c] # "new"
        THEN /\ st'[c] = "shut" /\ dirty'[c] = {} /\ away'[c] = None /\ answer[c] = None
             /\ \A s \in Savers : waits'[c][s] = {}
        ELSE st'[c] = st[c] /\ dirty'[c] = dirty[c] /\ away'[c] = away[c] /\ waits'[c] = waits[c]
    /\ \A j \in Jobs : job'[j] = IF Home(j) = d THEN None ELSE job[j]

\* A tab that dies takes what it had in flight with it, and nothing that is stored.
LEMMA CrashStep ==
    ASSUME TypeOK, NEW d \in Devices, Crash(d), ~Busy(d)
    PROVE  TypeOK' /\ Dies(d)
<1>0. RelayOK /\ CopyOK /\ RefOK /\ SchedOK /\ PastOK /\ JobOK
  BY TypeParts
<1>1. UNCHANGED <<head, body, parts, local, dev, doc, base, mark, answer, fate, settled, removed>>
  BY Zenon DEF Crash, relay, past
<1>2. \A c \in Composers : dev[c] = d => answer[c] = None
  BY DEF Busy
<1>3. /\ st' = [c \in Composers |-> IF dev[c] = d /\ st[c] # "new" THEN "shut" ELSE st[c]]
      /\ dirty' = [c \in Composers |-> IF dev[c] = d /\ st[c] # "new" THEN {} ELSE dirty[c]]
      /\ away' = [c \in Composers |-> IF dev[c] = d /\ st[c] # "new" THEN None ELSE away[c]]
      /\ waits' = [c \in Composers |-> IF dev[c] = d /\ st[c] # "new" THEN [s \in Savers |-> {}] ELSE waits[c]]
  BY Zenon DEF Crash
<1>4. job' = [j \in Jobs |-> IF Home(j) = d THEN None ELSE job[j]]
  BY Zenon DEF Crash
<1>5. Dies(d)
  BY Zenon, <1>1, <1>2, <1>3, <1>4 DEF Dies
<1>6. fails' \in 0..MaxFails
  <2>1. fails < MaxFails /\ fails' = fails + 1
    BY Zenon DEF Crash
  <2>2. fails \in 0..MaxFails /\ MaxFails \in Nat
    BY Zenon, <1>0, DraftsAssumption DEF PastOK
  <2> QED
    BY <2>1, <2>2
<1>7. JobOK'
  <2>1. \A j \in Jobs : job'[j] \in {job[j], None}
    BY <1>4
  <2>2. job' \in [Jobs -> Puts \cup Saves \cup Removals \cup {None}]
    BY <1>0, <1>4 DEF JobOK
  <2> QED
    BY Zenon, <1>0, <2>1, <2>2, Keys DEF JobOK
<1>8. st' \in [Composers -> {"new", "loading", "open", "shut"}]
  BY Zenon, <1>0, <1>3 DEF RefOK
<1>9. waits' \in [Composers -> [Savers -> SUBSET Callers]]
  BY <1>0, <1>3 DEF SchedOK
<1>10. dirty' \in [Composers -> SUBSET Savers] /\ away' \in [Composers -> {"device", "relay", "kept", None}]
  BY <1>0, <1>3 DEF SchedOK
<1>11. RelayOK' /\ CopyOK' /\ RefOK' /\ SchedOK' /\ PastOK'
  BY <1>0, <1>1, <1>6, <1>8, <1>9, <1>10 DEF RelayOK, CopyOK, RefOK, SchedOK, PastOK
<1> QED
  BY <1>5, <1>7, <1>11, TypePartsNext

\* A tab that dies leaves the composers that have not opened fresh.
LEMMA DiesShape ==
    ASSUME Shape, NEW d \in Devices, Dies(d)
    PROVE  FreshUntilOpen'
<1>1. dev \in Layouts
  BY DEF Shape, TypeOK
<1>2. \A c \in Composers, k \in Kinds : <<c, k>> \in Jobs /\ Home(<<c, k>>) = dev[c]
  BY Zenon, <1>1, HomeOk, Keys DEF Kinds
<1>3. \A c \in Composers, k \in Kinds : job'[<<c, k>>] = IF dev[c] = d THEN None ELSE job[<<c, k>>]
  BY Zenon, <1>2 DEF Dies
<1>4. ASSUME NEW c \in Composers, st'[c] \in {"new", "loading"}
      PROVE  Fresh(c)'
  <2>1. ~(dev[c] = d /\ st[c] # "new")
    BY Zenon, <1>4 DEF Dies
  <2>2. /\ st'[c] = st[c] /\ dirty'[c] = dirty[c] /\ away'[c] = away[c] /\ waits'[c] = waits[c]
        /\ mark'[c] = mark[c] /\ answer'[c] = answer[c]
    BY <2>1 DEF Dies
  <2>3. Fresh(c)
    BY <1>4, <2>2 DEF Shape, FreshUntilOpen
  <2> QED
    BY <1>3, <2>2, <2>3 DEF Fresh
<1> QED
  BY <1>4 DEF FreshUntilOpen

-----------------------------------------------------------------------------
(* Every step                                                              *)

\* What every step does to the composers, but for one that opens: none comes to
\* life, none begins, their texts grow, and a removed one's savers stay silent.
Ages ==
    /\ UNCHANGED dev
    /\ \A c \in Composers :
        /\ Live(c)' => Live(c)
        /\ doc[c].text \subseteq doc'[c].text
        /\ st'[c] = "new" <=> st[c] = "new"
        /\ st'[c] = "loading" => st[c] = "loading"
        /\ Silent(c) => Silent(c)'

\* A composer's step ages every composer.
LEMMA ActsAges ==
    ASSUME Shape, NEW c \in Composers, Acts(c)
    PROVE  FreshUntilOpen' /\ Ages
<1>1. ASSUME NEW b \in Composers, st'[b] \in {"new", "loading"}
      PROVE  Fresh(b)'
  <2>1. b # c /\ Still(b)
    BY Zenon, <1>1 DEF Acts
  <2>2. Fresh(b)
    BY Zenon, <1>1, <2>1 DEF Still, Shape, FreshUntilOpen
  <2> QED
    BY Zenon, <2>1, <2>2 DEF Fresh, Still
<1>2. ASSUME NEW b \in Composers \ {c}
      PROVE  /\ Live(b)' => Live(b)
             /\ doc[b].text \subseteq doc'[b].text /\ st'[b] = st[b]
             /\ Silent(b) => Silent(b)'
  <2>1. Still(b)
    BY DEF Acts
  <2> QED
    BY Zenon, <2>1 DEF Still, Live, Armed, Silent, Past, Is, Kinds, Savers
<1>3. /\ UNCHANGED dev /\ (Live(c)' => Live(c)) /\ doc[c].text \subseteq doc'[c].text
      /\ st[c] \in {"open", "shut"} /\ st'[c] \in {"open", "shut"} /\ (Silent(c) => Silent(c)')
  BY DEF Acts
<1> QED
  BY <1>1, <1>2, <1>3 DEF FreshUntilOpen, Ages

\* A save's step ages every composer.
LEMMA TicksAges ==
    ASSUME Shape, NEW j \in Uploads, Ticks(j)
    PROVE  FreshUntilOpen' /\ Ages
<1>1. UNCHANGED <<dev, st, doc>>
  BY DEF Ticks
<1>2. FreshUntilOpen' /\ \A c \in Composers : (Live(c)' => Live(c)) /\ (Silent(c) => Silent(c)')
  BY Zenon, TicksOk
<1> QED
  BY <1>1, <1>2 DEF Ages

\* The start of a settle pass ages every composer.
LEMMA SettlesAges ==
    ASSUME Shape, NEW d \in Devices, Settles(d)
    PROVE  FreshUntilOpen' /\ Ages
<1>1. \A c \in Composers, k \in Kinds : job'[<<c, k>>] = job[<<c, k>>]
  BY Zenon, Keys DEF Settles, Kinds
<1>2. UNCHANGED <<dev, st, doc, mark, dirty, waits, away, answer>>
  BY DEF Settles
<1>3. \A c \in Composers : Fresh(c) => Fresh(c)'
  BY <1>1, <1>2 DEF Fresh
<1>4. \A c \in Composers : (Live(c)' => Live(c)) /\ (Silent(c) => Silent(c)')
  BY Zenon, <1>1, <1>2 DEF Live, Armed, Silent, Past, Is, Kinds, Savers
<1> QED
  BY Zenon, <1>2, <1>3, <1>4 DEF Shape, FreshUntilOpen, Ages

\* A tab that dies stores nothing and takes nothing away.
LEMMA DiesAges ==
    ASSUME Shape, NEW d \in Devices, Dies(d)
    PROVE  Ages /\ Calm
<1>1. dev \in Layouts
  BY DEF Shape, TypeOK
<1>2. \A c \in Composers, k \in Kinds : <<c, k>> \in Jobs /\ Home(<<c, k>>) = dev[c]
  BY Zenon, <1>1, HomeOk, Keys DEF Kinds
<1>3. \A c \in Composers, k \in Kinds : job'[<<c, k>>] = IF dev[c] = d THEN None ELSE job[<<c, k>>]
  BY Zenon, <1>2 DEF Dies
<1>4. ASSUME NEW c \in Composers
      PROVE  /\ st'[c] = "new" <=> st[c] = "new"
             /\ st'[c] = "loading" => st[c] = "loading"
  BY DEF Dies
<1>5. ASSUME NEW c \in Composers
      PROVE  /\ \A k \in Kinds : job'[<<c, k>>] \in {None, job[<<c, k>>]}
             /\ Clears(c)' => Clears(c)
  BY Zenon, <1>3 DEF Clears, Kinds
<1>6. ASSUME NEW c \in Composers, Silent(c)
      PROVE  Silent(c)'
  <2>1. CASE dev[c] = d
    BY Zenon, <1>3, <2>1 DEF Silent, Kinds, Savers
  <2>2. CASE dev[c] # d
    BY Zenon, <1>3, <1>6, <2>2 DEF Silent, Past, Is, Kinds, Savers, Dies
  <2> QED
    BY <2>1, <2>2
<1>7. ASSUME NEW c \in Composers, Live(c)'
      PROVE  Live(c)
  <2>1. /\ answer'[c] = answer[c] /\ mark'[c] = mark[c] /\ dirty'[c] \subseteq dirty[c]
        /\ st'[c] \in {"loading", "open"} => st[c] = st'[c]
        /\ waits'[c] = waits[c] \/ (dirty'[c] = {} /\ \A s \in Savers : waits'[c][s] = {})
    BY DEF Dies
  <2> QED
    BY <1>5, <1>7, <2>1 DEF Live, Armed, Is
<1>8. \A u \in Uploads : job'[u] \in {None, job[u]}
  BY Zenon, Keys DEF Dies
<1>9. UNCHANGED <<head, body, local, dev, doc, base, fate, settled, removed>>
  BY Zenon DEF Dies
<1>10. Calm
  BY Zenon, <1>5, <1>8, <1>9 DEF Calm, Tame, Renewed
<1> QED
  BY <1>4, <1>6, <1>7, <1>9, <1>10 DEF Ages

\* The steps one composer takes.
Doing(c) ==
    \/ \E s \in Savers, w \in Callers : Resume(c, s, w)
    \/ \E e \in Edits : Type(c, e)
    \/ \E s \in Savers : Fire(c, s)
    \/ AwayDevice(c) \/ AwayRelay(c) \/ AwayTimeout(c) \/ PutAway(c) \/ Unmount(c)
    \/ Discard(c) \/ OpenOtherCopy(c) \/ KeepThisCopy(c) \/ DevicePut(c) \/ Remove(c)
\* The steps of a save to the relay.
Saving(j) ==
    \/ SaveStep(j) \/ ClearRead(j) \/ ClearDelete(j)
    \/ \E d \in Devices : j = <<d, "settle">> /\ SettleGone(d)

\* A step is one of theirs, or the settle pass's, an opening, or a dying tab.
LEMMA Steps ==
    ASSUME Next
    PROVE  \/ \E c \in Composers : Doing(c)
           \/ \E j \in Uploads : Saving(j)
           \/ \E d \in Devices : Settle(d)
           \/ \E c \in Composers : ~Busy(dev[c]) /\ (OpenNew(c) \/ OpenDraft(c) \/ LoadBody(c))
           \/ \E d \in Devices : Crash(d) /\ ~Busy(d)
<1>1. PICK d \in Devices : (\E c \in Composers : dev[c] = d /\ Continue(c)) \/ (~Busy(d) /\ Events(d))
  BY DEF Next
<1>2. ASSUME NEW c \in Composers, Continue(c)
      PROVE  Doing(c)
  BY <1>2 DEF Continue, Doing
<1>3. ASSUME NEW c \in Composers, dev[c] = d, ~Busy(d),
             Person(c) \/ AwayTimeout(c) \/ \E s \in Savers : Fire(c, s)
      PROVE  Doing(c) \/ (~Busy(dev[c]) /\ (OpenNew(c) \/ OpenDraft(c) \/ LoadBody(c)))
  BY <1>3 DEF Person, Doing
<1>4. ASSUME NEW j \in Jobs, Work(j)
      PROVE  (\E c \in Composers : Doing(c)) \/ (j \in Uploads /\ Saving(j))
  <2>1. CASE j \in Composers \X {"device", "remove"}
    BY <1>4, <2>1, UploadKinds DEF Work, Doing
  <2>2. CASE j \in Uploads
    BY <1>4, <2>2, UploadKinds DEF Work, Saving
  <2> QED
    BY <2>1, <2>2 DEF Jobs
<1> QED
  BY <1>1, <1>2, <1>3, <1>4 DEF Events

\* What a step does, apart from opening a composer.
Effect ==
    \/ Calm
    \/ \E c \in Composers : Acts(c) /\ Live(c) /\ Putting(c)
    \/ \E c \in Composers, k \in {"relay", "keep"} : Acts(c) /\ Live(c) /\ Starting(c, k)
    \/ \E c \in Composers : Acts(c) /\ Removing(c)
    \/ \E j \in Uploads : Ticks(j) /\ BodyPut(j) /\ UNCHANGED <<head, local, base, settled, removed>>
    \/ \E j \in Uploads : /\ Ticks(j) /\ HeadPut(j) /\ job[j].step = "head"
                          /\ UNCHANGED <<body, local, settled, removed>>
    \/ \E j \in Uploads : Ticks(j) /\ (Cleared(j) \/ Asked(j))
    \/ \E d \in Devices : Settles(d)

\* A step of a composer.
LEMMA DoingStep ==
    ASSUME Shape, NEW c \in Composers, Doing(c)
    PROVE  Shape' /\ Ages /\ Effect
<1>1. /\ TypeOK' /\ Acts(c)
      /\ \/ Calm \/ (Live(c) /\ Putting(c)) \/ Removing(c)
         \/ \E k \in {"relay", "keep"} : Live(c) /\ Starting(c, k)
  <2>1. CASE \E s \in Savers, w \in Callers : Resume(c, s, w)
    BY <2>1, ResumeStep
  <2>2. CASE \/ \E e \in Edits : Type(c, e)
             \/ \E s \in Savers : Fire(c, s)
             \/ AwayDevice(c) \/ AwayRelay(c) \/ AwayTimeout(c) \/ PutAway(c) \/ Unmount(c)
    BY <2>2, TypeStep, FireStep, AwayDeviceStep, AwayRelayStep, AwayTimeoutStep, PutAwayStep, UnmountStep
  <2>3. CASE Discard(c) \/ OpenOtherCopy(c) \/ KeepThisCopy(c) \/ DevicePut(c) \/ Remove(c)
    BY <2>3, AbandonStep, KeepStep, DevicePutStep, RemoveStep
  <2> QED
    BY <2>1, <2>2, <2>3 DEF Doing
<1>2. FreshUntilOpen' /\ Ages
  BY <1>1, ActsAges
<1>3. Effect
  BY <1>1 DEF Effect
<1> QED
  BY <1>1, <1>2, <1>3 DEF Shape

\* A step of a save.
LEMMA SavingStep ==
    ASSUME Shape, NEW j \in Uploads, Saving(j)
    PROVE  Shape' /\ Ages /\ Effect
<1>1. /\ TypeOK' /\ Ticks(j)
      /\ \/ Calm
         \/ BodyPut(j) /\ UNCHANGED <<head, local, base, settled, removed>>
         \/ HeadPut(j) /\ job[j].step = "head" /\ UNCHANGED <<body, local, settled, removed>>
         \/ Cleared(j) \/ Asked(j)
  <2>1. CASE SaveStep(j)
    BY Zenon, <2>1, SaveStepStep DEF Shape
  <2>2. CASE ~SaveStep(j)
    BY Zenon, <2>2, ClearReadStep, ClearDeleteStep, SettleGoneStep DEF Saving, Shape
  <2> QED
    BY Zenon, <2>1, <2>2
<1>2. FreshUntilOpen' /\ Ages
  BY <1>1, TicksAges
<1>3. Effect
  BY <1>1 DEF Effect
<1> QED
  BY <1>1, <1>2, <1>3 DEF Shape

\* No step.
LEMMA StutterStep ==
    ASSUME Shape, UNCHANGED vars
    PROVE  Shape' /\ Ages /\ Effect
<1>1. UNCHANGED <<head, body, parts, local, dev, st, doc, base, mark, dirty, waits, away, answer, job, fails, fate, settled, removed>>
  BY DEF vars, relay, refs, sched, past
<1>2. TypeOK'
  BY <1>1 DEF Shape, TypeOK
<1>3. FreshUntilOpen'
  BY <1>1 DEF Shape, FreshUntilOpen, Fresh
<1>4. Ages
  BY Zenon, <1>1 DEF Ages, Live, Armed, Silent, Past, Is
<1>5. Calm
  BY <1>1, SameCalm
<1> QED
  BY Zenon, <1>2, <1>3, <1>4, <1>5 DEF Shape, Effect

\* A step keeps the shape of the state; it opens a composer, or the composers
\* age and the step has one of the effects.
LEMMA StepOk ==
    ASSUME Shape, [Next]_vars
    PROVE  Shape' /\ ((Ages /\ Effect) \/ \E c \in Composers : ~Busy(dev[c]) /\ Opens(c))
<1>1. CASE UNCHANGED vars
  BY <1>1, StutterStep
<1>2. ASSUME NEW d \in Devices, Settle(d)
      PROVE  Shape' /\ Ages /\ Effect
  <2>1. TypeOK' /\ Settles(d)
    BY <1>2, SettleStep DEF Shape
  <2>2. FreshUntilOpen' /\ Ages
    BY <2>1, SettlesAges
  <2> QED
    BY <2>1, <2>2 DEF Shape, Effect
<1>3. ASSUME NEW c \in Composers, OpenNew(c) \/ OpenDraft(c) \/ LoadBody(c)
      PROVE  Shape' /\ Opens(c)
  BY <1>3, OpenStep, OpensShape DEF Shape
<1>4. ASSUME NEW d \in Devices, Crash(d), ~Busy(d)
      PROVE  Shape' /\ Ages /\ Effect
  <2>1. TypeOK' /\ Dies(d)
    BY <1>4, CrashStep DEF Shape
  <2>2. FreshUntilOpen' /\ Ages /\ Calm
    BY <2>1, DiesShape, DiesAges
  <2> QED
    BY <2>1, <2>2 DEF Shape, Effect
<1> QED
  BY <1>1, <1>2, <1>3, <1>4, Steps, DoingStep, SavingStep

\* Nothing is under way at first.
LEMMA ShapeInit == Init => Shape
<1> SUFFICES ASSUME Init PROVE Shape
  OBVIOUS
<1>1. RelayOK /\ CopyOK
  BY DEF Init, RelayOK, CopyOK
<1>7. SchedOK
  BY DEF Init, SchedOK
<1>8. PastOK
  <2>1. MaxFails \in Nat
    BY DraftsAssumption
  <2>2. fails \in 0..MaxFails
    BY <2>1 DEF Init
  <2> QED
    BY Zenon, <2>2 DEF Init, PastOK, Fates
<1>2. RefOK
  BY Zenon DEF Init, RefOK, Blank, NewBase, Docs, Bases
<1>3. \A j \in Jobs : job[j] = None
  BY DEF Init
<1>4. JobOK
  BY Zenon, <1>3, Keys DEF Init, JobOK
<1>5. FreshUntilOpen
  BY <1>3, Keys DEF Init, FreshUntilOpen, Fresh, Kinds
<1> QED
  BY <1>1, <1>2, <1>4, <1>5, <1>7, <1>8, TypeParts DEF Shape

-----------------------------------------------------------------------------
(* Types, and removals                                                     *)

\* The shape of the state holds throughout.
LEMMA ShapeHolds == Spec => []Shape
<1>1. Shape /\ [Next]_vars => Shape'
  BY StepOk
<1> QED
  BY <1>1, ShapeInit, PTL DEF Spec

\* Every variable keeps its type, and a temporary session leaves no copy.
THEOREM Types == Spec => []TypeOK
<1>1. Shape => TypeOK
  BY DEF Shape
<1> QED
  BY <1>1, ShapeHolds, PTL

\* removeDraft()'s savers stay silent once it has waited for them.
LEMMA SilentNext ==
    ASSUME Shape, RemovedIsSilent, [Next]_vars
    PROVE  RemovedIsSilent'
<1>1. \A c \in Composers : Silent(c)
  BY DEF RemovedIsSilent, Silent
<1>2. ASSUME NEW c \in Composers, Opens(c)
      PROVE  \A b \in Composers : Silent(b)'
  <2>1. \A b \in Composers \ {c} : Silent(b)'
    BY Zenon, <1>1, <1>2 DEF Opens, Silent, Past, Is
  <2>2. Silent(c)'
    <3>1. Fresh(c)
      BY Zenon, <1>2 DEF Opens, Free, Shape, FreshUntilOpen
    <3> QED
      BY <1>2, <3>1 DEF Opens, Silent, Fresh, Kinds, Savers
  <2> QED
    BY <2>1, <2>2
<1>3. \A b \in Composers : Silent(b)'
  BY Zenon, <1>1, <1>2, StepOk DEF Ages
<1> QED
  BY <1>3 DEF RemovedIsSilent, Silent

\* Once removeDraft() has waited out its two savers, neither runs again, though a
\* failed run leaves its change pending and a flush() was waiting behind it.
THEOREM Silence == Spec => []RemovedIsSilent
<1>1. Init => RemovedIsSilent
  BY DEF Init, RemovedIsSilent, Is
<1>2. Shape /\ RemovedIsSilent /\ [Next]_vars => RemovedIsSilent'
  BY SilentNext
<1> QED
  BY <1>1, <1>2, ShapeHolds, PTL DEF Spec

-----------------------------------------------------------------------------
(* The row never points at a body that is not there                        *)

\* The body is put before the row and removed after it.
BodyFirst ==
    /\ RowHasBody
    /\ \A u \in Uploads : job[u] # None /\ job[u].step = "head" /\ ~removed => body # None
    /\ \A c \in Composers : Clears(c) => removed

\* A step that removes nothing, and takes no save to its row without the body.
LEMMA BodyFirstKept ==
    ASSUME BodyFirst, UNCHANGED removed, body # None => body' # None,
           head' # None /\ ~removed => head # None \/ body' # None,
           \A u \in Uploads : job'[u] # None /\ job'[u].step = "head" =>
                (job[u] # None /\ job[u].step = "head") \/ body' # None,
           \A c \in Composers : Clears(c)' => Clears(c)
    PROVE  BodyFirst'
  BY DEF BodyFirst, RowHasBody

\* Whether a removal is at work depends on the removals in flight alone.
LEMMA RemovesSame ==
    ASSUME \A c \in Composers : job'[<<c, "remove">>] = job[<<c, "remove">>]
    PROVE  \A c \in Composers : Clears(c)' <=> Clears(c)
  BY Zenon DEF Clears

\* Every step keeps the body before its row.
LEMMA BodyFirstNext ==
    ASSUME Shape, BodyFirst, [Next]_vars
    PROVE  BodyFirst'
<1>1. CASE Calm
  BY Zenon, <1>1, BodyFirstKept DEF Calm, Tame
<1>2. ASSUME NEW c \in Composers, Putting(c)
      PROVE  BodyFirst'
  BY <1>2, BodyFirstKept, RemovesSame DEF Putting
<1>3. ASSUME NEW c \in Composers, NEW k \in {"relay", "keep"}, Starting(c, k)
      PROVE  BodyFirst'
  BY <1>3, BodyFirstKept, RemovesSame DEF Starting
<1>4. ASSUME NEW c \in Composers, Acts(c), Removing(c)
      PROVE  BodyFirst'
  <2>1. \A b \in Composers \ {c} : Clears(b)' => Clears(b)
    BY Zenon, <1>4 DEF Acts, Still, Clears, Kinds
  <2>2. /\ \A u \in Uploads : job'[u] = job[u]
        /\ removed => removed'
        /\ Clears(c)' => Clears(c) \/ removed'
        /\ head' \in {head, None} /\ (body' # body => Clears(c))
    BY <1>4 DEF Removing
  <2> QED
    BY Zenon, <2>1, <2>2 DEF BodyFirst, RowHasBody
<1>5. ASSUME NEW j \in Uploads, Ticks(j)
      PROVE  /\ \A u \in Uploads \ {j} : job'[u] = job[u]
             /\ \A c \in Composers : Clears(c)' <=> Clears(c)
  <2>1. /\ \A u \in Uploads \ {j} : job'[u] = job[u]
        /\ \A c \in Composers : job'[<<c, "remove">>] = job[<<c, "remove">>]
    BY Zenon, <1>5, TicksOk
  <2>2. \A c \in Composers : Clears(c)' <=> Clears(c)
    BY Zenon, <2>1, RemovesSame
  <2> QED
    BY Zenon, <2>1, <2>2
<1>6. ASSUME NEW j \in Uploads, Ticks(j), BodyPut(j), UNCHANGED <<head, removed>>
      PROVE  BodyFirst'
  <2>1. body' # None
    <3>1. body' \in Bodies \cup {None} /\ body' = [ver |-> Ver(body) + 1, text |-> job[j].doc.text]
      BY Zenon, <1>6, StepOk DEF BodyPut, Shape, TypeOK
    <3>2. [ver |-> Ver(body) + 1, text |-> job[j].doc.text] \in Bodies
      <4>1. job[j] \in Saves /\ body \in Bodies \cup {None}
        BY <1>6 DEF Ticks, Shape, TypeOK
      <4>2. Ver(body) + 1 \in Nat /\ job[j].doc.text \subseteq Edits
        BY <4>1 DEF Saves, Docs, Bodies, Ver
      <4> QED
        BY <4>2 DEF Bodies
    <3> QED
      BY <3>1, <3>2, DraftsAssumption
  <2> QED
    BY Zenon, <1>5, <1>6, <2>1, BodyFirstKept
<1>7. ASSUME NEW j \in Uploads, Ticks(j), HeadPut(j), job[j].step = "head", UNCHANGED <<body, removed>>
      PROVE  BodyFirst'
  <2>1. ~removed => body # None
    BY <1>7 DEF BodyFirst, Ticks
  <2>2. job'[j] # None => job'[j].step # "head"
    <3>1. job'[j] # None => job'[j].step \in {"drop", "check"}
      BY Zenon, <1>7 DEF HeadPut
    <3> QED
      BY Zenon, <3>1
  <2> QED
    BY Zenon, <1>5, <1>7, <2>1, <2>2, BodyFirstKept
<1>8. ASSUME NEW j \in Uploads, Ticks(j), Cleared(j) \/ Asked(j)
      PROVE  BodyFirst'
  <2>1. UNCHANGED <<head, body, removed>> /\ (job'[j] # None => job'[j].step # "head")
    BY Zenon, <1>8 DEF Cleared, Asked
  <2> QED
    BY Zenon, <1>5, <1>8, <2>1, BodyFirstKept
<1>9. ASSUME NEW d \in Devices, Settles(d)
      PROVE  BodyFirst'
  <2>1. /\ \A c \in Composers : job'[<<c, "remove">>] = job[<<c, "remove">>]
        /\ \A u \in Uploads \ {<<d, "settle">>} : job'[u] = job[u]
    BY Zenon, <1>9, Keys DEF Settles
  <2>2. UNCHANGED <<head, body, removed>> /\ job'[<<d, "settle">>].step # "head"
    BY Zenon, <1>9 DEF Settles
  <2> QED
    BY Zenon, <2>1, <2>2, BodyFirstKept, RemovesSame
<1>10. ASSUME NEW c \in Composers, Opens(c)
       PROVE  BodyFirst'
  BY Zenon, <1>10, BodyFirstKept, RemovesSame DEF Opens
<1> QED
  BY Zenon, <1>1, <1>2, <1>3, <1>4, <1>6, <1>7, <1>8, <1>9, <1>10, StepOk DEF Effect

\* The body is there before its row, throughout.
LEMMA BodyFirstHolds == Spec => []BodyFirst
<1>1. Init => BodyFirst
  <2>1. Init => \A j \in Jobs : job[j] = None
    BY DEF Init
  <2> QED
    BY Zenon, <2>1, Keys DEF Init, BodyFirst, RowHasBody, Clears
<1>2. Shape /\ BodyFirst /\ [Next]_vars => BodyFirst'
  BY BodyFirstNext
<1> QED
  BY <1>1, <1>2, ShapeHolds, PTL DEF Spec

\* "The row ... never points at a body that is not there" (DraftStore.save),
\* whatever saves and removals of whichever devices interleave, while the draft
\* was not removed.
THEOREM RowPointsAtBody == Spec => []RowHasBody
<1>1. BodyFirst => RowHasBody
  BY DEF BodyFirst
<1> QED
  BY <1>1, BodyFirstHolds, PTL

=============================================================================
