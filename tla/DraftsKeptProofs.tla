-------------------------- MODULE DraftsKeptProofs --------------------------
(***************************************************************************)
(* What was saved stays, for any composers, devices, layouts, edits, parts *)
(* and failures: the edit is in the stored draft, or in a device copy that *)
(* no save in flight is about to clear without having stored it.  That     *)
(* rests on who has whose text: a save has its device's copy unless the    *)
(* copy is newer, one composer at a time is at work on a device and has    *)
(* all of its copy, and whoever names the stored version has all of it.    *)
(* The steps are those of DraftsProofs.                                    *)
(***************************************************************************)
EXTENDS DraftsProofs

-----------------------------------------------------------------------------
(* Who has whose text                                                      *)

\* A composer has all that it is saving.
SavesOwn ==
    \A c \in Composers, k \in {"relay", "keep"} :
        job[<<c, k>>] # None => job[<<c, k>>].doc.text \subseteq doc[c].text
\* One composer of a device is at work, and has all of the device's copy.
OneLive == \A b, c \in Composers : Live(b) /\ Live(c) /\ dev[b] = dev[c] => b = c
LiveHasCopy ==
    \A c \in Composers : Live(c) /\ local[dev[c]] # None =>
        st[c] # "loading" /\ local[dev[c]].doc.text \subseteq doc[c].text
\* A save has all of the device copy that is not newer than it.
CopySaved ==
    \A u \in Uploads : job[u] # None /\ local[Home(u)] # None /\ u \notin local[Home(u)].newer =>
        local[Home(u)].doc.text \subseteq job[u].doc.text
\* Before the first composer opens there is no draft.
BeginsEmpty ==
    st[First] = "new" =>
        /\ head = None /\ \A c \in Composers : st[c] = "new"
        /\ \A d \in Devices : local[d] = None /\ job[<<d, "settle">>] = None
Owned == SavesOwn /\ OneLive /\ LiveHasCopy /\ CopySaved

\* Steps that write no device copy and start no save.
NothingNew ==
    /\ \A d \in Devices : local'[d] \in {None, local[d]}
    /\ \A u \in Uploads : job'[u] # None => job[u] # None /\ job'[u].doc.text = job[u].doc.text

\* No step moves a composer, or what it has in flight, to another device.
LEMMA HomesSame ==
    ASSUME Shape, UNCHANGED dev
    PROVE  /\ \A u \in Uploads : Home(u)' = Home(u) /\ Home(u) \in Devices
           /\ \A c \in Composers : /\ dev[c] \in Devices /\ dev'[c] = dev[c]
                                   /\ Home(<<c, "relay">>) = dev[c] /\ Home(<<c, "keep">>) = dev[c]
           /\ \A d \in Devices : Home(<<d, "settle">>) = d
<1>1. dev \in Layouts
  BY DEF Shape, TypeOK
<1>2. dev \in [Composers -> Devices]
  BY <1>1, HomeOk
<1>3. \A u \in Uploads : Home(u)' = Home(u) /\ Home(u) \in Devices
  BY <1>1, HomeOk DEF Home
<1>4. \A c \in Composers : Home(<<c, "relay">>) = dev[c] /\ Home(<<c, "keep">>) = dev[c]
  BY Zenon, <1>1, HomeOk DEF Kinds
<1>5. \A d \in Devices : Home(<<d, "settle">>) = d
  BY Zenon, <1>1, HomeOk
<1> QED
  BY <1>2, <1>3, <1>4, <1>5

\* No ageing brings a second composer to work on a device.
LEMMA OneLiveAges ==
    ASSUME OneLive, Ages
    PROVE  OneLive'
  BY DEF OneLive, Ages

\* A step that writes no copy and starts no save.
LEMMA OldOwned ==
    ASSUME Shape, Owned, Ages, NothingNew
    PROVE  Owned'
<1>1. /\ \A u \in Uploads : Home(u)' = Home(u) /\ Home(u) \in Devices
      /\ \A c \in Composers : dev[c] \in Devices /\ dev'[c] = dev[c]
  BY Zenon, HomesSame DEF Ages
<1>2. OneLive'
  BY OneLiveAges DEF Owned
<1>3. SavesOwn'
  <2>1. \A c \in Composers, k \in {"relay", "keep"} : <<c, k>> \in Uploads
    BY Zenon, Keys
  <2> QED
    BY Zenon, <2>1 DEF Owned, SavesOwn, NothingNew, Ages
<1>4. LiveHasCopy'
  BY Zenon, <1>1 DEF Owned, LiveHasCopy, NothingNew, Ages
<1>5. CopySaved'
  <2> SUFFICES ASSUME NEW u \in Uploads, job'[u] # None, local'[Home(u)'] # None,
                      u \notin local'[Home(u)'].newer
               PROVE  local'[Home(u)'].doc.text \subseteq job'[u].doc.text
    BY Zenon DEF CopySaved
  <2>1. Home(u)' = Home(u) /\ Home(u) \in Devices
    BY Zenon, <1>1
  <2>2. local'[Home(u)'] = local[Home(u)]
    BY Zenon, <2>1 DEF NothingNew
  <2>3. job[u] # None /\ job'[u].doc.text = job[u].doc.text
    BY Zenon DEF NothingNew
  <2>4. local[Home(u)].doc.text \subseteq job[u].doc.text
    BY Zenon, <2>2, <2>3 DEF Owned, CopySaved
  <2> QED
    BY Zenon, <2>2, <2>3, <2>4
<1> QED
  BY <1>2, <1>3, <1>4, <1>5 DEF Owned

\* A composer writes its device's copy: it is the one at work there.
LEMMA PuttingOwned ==
    ASSUME Shape, Owned, Ages, NEW c \in Composers, Acts(c), Live(c), Putting(c)
    PROVE  Owned'
<1>1. /\ \A u \in Uploads : Home(u)' = Home(u) /\ Home(u) \in Devices
      /\ \A b \in Composers : dev[b] \in Devices /\ dev'[b] = dev[b]
  BY Zenon, HomesSame DEF Ages
<1>2. OneLive'
  BY OneLiveAges DEF Owned
<1>3. SavesOwn'
  <2> SUFFICES ASSUME NEW b \in Composers, NEW k \in {"relay", "keep"}, job'[<<b, k>>] # None
               PROVE  job'[<<b, k>>].doc.text \subseteq doc'[b].text
    BY Zenon DEF SavesOwn
  <2>1. <<b, k>> \in Uploads
    BY Zenon, Keys
  <2>2. job[<<b, k>>] # None /\ job'[<<b, k>>].doc.text = job[<<b, k>>].doc.text
    BY Zenon, <2>1 DEF Putting
  <2>3. job[<<b, k>>].doc.text \subseteq doc[b].text
    BY Zenon, <2>2 DEF Owned, SavesOwn
  <2>4. doc[b].text \subseteq doc'[b].text
    BY Zenon DEF Ages
  <2> QED
    BY Zenon, <2>2, <2>3, <2>4
<1>4. /\ local'[dev[c]].doc = doc[c]
      /\ local'[dev[c]].newer = {u \in Uploads : job[u] # None /\ Home(u) = dev[c]}
      /\ \A d \in Devices \ {dev[c]} : local'[d] = local[d]
  <2>1. local \in [Devices -> Copies \cup {None}]
    BY DEF Shape, TypeOK
  <2>2. local' = [local EXCEPT ![dev[c]] = CopyOf(c)]
    BY DEF Putting
  <2>3. local'[dev[c]] = CopyOf(c) /\ \A d \in Devices \ {dev[c]} : local'[d] = local[d]
    BY <1>1, <2>1, <2>2
  <2>4. CopyOf(c).doc = doc[c] /\ CopyOf(c).newer = {u \in Uploads : job[u] # None /\ Home(u) = dev[c]}
    BY DEF CopyOf
  <2> QED
    BY Zenon, <2>3, <2>4
<1>5. LiveHasCopy'
  <2> SUFFICES ASSUME NEW b \in Composers, Live(b)', local'[dev'[b]] # None
               PROVE  st'[b] # "loading" /\ local'[dev'[b]].doc.text \subseteq doc'[b].text
    BY DEF LiveHasCopy
  <2>1. Live(b) /\ doc[b].text \subseteq doc'[b].text /\ (st'[b] = "loading" => st[b] = "loading")
    BY DEF Ages
  <2>2. CASE dev[b] = dev[c]
    <3>1. b = c
      BY <2>1, <2>2 DEF Owned, OneLive
    <3>2. st'[c] # "loading"
      BY Zenon DEF Acts
    <3> QED
      BY Zenon, <1>1, <1>4, <2>1, <3>1, <3>2
  <2>3. CASE dev[b] # dev[c]
    <3>1. local'[dev'[b]] = local[dev[b]]
      BY Zenon, <1>1, <1>4, <2>3
    <3>2. st[b] # "loading" /\ local[dev[b]].doc.text \subseteq doc[b].text
      BY Zenon, <2>1, <3>1 DEF Owned, LiveHasCopy
    <3> QED
      BY Zenon, <2>1, <3>1, <3>2
  <2> QED
    BY <2>2, <2>3
<1>6. CopySaved'
  <2> SUFFICES ASSUME NEW u \in Uploads, job'[u] # None, local'[Home(u)] # None,
                      u \notin local'[Home(u)].newer
               PROVE  local'[Home(u)].doc.text \subseteq job'[u].doc.text
    BY <1>1 DEF CopySaved
  <2>1. job'[u] = job[u]
    BY Zenon DEF Putting
  <2>2. Home(u) # dev[c]
    BY Zenon, <1>4, <2>1
  <2> QED
    BY Zenon, <1>1, <1>4, <2>1, <2>2 DEF Owned, CopySaved
<1> QED
  BY <1>2, <1>3, <1>5, <1>6 DEF Owned

\* A save of a composer starts: the composer has all of its device's copy.
LEMMA StartingOwned ==
    ASSUME Shape, Owned, Ages, NEW c \in Composers, NEW k \in {"relay", "keep"},
           Live(c), Starting(c, k)
    PROVE  Owned'
<1> DEFINE j == <<c, k>>
<1>0. j \in Uploads
  BY Zenon, Keys
<1>1. /\ \A u \in Uploads : Home(u)' = Home(u) /\ Home(u) \in Devices
      /\ \A b \in Composers : dev[b] \in Devices /\ dev'[b] = dev[b]
      /\ Home(j) = dev[c]
  BY Zenon, HomesSame DEF Ages
<1>2. /\ job'[j].doc = doc[c] /\ \A u \in Uploads \ {j} : job'[u] = job[u]
      /\ \A d \in Devices : local'[d] # None =>
            /\ local[d] # None /\ local'[d].doc = local[d].doc
            /\ local'[d].newer = local[d].newer \ {j}
  BY Zenon DEF Starting
<1>3. OneLive'
  BY OneLiveAges DEF Owned
<1>4. SavesOwn'
  <2> SUFFICES ASSUME NEW b \in Composers, NEW i \in {"relay", "keep"}, job'[<<b, i>>] # None
               PROVE  job'[<<b, i>>].doc.text \subseteq doc'[b].text
    BY Zenon DEF SavesOwn
  <2>1. CASE <<b, i>> = j
    BY Zenon, <1>2, <2>1 DEF Ages
  <2>2. CASE <<b, i>> # j
    <3>1. <<b, i>> \in Uploads \ {j}
      BY Zenon, <2>2, Keys
    <3>2. job'[<<b, i>>] = job[<<b, i>>]
      BY <1>2, <3>1
    <3> QED
      BY Zenon, <3>2 DEF Owned, SavesOwn, Ages
  <2> QED
    BY <2>1, <2>2
<1>5. LiveHasCopy'
  BY Zenon, <1>1, <1>2 DEF Owned, LiveHasCopy, Ages
<1>6. CopySaved'
  <2> SUFFICES ASSUME NEW u \in Uploads, job'[u] # None, local'[Home(u)] # None,
                      u \notin local'[Home(u)].newer
               PROVE  local'[Home(u)].doc.text \subseteq job'[u].doc.text
    BY <1>1 DEF CopySaved
  <2>1. CASE u = j
    <3>1. dev[c] \in Devices /\ Home(u) = dev[c] /\ Home(u)' = Home(u)
      BY Zenon, <1>0, <1>1, <2>1
    <3>2. local[dev[c]] # None /\ local'[dev[c]].doc = local[dev[c]].doc
      BY Zenon, <1>2, <3>1
    <3>3. local[dev[c]].doc.text \subseteq doc[c].text
      BY Zenon, <3>2 DEF Owned, LiveHasCopy
    <3> QED
      BY Zenon, <1>2, <2>1, <3>1, <3>2, <3>3
  <2>2. CASE u # j
    <3> HIDE DEF j
    <3> QED
      BY <1>1, <1>2, <2>2 DEF Owned, CopySaved
  <2> QED
    BY Zenon, <2>1, <2>2
<1> QED
  BY <1>3, <1>4, <1>5, <1>6 DEF Owned

\* A settle pass starts its save: it saves the copy itself.
LEMMA SettlesOwned ==
    ASSUME Shape, Owned, Ages, NEW d \in Devices, Settles(d)
    PROVE  Owned'
<1> DEFINE j == <<d, "settle">>
<1>0. j \in Uploads /\ \A b \in Composers, i \in {"relay", "keep"} : <<b, i>> \in Uploads \ {j}
  BY Zenon, Keys
<1>1. /\ \A u \in Uploads : Home(u)' = Home(u) /\ Home(u) \in Devices
      /\ \A b \in Composers : dev[b] \in Devices /\ dev'[b] = dev[b]
      /\ Home(j) = d
  BY Zenon, HomesSame DEF Ages
<1>2. \A u \in Uploads \ {j} : job'[u] = job[u]
  BY Zenon, Keys DEF Settles
<1>3. /\ job'[j].doc = local[d].doc
      /\ \A i \in Devices : local'[i] # None =>
            /\ local[i] # None /\ local'[i].doc = local[i].doc
            /\ local[i].newer \subseteq local'[i].newer \cup {j}
  BY Zenon DEF Settles
<1> HIDE DEF j
<1>4. OneLive'
  BY OneLiveAges DEF Owned
<1>5. SavesOwn'
  BY Zenon, <1>0, <1>2 DEF Owned, SavesOwn, Ages
<1>6. LiveHasCopy'
  BY Zenon, <1>1, <1>3 DEF Owned, LiveHasCopy, Ages
<1>7. CopySaved'
  <2> SUFFICES ASSUME NEW u \in Uploads, job'[u] # None, local'[Home(u)] # None,
                      u \notin local'[Home(u)].newer
               PROVE  local'[Home(u)].doc.text \subseteq job'[u].doc.text
    BY <1>1 DEF CopySaved
  <2>1. CASE u = j
    BY <1>1, <1>3, <2>1
  <2>2. CASE u # j
    BY <1>1, <1>2, <1>3, <2>2 DEF Owned, CopySaved
  <2> QED
    BY <2>1, <2>2
<1> QED
  BY <1>4, <1>5, <1>6, <1>7 DEF Owned

\* A composer that opens is alone on its device.
LEMMA OpensOwned ==
    ASSUME Shape, Owned, BeginsEmpty, NEW c \in Composers, ~Busy(dev[c]), Opens(c)
    PROVE  Owned'
<1>1. /\ UNCHANGED <<local, dev, dirty, waits, answer, job>>
      /\ \A b \in Composers \ {c} : st'[b] = st[b] /\ doc'[b] = doc[b] /\ mark'[b] = mark[b]
  BY Zenon DEF Opens
<1>2. Fresh(c) /\ st[c] \in {"new", "loading"}
  BY Zenon DEF Opens, Free, Shape, FreshUntilOpen
<1>3. \A b \in Composers \ {c} : Live(b)' => Live(b)
  BY Zenon, <1>1 DEF Live, Armed, Is
<1>4. Live(c)' => st'[c] \in {"loading", "open"}
  BY Zenon, <1>1, <1>2 DEF Live, Armed, Fresh
<1>5. ASSUME Free(c), NEW b \in Composers, dev[b] = dev[c]
      PROVE  ~Live(b)
  <2>1. st[b] \in {"new", "shut"} /\ Quiet(dev[c])
    BY Zenon, <1>5 DEF Free
  <2>2. \A k \in Kinds : job[<<b, k>>] = None
    <3>1. dev \in Layouts
      BY Zenon DEF Shape, TypeOK
    <3>2. \A k \in Kinds : <<b, k>> \in Jobs /\ Home(<<b, k>>) = dev[c] /\ k # "settle"
      BY Zenon, <1>5, <3>1, HomeOk, Keys DEF Kinds
    <3> QED
      BY <2>1, <3>2 DEF Quiet
  <2>3. answer[b] = None /\ \A s \in Savers : waits[b][s] = {} \/ job[<<b, s>>] # None
    BY Zenon, <1>5 DEF Busy
  <2>4. \A s \in Savers : ~Armed(b, s)
    BY <1>5, <2>1 DEF Quiet
  <2> QED
    BY Zenon, <2>1, <2>2, <2>3, <2>4 DEF Live, Kinds, Savers
<1>6. Free(c) \/ (st[c] = "loading" /\ Live(c))
  BY Zenon DEF Opens, Live
<1>7. OneLive'
  <2> SUFFICES ASSUME NEW a \in Composers, NEW b \in Composers, Live(a)', Live(b)', dev[a] = dev[b]
               PROVE  a = b
    BY Zenon, <1>1 DEF OneLive
  <2>1. CASE a # c /\ b # c
    BY <1>3, <2>1 DEF Owned, OneLive
  <2>2. CASE a = c /\ b # c
    BY <1>3, <1>5, <1>6, <2>2 DEF Owned, OneLive
  <2>3. CASE a # c /\ b = c
    BY <1>3, <1>5, <1>6, <2>3 DEF Owned, OneLive
  <2> QED
    BY <2>1, <2>2, <2>3
<1>8. SavesOwn'
  <2>1. \A k \in {"relay", "keep"} : job[<<c, k>>] = None
    BY <1>2 DEF Fresh, Kinds
  <2> QED
    BY Zenon, <1>1, <2>1 DEF Owned, SavesOwn
<1>9. CopySaved'
  BY Zenon, <1>1 DEF Owned, CopySaved, Home
<1>10. ASSUME Live(c)', local[dev[c]] # None
       PROVE  st'[c] # "loading" /\ local[dev[c]].doc.text \subseteq doc'[c].text
  <2>1. CASE c = First /\ st[c] = "new"
    <3>1. dev[c] \in Devices
      BY Zenon, HomesSame, <1>1
    <3> QED
      BY Zenon, <1>10, <2>1, <3>1 DEF BeginsEmpty
  <2>2. CASE st[c] = "loading"
    BY Zenon, <1>10, <2>2 DEF Owned, LiveHasCopy, Live
  <2>3. CASE Free(c) /\ st'[c] = "open" /\ doc'[c] = local[dev[c]].doc
    BY Zenon, <2>3
  <2> QED
    BY Zenon, <1>10, <2>1, <2>2, <2>3 DEF Opens, Free
<1>11. LiveHasCopy'
  BY Zenon, <1>1, <1>3, <1>10 DEF Owned, LiveHasCopy
<1> QED
  BY <1>7, <1>8, <1>9, <1>11 DEF Owned

\* The draft has begun when a composer acts or a save goes on.
LEMMA ActsBegun ==
    ASSUME BeginsEmpty, Ages, NEW c \in Composers, Acts(c)
    PROVE  BeginsEmpty'
  BY Zenon, DraftsAssumption DEF BeginsEmpty, Ages, Acts

\* A save in flight is of a draft some composer opened.
LEMMA TicksBegun ==
    ASSUME Shape, BeginsEmpty, Ages, NEW j \in Uploads, Ticks(j)
    PROVE  BeginsEmpty'
<1>1. st[First] # "new"
  <2> SUFFICES ASSUME st[First] = "new" PROVE FALSE
    OBVIOUS
  <2>1. job[j] # None
    BY DEF Ticks
  <2>2. ASSUME NEW c \in Composers, NEW k \in {"relay", "keep"}, j = <<c, k>>
        PROVE  FALSE
    <3>1. Fresh(c)
      BY DEF BeginsEmpty, Shape, FreshUntilOpen
    <3> QED
      BY <2>1, <2>2, <3>1 DEF Fresh, Kinds
  <2>3. ASSUME NEW d \in Devices, j = <<d, "settle">>
        PROVE  FALSE
    BY <2>1, <2>3 DEF BeginsEmpty
  <2> QED
    BY <2>2, <2>3, UploadKinds
<1> QED
  BY <1>1, DraftsAssumption DEF BeginsEmpty, Ages

\* A calm step begins no draft.
LEMMA CalmBegun ==
    ASSUME BeginsEmpty, Ages, Calm
    PROVE  BeginsEmpty'
<1>1. \A d \in Devices : job[<<d, "settle">>] = None => job'[<<d, "settle">>] = None
  BY Zenon, Keys DEF Calm, Tame
<1>2. UNCHANGED <<head, local>>
  BY DEF Calm
<1> QED
  BY Zenon, <1>1, <1>2, DraftsAssumption DEF BeginsEmpty, Ages

\* The first composer is the first to open.
LEMMA OpensBegun ==
    ASSUME Shape, BeginsEmpty, NEW c \in Composers, Opens(c)
    PROVE  BeginsEmpty'
<1> SUFFICES ASSUME st'[First] = "new"
             PROVE  FALSE
  BY Zenon DEF BeginsEmpty
<1>1. c # First /\ st[First] = "new"
  BY Zenon, DraftsAssumption DEF Opens
<1>2. head = None /\ st[c] = "new" /\ local[dev[c]] = None
  BY Zenon, <1>1, HomesSame DEF BeginsEmpty, Opens
<1> QED
  BY Zenon, <1>1, <1>2 DEF Opens

\* What the steps other than these write was there before.
LEMMA EffectOld ==
    ASSUME Shape, Effect
    PROVE  \/ NothingNew
           \/ \E c \in Composers : Acts(c) /\ Live(c) /\ Putting(c)
           \/ \E c \in Composers, k \in {"relay", "keep"} : Acts(c) /\ Live(c) /\ Starting(c, k)
           \/ \E d \in Devices : Settles(d)
<1>1. CASE Calm
  BY Zenon, <1>1 DEF Calm, Tame, NothingNew
<1>2. ASSUME NEW c \in Composers, Removing(c)
      PROVE  NothingNew
  <2>1. local \in [Devices -> Copies \cup {None}]
    BY DEF Shape, TypeOK
  <2> QED
    BY Zenon, <1>2, <2>1 DEF Removing, NothingNew
<1>3. ASSUME NEW j \in Uploads, Ticks(j), \A d \in Devices : local'[d] \in {None, local[d]}
      PROVE  NothingNew
  BY Zenon, <1>3, TicksOk DEF NothingNew, Ticks
<1>4. ASSUME NEW j \in Uploads, Ticks(j), Cleared(j) \/ Asked(j)
      PROVE  NothingNew
  <2>1. \A d \in Devices : local'[d] \in {None, local[d]}
    BY Zenon, <1>4 DEF Cleared, Asked
  <2> QED
    BY Zenon, <1>3, <1>4, <2>1
<1> QED
  BY Zenon, <1>1, <1>2, <1>3, <1>4 DEF Effect

\* Every step keeps who has whose text.
LEMMA OwnedNext ==
    ASSUME Shape, Owned, BeginsEmpty, [Next]_vars
    PROVE  Owned' /\ BeginsEmpty'
<1>1. CASE Ages /\ Effect
  <2>1. Owned'
    BY <1>1, EffectOld, OldOwned, PuttingOwned, StartingOwned, SettlesOwned
  <2>2. BeginsEmpty'
    <3>1. ASSUME NEW d \in Devices, Settles(d)
          PROVE  BeginsEmpty'
      BY Zenon, <1>1, <3>1, DraftsAssumption DEF BeginsEmpty, Ages, Settles
    <3> QED
      BY <1>1, <3>1, ActsBegun, TicksBegun, CalmBegun DEF Effect
  <2> QED
    BY <2>1, <2>2
<1>2. ASSUME NEW c \in Composers, ~Busy(dev[c]), Opens(c)
      PROVE  Owned' /\ BeginsEmpty'
  BY <1>2, OpensOwned, OpensBegun
<1> QED
  BY <1>1, <1>2, StepOk

\* At first nobody has anything.
LEMMA OwnedInit == Init => Owned /\ BeginsEmpty
<1> SUFFICES ASSUME Init PROVE Owned /\ BeginsEmpty
  OBVIOUS
<1>1. \A j \in Jobs : job[j] = None
  BY DEF Init
<1>2. /\ \A u \in Uploads : job[u] = None
      /\ \A c \in Composers, k \in Kinds : job[<<c, k>>] = None
      /\ \A c \in Composers, k \in {"relay", "keep"} : job[<<c, k>>] = None
      /\ \A d \in Devices : job[<<d, "settle">>] = None
  BY Zenon, <1>1, Keys DEF Kinds
<1>3. \A c \in Composers : ~Live(c)
  BY Zenon, <1>2 DEF Init, Live, Armed, Savers
<1>4. SavesOwn /\ OneLive /\ LiveHasCopy /\ CopySaved
  BY Zenon, <1>2, <1>3 DEF SavesOwn, OneLive, LiveHasCopy, CopySaved
<1>5. BeginsEmpty
  BY <1>2 DEF Init, BeginsEmpty
<1> QED
  BY <1>4, <1>5 DEF Owned

-----------------------------------------------------------------------------
(* Who names the version that is stored has all of its text                *)

Current(text, n, b) == n # 0 => b # None /\ n <= b.ver /\ (n = b.ver => b.text \subseteq text)
BasesCurrent ==
    ~removed =>
        /\ \A c \in Composers : Current(doc[c].text, base[c].body, body)
        /\ \A d \in Devices : local[d] # None => Current(local[d].doc.text, local[d].base.body, body)
        /\ \A u \in Uploads : job[u] # None => Current(job[u].doc.text, job[u].base.body, body)

\* Steps that leave the body alone, and pass on versions with their texts.
LEMMA CurrentKept ==
    ASSUME Shape, SavesOwn, BasesCurrent, Ages, UNCHANGED body, removed => removed',
           \A c \in Composers : Renewed(c),
           \A d \in Devices : local'[d] # None =>
                \/ /\ local[d] # None /\ local'[d].doc.text = local[d].doc.text
                   /\ local'[d].base.body = local[d].base.body
                \/ \E c \in Composers : local'[d].doc = doc[c] /\ local'[d].base = base[c],
           \A u \in Uploads : job'[u] # None =>
                \/ /\ job[u] # None /\ job'[u].doc.text = job[u].doc.text
                   /\ job'[u].base.body = job[u].base.body
                \/ \E c \in Composers : job'[u].doc = doc[c] /\ job'[u].base.body \in {0, base[c].body}
                \/ \E d \in Devices : /\ local[d] # None /\ job'[u].doc = local[d].doc
                                      /\ job'[u].base = local[d].base
    PROVE  BasesCurrent'
<1> SUFFICES ASSUME ~removed, ~removed' PROVE BasesCurrent'
  BY Zenon DEF BasesCurrent
<1>1. /\ \A c \in Composers : Current(doc[c].text, base[c].body, body)
      /\ \A d \in Devices : local[d] # None => Current(local[d].doc.text, local[d].base.body, body)
      /\ \A u \in Uploads : job[u] # None => Current(job[u].doc.text, job[u].base.body, body)
  BY Zenon DEF BasesCurrent
<1>2. ASSUME NEW c \in Composers
      PROVE  Current(doc'[c].text, base'[c].body, body)
  <2>1. doc[c].text \subseteq doc'[c].text
    BY Zenon DEF Ages
  <2>2. CASE base'[c] = base[c]
    BY Zenon, <1>1, <2>1, <2>2 DEF Current
  <2>3. ASSUME NEW k \in {"relay", "keep"}, job[<<c, k>>] # None, base'[c].body = job[<<c, k>>].base.body
        PROVE  Current(doc'[c].text, base'[c].body, body)
    <3>1. <<c, k>> \in Uploads
      BY Zenon, Keys
    <3>2. Current(job[<<c, k>>].doc.text, job[<<c, k>>].base.body, body)
      BY Zenon, <1>1, <2>3, <3>1
    <3>3. job[<<c, k>>].doc.text \subseteq doc'[c].text
      BY Zenon, <2>1, <2>3 DEF SavesOwn
    <3> QED
      BY <2>3, <3>2, <3>3 DEF Current
  <2> QED
    BY Zenon, <2>2, <2>3 DEF Renewed
<1>3. ASSUME NEW d \in Devices, local'[d] # None
      PROVE  Current(local'[d].doc.text, local'[d].base.body, body)
  BY Zenon, <1>1, <1>3
<1>4. \A t : Current(t, 0, body)
  BY Zenon DEF Current
<1>5. ASSUME NEW u \in Uploads, job'[u] # None
      PROVE  Current(job'[u].doc.text, job'[u].base.body, body)
  BY Zenon, <1>1, <1>4, <1>5
<1> QED
  BY Zenon, <1>2, <1>3, <1>5 DEF BasesCurrent

\* A body or a row that is put is there.
LEMMA PutIsThere ==
    ASSUME TypeOK, NEW j \in Uploads, job[j] # None
    PROVE  /\ [ver |-> Ver(body) + 1, text |-> job[j].doc.text] # None
           /\ [ver |-> Ver(head) + 1, parts |-> job[j].doc.parts] # None
<1>1. job[j] \in Saves /\ body \in Bodies \cup {None} /\ head \in Rows \cup {None}
  BY DEF TypeOK
<1>2. job[j].doc \in Docs
  BY <1>1 DEF Saves
<1>3. job[j].doc.text \in SUBSET Edits /\ job[j].doc.parts \in SUBSET Parts
  BY <1>2 DEF Docs
<1>4. Ver(body) \in Nat
  BY <1>1 DEF Ver, Bodies
<1>5. Ver(head) \in Nat
  BY <1>1 DEF Ver, Rows
<1>6. Ver(body) + 1 \in Nat /\ Ver(head) + 1 \in Nat
  BY <1>4, <1>5
<1>7. \A n \in Nat, t \in SUBSET Edits : [ver |-> n, text |-> t] \in Bodies
  BY Zenon DEF Bodies
<1>8. \A n \in Nat, p \in SUBSET Parts : [ver |-> n, parts |-> p] \in Rows
  BY Zenon DEF Rows
<1>9. None \notin Bodies /\ None \notin Rows
  BY DraftsAssumption
<1> QED
  BY Zenon, <1>3, <1>6, <1>7, <1>8, <1>9

\* The body is put: every other version is now older.
LEMMA CurrentPut ==
    ASSUME Shape, BasesCurrent, Ages, NEW j \in Uploads, Ticks(j), BodyPut(j),
           UNCHANGED <<head, local, base, settled, removed>>
    PROVE  BasesCurrent'
<1> SUFFICES ASSUME ~removed PROVE BasesCurrent'
  BY Zenon DEF BasesCurrent
<1>0. body \in Bodies \cup {None}
  BY DEF Shape, TypeOK
<1>1. body' = [ver |-> Ver(body) + 1, text |-> job[j].doc.text]
  BY Zenon DEF BodyPut
<1>2. Ver(body) \in Nat /\ (body # None => body.ver = Ver(body))
  BY <1>0 DEF Ver, Bodies
<1>3. body'.ver = Ver(body) + 1 /\ body'.text = job[j].doc.text
  BY <1>1
<1>4. body' # None
  BY Zenon, <1>1, PutIsThere DEF Shape, Ticks
<1>5. ASSUME NEW t, NEW n \in Nat, Current(t, n, body)
      PROVE  Current(t, n, body')
  BY <1>2, <1>3, <1>4, <1>5 DEF Current
<1>6. ASSUME NEW c \in Composers
      PROVE  Current(doc'[c].text, base'[c].body, body')
  <2>1. UNCHANGED doc /\ base[c] \in Bases
    BY Zenon DEF Ticks, Shape, TypeOK
  <2>2. base[c].body \in Nat /\ Current(doc[c].text, base[c].body, body)
    BY Zenon, <2>1 DEF BasesCurrent, Bases
  <2> QED
    BY <1>5, <2>1, <2>2
<1>7. ASSUME NEW d \in Devices, local'[d] # None
      PROVE  Current(local'[d].doc.text, local'[d].base.body, body')
  <2>1. local[d] \in Copies
    BY <1>7 DEF Shape, TypeOK
  <2>2. local[d].base.body \in Nat /\ Current(local[d].doc.text, local[d].base.body, body)
    BY Zenon, <1>7, <2>1 DEF BasesCurrent, Copies, Bases
  <2> QED
    BY Zenon, <1>5, <2>2
<1>8. ASSUME NEW u \in Uploads, job'[u] # None
      PROVE  Current(job'[u].doc.text, job'[u].base.body, body')
  <2>1. CASE u = j
    <3>1. job'[j].base.body = Ver(body) + 1 /\ job'[j].doc = job[j].doc
      BY Zenon, <1>8, <2>1, TicksOk DEF BodyPut
    <3>2. job'[u].doc.text = body'.text /\ job'[u].base.body = body'.ver
      BY <1>3, <2>1, <3>1
    <3>3. Current(body'.text, body'.ver, body')
      BY <1>2, <1>3, <1>4 DEF Current
    <3> QED
      BY Zenon, <3>2, <3>3
  <2>2. CASE u # j
    <3>1. job'[u] = job[u]
      BY <2>2, TicksOk
    <3>2. job[u] \in Saves
      BY Zenon, <1>8, <3>1 DEF Shape, TypeOK
    <3>3. job[u].base.body \in Nat /\ Current(job[u].doc.text, job[u].base.body, body)
      BY Zenon, <1>8, <3>1, <3>2 DEF BasesCurrent, Saves, Bases
    <3> QED
      BY Zenon, <1>5, <3>1, <3>3
  <2> QED
    BY <2>1, <2>2
<1> QED
  BY Zenon, <1>6, <1>7, <1>8 DEF BasesCurrent

\* The steps of a save move no base but to the version it has just put.
LEMMA TicksRenewed ==
    ASSUME NEW j \in Uploads, Ticks(j),
           \A c \in Composers : base'[c] = base[c] \/ base'[c].body = job[j].base.body
    PROVE  \A c \in Composers : Renewed(c)
<1> SUFFICES ASSUME NEW c \in Composers PROVE Renewed(c)
  BY Zenon
<1>1. CASE c # j[1] \/ j[2] = "settle"
  BY Zenon, <1>1 DEF Renewed, Ticks, BaseTurn
<1>2. CASE c = j[1] /\ j[2] # "settle"
  <2>1. j = <<c, "relay">> \/ j = <<c, "keep">>
    BY <1>2, UploadKinds
  <2> QED
    BY Zenon, <2>1 DEF Renewed, Ticks
<1> QED
  BY Zenon, <1>1, <1>2

\* Every step keeps that whoever names the stored version has all of its text.
LEMMA CurrentNext ==
    ASSUME Shape, SavesOwn, BodyFirst, BasesCurrent, [Next]_vars
    PROVE  BasesCurrent'
<1>1. CASE Ages /\ Calm
  BY Zenon, <1>1, CurrentKept DEF Calm, Tame
<1>2. ASSUME Ages, NEW c \in Composers, Acts(c), Putting(c)
      PROVE  BasesCurrent'
  <2>1. local \in [Devices -> Copies \cup {None}] /\ dev[c] \in Devices
    BY Zenon, HomesSame, <1>2 DEF Shape, TypeOK, Ages
  <2>2. local' = [local EXCEPT ![dev[c]] = CopyOf(c)]
    BY Zenon, <1>2 DEF Putting
  <2>3. CopyOf(c).doc = doc[c] /\ CopyOf(c).base = base[c]
    BY Zenon DEF CopyOf
  <2>4. \A d \in Devices : local'[d] = local[d] \/ (local'[d].doc = doc[c] /\ local'[d].base = base[c])
    BY Zenon, <2>1, <2>2, <2>3
  <2> QED
    BY Zenon, <1>2, <2>4, CurrentKept DEF Putting, Acts, Renewed
<1>3. ASSUME Ages, NEW c \in Composers, NEW k \in {"relay", "keep"}, Acts(c), Starting(c, k)
      PROVE  BasesCurrent'
  <2>1. \A u \in Uploads : job'[u] # None =>
            \/ job'[u] = job[u]
            \/ job'[u].doc = doc[c] /\ job'[u].base.body \in {0, base[c].body}
    BY Zenon, <1>3 DEF Starting
  <2>2. \A d \in Devices : local'[d] # None =>
            local[d] # None /\ local'[d].doc = local[d].doc /\ local'[d].base = local[d].base
    BY <1>3 DEF Starting
  <2> QED
    BY Zenon, <1>3, <2>1, <2>2, CurrentKept DEF Starting, Acts, Renewed
<1>4. ASSUME Ages, NEW c \in Composers, Acts(c), Removing(c)
      PROVE  BasesCurrent'
  <2> SUFFICES ASSUME ~removed' PROVE BasesCurrent'
    BY Zenon DEF BasesCurrent
  <2>1. ~removed /\ body' = body
    BY Zenon, <1>4 DEF Removing, BodyFirst
  <2>2. /\ \A u \in Uploads : job'[u] = job[u]
        /\ \A d \in Devices : local'[d] \in {None, local[d]}
    <3>1. local \in [Devices -> Copies \cup {None}]
      BY DEF Shape, TypeOK
    <3> QED
      BY <1>4, <3>1 DEF Removing
  <2> QED
    BY Zenon, <1>4, <2>1, <2>2, CurrentKept DEF Acts, Renewed
<1>5. ASSUME Ages, NEW j \in Uploads, Ticks(j), HeadPut(j), UNCHANGED <<body, local, settled, removed>>
      PROVE  BasesCurrent'
  <2>1. /\ \A u \in Uploads \ {j} : job'[u] = job[u]
        /\ job'[j] # None => /\ job[j] # None /\ job'[j].doc = job[j].doc
                             /\ job'[j].base.body = job[j].base.body
    BY Zenon, <1>5, TicksOk DEF HeadPut, Ticks
  <2>2. \A c \in Composers : Renewed(c)
    BY Zenon, <1>5, TicksRenewed DEF HeadPut
  <2> QED
    BY Zenon, <1>5, <2>1, <2>2, CurrentKept
<1>6. ASSUME Ages, NEW j \in Uploads, Ticks(j), Cleared(j) \/ Asked(j)
      PROVE  BasesCurrent'
  <2>1. /\ \A u \in Uploads \ {j} : job'[u] = job[u]
        /\ job'[j] # None => /\ job[j] # None /\ job'[j].doc = job[j].doc
                             /\ job'[j].base = job[j].base
    BY Zenon, <1>6, TicksOk DEF Cleared, Asked, Ticks
  <2>2. UNCHANGED <<body, base, removed>> /\ \A d \in Devices : local'[d] \in {None, local[d]}
    BY Zenon, <1>6 DEF Cleared, Asked
  <2> QED
    BY Zenon, <1>6, <2>1, <2>2, CurrentKept DEF Renewed
<1>7. ASSUME Ages, NEW d \in Devices, Settles(d)
      PROVE  BasesCurrent'
  <2>1. \A u \in Uploads \ {<<d, "settle">>} : job'[u] = job[u]
    BY Zenon, <1>7, Keys DEF Settles
  <2>2. \A i \in Devices : local'[i] # None =>
            local[i] # None /\ local'[i].doc = local[i].doc /\ local'[i].base = local[i].base
    BY Zenon, <1>7 DEF Settles
  <2>3. /\ UNCHANGED <<body, base, removed>> /\ local[d] # None
        /\ job'[<<d, "settle">>].doc = local[d].doc /\ job'[<<d, "settle">>].base = local[d].base
    BY Zenon, <1>7 DEF Settles
  <2> QED
    BY Zenon, <1>7, <2>1, <2>2, <2>3, CurrentKept DEF Renewed
<1>8. ASSUME NEW c \in Composers, Opens(c)
      PROVE  BasesCurrent'
  <2> SUFFICES ASSUME ~removed PROVE BasesCurrent'
    BY Zenon, <1>8 DEF BasesCurrent, Opens
  <2>1. UNCHANGED <<body, local, job, dev>> /\ \A b \in Composers \ {c} : doc'[b] = doc[b] /\ base'[b] = base[b]
    BY Zenon, <1>8 DEF Opens
  <2>2. Current(doc'[c].text, base'[c].body, body)
    <3>1. \A t : Current(t, 0, body)
      BY DEF Current
    <3>2. CASE base'[c].body = 0
      BY <3>1, <3>2
    <3>3. CASE local[dev[c]] # None /\ doc'[c] = local[dev[c]].doc /\ base'[c] = local[dev[c]].base
      <4>1. dev[c] \in Devices
        BY Zenon, <2>1, HomesSame
      <4> QED
        BY Zenon, <3>3, <4>1 DEF BasesCurrent
    <3>4. CASE body # None /\ doc'[c].text = body.text /\ base'[c].body = body.ver
      <4>1. body.ver \in Nat
        BY Zenon, <3>4 DEF Shape, TypeOK, Bodies
      <4> QED
        BY <3>4, <4>1 DEF Current
    <3>5. CASE doc'[c] = doc[c] /\ base'[c] = base[c]
      BY Zenon, <3>5 DEF BasesCurrent
    <3>6. NewBase.body = 0
      BY DEF NewBase
    <3> QED
      BY Zenon, <1>8, <3>2, <3>3, <3>4, <3>5, <3>6 DEF Opens
  <2> QED
    BY Zenon, <2>1, <2>2 DEF BasesCurrent
<1> QED
  BY Zenon, <1>1, <1>2, <1>3, <1>4, <1>5, <1>6, <1>7, <1>8, CurrentPut, StepOk DEF Effect

-----------------------------------------------------------------------------
(* What was saved stays                                                    *)

\* The relay has the edit, or a device copy has it that no save past its body
\* is about to clear: the copy is newer, or the body now stored has the edit.
Stored(e) == head # None /\ body # None /\ e \in body.text
Spares(u, d, e) ==
    job[u] # None /\ Home(u) = d /\ job[u].step \in {"head"} \cup Clearing =>
        \/ u \in local[d].newer
        \/ job[u].step = "head" /\ body # None /\ e \in body.text
Held(d, e) == local[d] # None /\ e \in local[d].doc.text /\ \A u \in Uploads : Spares(u, d, e)
Kept == \A e \in Edits : fate[e] \in Safe /\ e \notin settled => Stored(e) \/ \E d \in Devices : Held(d, e)

\* What Kept says of one edit.
LEMMA KeptFor ==
    ASSUME NEW e \in Edits, Kept, fate[e] \in Safe, e \notin settled
    PROVE  Stored(e) \/ \E d \in Devices : Held(d, e)
  BY DEF Kept

\* A copy stays held: the saves that near its removal were near it before.
LEMMA HeldStill ==
    ASSUME Shape, UNCHANGED dev, NEW d \in Devices, NEW e, Held(d, e),
           local'[d] # None, local'[d].doc.text = local[d].doc.text,
           body # None /\ e \in body.text => body' # None /\ e \in body'.text,
           \A u \in Uploads : Home(u) = d /\ job'[u] # None =>
                \/ u \in local'[d].newer
                \/ job'[u].step \notin {"head"} \cup Clearing
                \/ job'[u].step = "head" /\ body' # None /\ e \in body'.text
                \/ /\ job[u] # None /\ u \notin local[d].newer
                   /\ job'[u].step = "head" => job[u].step = "head"
                   /\ job'[u].step \in Clearing => job[u].step \in Clearing
    PROVE  Held(d, e)'
<1>1. \A u \in Uploads : Home(u)' = Home(u)
  BY Zenon, HomesSame
<1>2. \A u \in Uploads : Spares(u, d, e)
  BY DEF Held
<1>3. "head" \notin Clearing
  BY DEF Clearing
<1>4. ASSUME NEW u \in Uploads
      PROVE  Spares(u, d, e)'
  <2>1. Spares(u, d, e) /\ Home(u)' = Home(u)
    BY Zenon, <1>1, <1>2
  <2> SUFFICES ASSUME job'[u] # None, Home(u) = d, job'[u].step \in {"head"} \cup Clearing,
                      u \notin local'[d].newer
               PROVE  job'[u].step = "head" /\ body' # None /\ e \in body'.text
    BY Zenon, <2>1 DEF Spares
  <2> QED
    BY Zenon, <1>3, <2>1 DEF Spares
<1>5. e \in local'[d].doc.text
  BY Zenon DEF Held
<1> QED
  BY Zenon, <1>4, <1>5 DEF Held

\* A calm step loses nothing.
LEMMA KeptCalm ==
    ASSUME Shape, Kept, Calm
    PROVE  Kept'
<1> SUFFICES ASSUME NEW e \in Edits, fate'[e] \in Safe, e \notin settled'
             PROVE  Stored(e)' \/ \E d \in Devices : Held(d, e)'
  BY DEF Kept
<1>1. UNCHANGED <<head, body, local, dev, settled>> /\ fate[e] \in Safe
  BY DEF Calm
<1>2. CASE Stored(e)
  BY Zenon, <1>1, <1>2 DEF Stored
<1>3. ASSUME NEW d \in Devices, Held(d, e)
      PROVE  Held(d, e)'
  <2>1. local[d] # None
    BY <1>3 DEF Held
  <2>2. \A u \in Uploads : job'[u] # None =>
            /\ job[u] # None /\ (job'[u].step = "head" => job[u].step = "head")
            /\ job'[u].step \in Clearing => job[u].step \in Clearing
    BY DEF Calm, Tame
  <2> QED
    BY Zenon, <1>1, <1>3, <2>1, <2>2, HeldStill
<1> QED
  BY <1>1, <1>2, <1>3, KeptFor

\* A device put: the composer has all of the copy it replaces.
LEMMA KeptPutting ==
    ASSUME Shape, Owned, Kept, NEW c \in Composers, Acts(c), Live(c), Putting(c)
    PROVE  Kept'
<1> SUFFICES ASSUME NEW e \in Edits, fate'[e] \in Safe, e \notin settled'
             PROVE  Stored(e)' \/ \E d \in Devices : Held(d, e)'
  BY Zenon DEF Kept
<1>1. /\ UNCHANGED <<head, body, dev, settled>> /\ fate' = Saved(doc[c].text)
      /\ local' = [local EXCEPT ![dev[c]] = CopyOf(c)] /\ \A u \in Uploads : job'[u] = job[u]
  BY Zenon DEF Putting, Acts
<1>2. dev[c] \in Devices /\ \A u \in Uploads : Home(u)' = Home(u)
  BY Zenon, <1>1, HomesSame
<1>3. local'[dev[c]] = CopyOf(c) /\ \A d \in Devices \ {dev[c]} : local'[d] = local[d]
  <2>1. local \in [Devices -> Copies \cup {None}]
    BY DEF Shape, TypeOK
  <2> QED
    BY Zenon, <1>1, <1>2, <2>1
<1>4. CASE e \in doc[c].text
  <2>1. /\ CopyOf(c).doc.text = doc[c].text
        /\ CopyOf(c).newer = {u \in Uploads : job[u] # None /\ Home(u) = dev[c]}
    BY Zenon DEF CopyOf
  <2>2. CopyOf(c) # None
    <3>1. doc[c] \in Docs /\ base[c] \in Bases
      BY DEF Shape, TypeOK
    <3>2. CopyOf(c) \in Copies
      BY Zenon, <3>1 DEF CopyOf, Copies
    <3> QED
      BY Zenon, <3>2, DraftsAssumption
  <2>3. \A u \in Uploads : Spares(u, dev[c], e)'
    BY Zenon, <1>1, <1>2, <1>3, <2>1 DEF Spares
  <2>4. ASSUME NEW d \in Devices, d = dev[c]
        PROVE  Held(d, e)'
    <3>1. local'[d] # None /\ e \in local'[d].doc.text
      BY <1>3, <1>4, <2>1, <2>2, <2>4
    <3>2. \A u \in Uploads : Spares(u, d, e)'
      BY Zenon, <1>1, <2>3, <2>4
    <3> QED
      BY Zenon, <3>1, <3>2 DEF Held
  <2> QED
    BY <1>2, <2>4
<1>5. CASE e \notin doc[c].text
  <2>1. fate[e] \in Safe /\ e \notin settled
    BY Zenon, <1>1, <1>5, FateSafe
  <2>2. CASE Stored(e)
    BY Zenon, <1>1, <2>2 DEF Stored
  <2>3. ASSUME NEW d \in Devices, Held(d, e)
        PROVE  Held(d, e)'
    <3>1. local[d] # None /\ e \in local[d].doc.text
      BY Zenon, <2>3 DEF Held
    <3>2. d # dev[c]
      BY Zenon, <1>5, <3>1 DEF Owned, LiveHasCopy
    <3>3. local'[d] = local[d]
      BY <1>3, <3>2
    <3>4. UNCHANGED <<dev, body>> /\ local'[d] # None /\ local'[d].doc.text = local[d].doc.text
      BY <1>1, <3>1, <3>3
    <3>5. \A u \in Uploads : Home(u) = d /\ job'[u] # None =>
              \/ u \in local'[d].newer
              \/ job'[u].step \notin {"head"} \cup Clearing
              \/ job'[u].step = "head" /\ body' # None /\ e \in body'.text
              \/ /\ job[u] # None /\ u \notin local[d].newer
                 /\ job'[u].step = "head" => job[u].step = "head"
                 /\ job'[u].step \in Clearing => job[u].step \in Clearing
      BY <1>1, <3>3
    <3> QED
      BY Zenon, <2>3, <3>4, <3>5, HeldStill
  <2> QED
    BY Zenon, <2>1, <2>2, <2>3, KeptFor
<1> QED
  BY <1>4, <1>5

\* A save that starts is far from clearing the copy.
LEMMA KeptStarting ==
    ASSUME Shape, Kept, NEW j \in Uploads, UNCHANGED <<head, body, dev, fate, settled>>,
           job'[j].step \in {"body", "parts"}, \A u \in Uploads \ {j} : job'[u] = job[u],
           \A d \in Devices : local[d] # None =>
                /\ local'[d] # None /\ local'[d].doc = local[d].doc
                /\ local[d].newer \subseteq local'[d].newer \cup {j}
    PROVE  Kept'
<1> SUFFICES ASSUME NEW e \in Edits, fate'[e] \in Safe, e \notin settled'
             PROVE  Stored(e)' \/ \E d \in Devices : Held(d, e)'
  BY Zenon DEF Kept
<1>1. fate[e] \in Safe /\ e \notin settled
  BY Zenon
<1>2. CASE Stored(e)
  BY Zenon, <1>2 DEF Stored
<1>3. ASSUME NEW d \in Devices, Held(d, e)
      PROVE  Held(d, e)'
  <2>1. local[d] # None
    BY Zenon, <1>3 DEF Held
  <2>2. job'[j].step \notin {"head"} \cup Clearing
    BY Zenon DEF Clearing
  <2>3. \A u \in Uploads : job'[u] # None =>
            \/ u \in local'[d].newer
            \/ job'[u].step \notin {"head"} \cup Clearing
            \/ u \notin local[d].newer /\ job'[u] = job[u]
    BY <2>1, <2>2
  <2>4. local'[d] # None /\ local'[d].doc.text = local[d].doc.text
    BY <2>1
  <2>5. \A u \in Uploads : Home(u) = d /\ job'[u] # None =>
            \/ u \in local'[d].newer
            \/ job'[u].step \notin {"head"} \cup Clearing
            \/ job'[u].step = "head" /\ body' # None /\ e \in body'.text
            \/ /\ job[u] # None /\ u \notin local[d].newer
               /\ job'[u].step = "head" => job[u].step = "head"
               /\ job'[u].step \in Clearing => job[u].step \in Clearing
    BY Zenon, <2>3
  <2> QED
    BY Zenon, <1>3, <2>4, <2>5, HeldStill
<1> QED
  BY Zenon, <1>1, <1>2, <1>3, KeptFor

\* A removal takes only what its composer discards or has sent.
LEMMA KeptRemoving ==
    ASSUME Shape, Kept, NEW c \in Composers, Acts(c), Removing(c)
    PROVE  Kept'
<1> SUFFICES ASSUME NEW e \in Edits, fate'[e] \in Safe, e \notin settled'
             PROVE  Stored(e)' \/ \E d \in Devices : Held(d, e)'
  BY Zenon DEF Kept
<1>1. /\ fate[e] \in Safe /\ e \notin settled /\ UNCHANGED dev
      /\ head' # head \/ body' # body => body = None \/ e \notin body.text
      /\ local' # local => local[dev[c]] = None \/ e \notin local[dev[c]].doc.text
      /\ \A u \in Uploads : job'[u] = job[u]
  BY Zenon DEF Removing, Acts
<1>2. CASE Stored(e)
  BY Zenon, <1>1, <1>2 DEF Stored
<1>3. ASSUME NEW d \in Devices, Held(d, e)
      PROVE  Held(d, e)'
  <2>1. local[d] # None /\ e \in local[d].doc.text
    BY Zenon, <1>3 DEF Held
  <2>2. local'[d] = local[d]
    <3>1. local \in [Devices -> Copies \cup {None}]
      BY DEF Shape, TypeOK
    <3>2. CASE local' = local
      BY <3>2
    <3>3. CASE local' # local
      <4>1. d # dev[c] /\ local' = [local EXCEPT ![dev[c]] = None]
        BY Zenon, <1>1, <2>1, <3>3 DEF Removing
      <4> QED
        BY <3>1, <4>1
    <3> QED
      BY <3>2, <3>3
  <2> QED
    BY Zenon, <1>1, <1>3, <2>1, <2>2, HeldStill
<1> QED
  BY Zenon, <1>1, <1>2, <1>3, KeptFor

\* What the new body lacks of the old one has been given up: a save that names
\* the stored version has all of it.
LEMMA PutKeepsText ==
    ASSUME Shape, BasesCurrent, NEW j \in Uploads, Ticks(j), BodyPut(j),
           NEW e \in Edits, fate'[e] \in Safe
    PROVE  fate[e] \in Safe /\ (body # None /\ e \in body.text => e \in job[j].doc.text)
<1>0. job[j] \in Saves /\ body \in Bodies \cup {None} /\ job[j] # None
  BY DEF Ticks, Shape, TypeOK
<1>1. fate' = Overwritten(j)
  BY Zenon DEF BodyPut
<1>2. CASE body = None
  BY Zenon, <1>1, <1>2 DEF Overwritten
<1> DEFINE es == body.text \ job[j].doc.text
<1>3. ASSUME NEW f \in {"dropped", "overrun"}, fate' = Gone(es, f)
      PROVE  fate[e] \in Safe /\ e \notin es
  <2>1. Gone(es, f)[e] \in Safe => e \notin es /\ fate[e] \in Safe
    BY Zenon, FateSafe
  <2> QED
    BY <1>3, <2>1
<1>4. CASE body # None /\ job[j].force
  <2>1. fate' = Gone(es, "dropped")
    BY Zenon, <1>1, <1>4 DEF Overwritten
  <2> QED
    BY Zenon, <1>3, <2>1
<1>5. CASE body # None /\ ~job[j].force /\ (job[j].base.body = 0 \/ removed)
  <2>1. fate' = Gone(es, "overrun")
    BY <1>1, <1>5 DEF Overwritten
  <2> QED
    BY <1>3, <2>1
<1>6. CASE body # None /\ ~job[j].force /\ job[j].base.body # 0 /\ ~removed
  <2>1. fate' = fate
    BY <1>1, <1>6 DEF Overwritten
  <2>2. job[j].base.body = body.ver
    BY Zenon, <1>6 DEF BodyPut, Stale, Ver
  <2>3. Current(job[j].doc.text, job[j].base.body, body)
    BY Zenon, <1>0, <1>6 DEF BasesCurrent
  <2> QED
    BY <1>6, <2>1, <2>2, <2>3 DEF Current
<1> QED
  BY Zenon, <1>2, <1>4, <1>5, <1>6

\* The put of a body: what it replaces it has, or met as a conflict.
LEMMA KeptBodyPut ==
    ASSUME Shape, Owned, BasesCurrent, Kept, NEW j \in Uploads, Ticks(j), BodyPut(j),
           UNCHANGED <<head, local, base, settled, removed>>
    PROVE  Kept'
<1> SUFFICES ASSUME NEW e \in Edits, fate'[e] \in Safe, e \notin settled'
             PROVE  Stored(e)' \/ \E d \in Devices : Held(d, e)'
  BY Zenon DEF Kept
<1>1. /\ fate[e] \in Safe /\ e \notin settled
      /\ body # None /\ e \in body.text => e \in job[j].doc.text
  BY PutKeepsText
<1>2. body' # None /\ body'.text = job[j].doc.text
  <2>1. body' = [ver |-> Ver(body) + 1, text |-> job[j].doc.text]
    BY DEF BodyPut
  <2>2. body' # None
    BY Zenon, <2>1, PutIsThere DEF Shape, Ticks
  <2> QED
    BY <2>1, <2>2
<1>3. CASE Stored(e)
  BY Zenon, <1>1, <1>2, <1>3 DEF Stored
<1>4. ASSUME NEW d \in Devices, Held(d, e)
      PROVE  Held(d, e)'
  <2>1. local[d] # None /\ e \in local[d].doc.text
    BY Zenon, <1>4 DEF Held
  <2>2. /\ UNCHANGED dev /\ job[j] # None /\ \A u \in Uploads \ {j} : job'[u] = job[u]
        /\ job'[j] # None => job'[j].step = "head"
    BY Zenon, TicksOk DEF Ticks, BodyPut
  <2>3. Home(j) = d /\ j \notin local[d].newer => e \in job[j].doc.text
    BY Zenon, <2>1, <2>2 DEF Owned, CopySaved
  <2>4. \A u \in Uploads : Home(u) = d /\ job'[u] # None =>
            \/ u \in local[d].newer
            \/ job'[u].step = "head" /\ e \in body'.text
            \/ u \notin local[d].newer /\ job'[u] = job[u]
    BY Zenon, <1>2, <2>2, <2>3
  <2> QED
    BY Zenon, <1>1, <1>2, <1>4, <2>1, <2>2, <2>4, HeldStill
<1> QED
  BY Zenon, <1>1, <1>3, <1>4, KeptFor

\* The row is put: a copy that this save may now clear is in the body stored.
LEMMA KeptHeadPut ==
    ASSUME Shape, Kept, NEW j \in Uploads, Ticks(j), HeadPut(j), job[j].step = "head",
           UNCHANGED <<body, local, settled, removed>>
    PROVE  Kept'
<1> SUFFICES ASSUME NEW e \in Edits, fate'[e] \in Safe, e \notin settled'
             PROVE  Stored(e)' \/ \E d \in Devices : Held(d, e)'
  BY Zenon DEF Kept
<1>1. head' # None
  BY Zenon, PutIsThere DEF Shape, Ticks, HeadPut
<1>2. CASE body # None /\ e \in body.text
  BY Zenon, <1>1, <1>2 DEF Stored
<1>3. CASE ~(body # None /\ e \in body.text)
  <2>1. fate[e] \in Safe
    <3>1. CASE body = None
      BY Zenon, <3>1 DEF HeadPut
    <3>2. CASE body # None
      <4> DEFINE es == job[j].doc.text \cap body.text
      <4>1. fate' = Saved(es) /\ e \notin es
        BY Zenon, <1>3, <3>2 DEF HeadPut
      <4>2. Saved(es)[e] \in Safe => e \in es \/ fate[e] \in Safe
        BY Zenon, FateSafe
      <4> QED
        BY Zenon, <4>1, <4>2
    <3> QED
      BY Zenon, <3>1, <3>2
  <2>2. PICK d \in Devices : Held(d, e)
    BY <1>3, <2>1, KeptFor DEF Stored
  <2>3. local[d] # None
    BY <2>2 DEF Held
  <2>4. UNCHANGED dev /\ job[j] # None /\ \A u \in Uploads \ {j} : job'[u] = job[u]
    BY Zenon, TicksOk DEF Ticks
  <2>5. Home(j) = d => j \in local[d].newer
    BY Zenon, <1>3, <2>2, <2>4 DEF Held, Spares
  <2>6. \A u \in Uploads : Home(u) = d => u \in local[d].newer \/ (u \notin local[d].newer /\ job'[u] = job[u])
    BY Zenon, <2>4, <2>5
  <2>7. Held(d, e)'
    BY Zenon, <2>2, <2>3, <2>4, <2>6, HeldStill
  <2> QED
    BY <2>7
<1> QED
  BY Zenon, <1>2, <1>3

\* The copy is deleted: if a newer one was put after clearLocal() read it, its
\* edits are raced; what is safe of another copy is not touched.
LEMMA KeptCleared ==
    ASSUME Shape, Kept, NEW j \in Uploads, Ticks(j), Cleared(j)
    PROVE  Kept'
<1> SUFFICES ASSUME NEW e \in Edits, fate'[e] \in Safe, e \notin settled'
             PROVE  Stored(e)' \/ \E d \in Devices : Held(d, e)'
  BY DEF Kept
<1>1. /\ UNCHANGED <<head, body, dev, settled>> /\ job[j] # None /\ job[j].step = "clear" /\ job'[j] = None
      /\ \A u \in Uploads \ {j} : job'[u] = job[u]
      /\ fate[e] \in Safe
      /\ local[Home(j)] # None /\ j \in local[Home(j)].newer => e \notin local[Home(j)].doc.text
      /\ \A b \in Devices \ {Home(j)} : local'[b] = local[b]
  BY Zenon, TicksOk DEF Ticks, Cleared
<1>2. CASE Stored(e)
  BY Zenon, <1>1, <1>2 DEF Stored
<1>3. ASSUME NEW d \in Devices, Held(d, e)
      PROVE  Held(d, e)'
  <2>1. local[d] # None /\ e \in local[d].doc.text /\ Spares(j, d, e)
    BY <1>3 DEF Held
  <2>2. d # Home(j)
    BY Zenon, <1>1, <2>1 DEF Spares, Clearing
  <2>3. local'[d] = local[d]
    BY Zenon, <1>1, <2>2
  <2>4. \A u \in Uploads : job'[u] # None => job'[u] = job[u]
    BY Zenon, <1>1
  <2>5. \A u \in Uploads : Home(u) = d /\ job'[u] # None =>
            \/ u \in local'[d].newer
            \/ job'[u].step \notin {"head"} \cup Clearing
            \/ job'[u].step = "head" /\ body' # None /\ e \in body'.text
            \/ /\ job[u] # None /\ u \notin local[d].newer
               /\ job'[u].step = "head" => job[u].step = "head"
               /\ job'[u].step \in Clearing => job[u].step \in Clearing
    BY <2>3, <2>4
  <2>6. UNCHANGED <<dev, body>> /\ local'[d] # None /\ local'[d].doc.text = local[d].doc.text
    BY Zenon, <1>1, <2>1, <2>3
  <2> QED
    BY Zenon, <1>3, <2>5, <2>6, HeldStill
<1> QED
  BY Zenon, <1>1, <1>2, <1>3, KeptFor

\* The settle pass finds the draft gone: the edits of its copy are settled.
LEMMA KeptAsked ==
    ASSUME Shape, Owned, Kept, NEW j \in Uploads, Ticks(j), Asked(j)
    PROVE  Kept'
<1> SUFFICES ASSUME NEW e \in Edits, fate'[e] \in Safe, e \notin settled'
             PROVE  Stored(e)' \/ \E d \in Devices : Held(d, e)'
  BY DEF Kept
<1>1. /\ UNCHANGED <<head, body, local, dev, fate>> /\ job[j] # None
      /\ \A u \in Uploads \ {j} : job'[u] = job[u]
  BY Zenon, TicksOk DEF Ticks, Asked
<1>2. e \notin settled /\ (job'[j] # None => e \notin job[j].doc.text)
  BY Zenon DEF Asked
<1>3. CASE Stored(e)
  BY <1>1, <1>3 DEF Stored
<1>4. ASSUME NEW d \in Devices, Held(d, e)
      PROVE  Held(d, e)'
  <2>1. local[d] # None /\ e \in local[d].doc.text
    BY <1>4 DEF Held
  <2>2. Home(j) = d /\ job'[j] # None => j \in local[d].newer
    BY Zenon, <1>1, <1>2, <2>1 DEF Owned, CopySaved
  <2>3. \A u \in Uploads : Home(u) = d /\ job'[u] # None =>
            u \in local[d].newer \/ (u \notin local[d].newer /\ job'[u] = job[u])
    BY <1>1, <2>2
  <2> QED
    BY Zenon, <1>1, <1>4, <2>1, <2>3, HeldStill
<1> QED
  BY Zenon, <1>1, <1>2, <1>3, <1>4, KeptFor

\* A composer that opens takes nothing away.
LEMMA KeptOpens ==
    ASSUME Shape, Kept, NEW c \in Composers, Opens(c)
    PROVE  Kept'
<1>1. UNCHANGED <<head, body, local, job, dev, fate, settled>>
  BY Zenon DEF Opens
<1>2. \A u \in Uploads : Home(u)' = Home(u)
  BY <1>1, HomesSame
<1>3. \A e : Stored(e)' <=> Stored(e)
  BY Zenon, <1>1 DEF Stored
<1>4. \A d \in Devices, e \in Edits : Held(d, e) => Held(d, e)'
  BY Zenon, <1>1, <1>2 DEF Held, Spares
<1> QED
  BY <1>1, <1>3, <1>4 DEF Kept

\* Every step keeps what was saved.
LEMMA KeptNext ==
    ASSUME Shape, Owned, BasesCurrent, Kept, [Next]_vars
    PROVE  Kept'
<1>1. ASSUME NEW c \in Composers, NEW k \in {"relay", "keep"}, Acts(c), Starting(c, k)
      PROVE  Kept'
  <2>1. <<c, k>> \in Uploads
    BY Zenon, Keys
  <2>2. \A d \in Devices : local[d] # None =>
            /\ local'[d] # None /\ local'[d].doc = local[d].doc
            /\ local[d].newer \subseteq local'[d].newer \cup {<<c, k>>}
    BY Zenon, <1>1 DEF Starting
  <2> QED
    BY Zenon, <1>1, <2>1, <2>2, KeptStarting DEF Starting, Acts
<1>2. ASSUME NEW d \in Devices, Settles(d)
      PROVE  Kept'
  <2>1. <<d, "settle">> \in Uploads /\ \A u \in Uploads \ {<<d, "settle">>} : job'[u] = job[u]
    BY Zenon, <1>2, Keys DEF Settles
  <2>2. \A i \in Devices : local[i] # None =>
            /\ local'[i] # None /\ local'[i].doc = local[i].doc
            /\ local[i].newer \subseteq local'[i].newer \cup {<<d, "settle">>}
    BY Zenon, <1>2 DEF Settles
  <2> QED
    BY Zenon, <1>2, <2>1, <2>2, KeptStarting DEF Settles
<1> QED
  BY Zenon, <1>1, <1>2, StepOk, KeptCalm, KeptPutting, KeptRemoving, KeptBodyPut, KeptHeadPut, KeptCleared,
     KeptAsked, KeptOpens DEF Effect

\* At first nothing was saved.
LEMMA KeptInit == Init => BasesCurrent /\ Kept
<1> SUFFICES ASSUME Init PROVE BasesCurrent /\ Kept
  OBVIOUS
<1>1. \A u \in Uploads : job[u] = None
  BY Keys DEF Init
<1>2. \A d \in Devices : local[d] = None
  BY DEF Init
<1>3. \A c \in Composers : base[c].body = 0
  BY DEF Init, NewBase
<1>4. \A e \in Edits : fate[e] \notin Safe
  BY DEF Init, Safe
<1> QED
  BY Zenon, <1>1, <1>2, <1>3, <1>4 DEF BasesCurrent, Current, Kept

\* An edit that a composer was told is saved, or kept on this device, is in the
\* stored draft or in the copy of some device: whatever saves of whatever
\* composers interleave, fail or answer late, unless the user let it go
\* (discard, keep mine, a settled copy) or the code's own gaps took it, which
\* `fate' names.
THEOREM SavedIsKept == Spec => []SavedStays
<1> DEFINE Inv == Owned /\ BeginsEmpty /\ BasesCurrent /\ Kept
<1>1. Init => Inv
  BY OwnedInit, KeptInit
<1>2. Shape /\ BodyFirst /\ Inv /\ [Next]_vars => Inv'
  BY OwnedNext, CurrentNext, KeptNext DEF Owned
<1>3. Inv => SavedStays
  BY DEF Kept, Stored, Held, SavedStays, Somewhere, Safe
<1> HIDE DEF Inv
<1> QED
  BY <1>1, <1>2, <1>3, ShapeHolds, BodyFirstHolds, PTL DEF Spec

=============================================================================
