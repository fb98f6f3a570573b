---------------------------- MODULE BridgeProofs ----------------------------
(* Proofs about what the outbound bridge does with an envelope, for any        *)
(* envelopes, domains, workers and size of its memory: a delivery is made once *)
(* while it is remembered, what is removed stays removed, and nothing leaves   *)
(* the queue unaccounted for.  On top of the claims and the pool, each needs   *)
(* to know what a worker carries from one step of an attempt to the next.      *)
EXTENDS BridgePoolProofs

\* The memory of deliveries: what it holds was accepted, what it does not hold
\* was not since it started over, and a delivery under way is not in it.
MemorySound ==
    /\ seen \subseteq reached
    /\ \A k \in Keys : k \notin seen => sent[k] = 0
    /\ \A w \in Workers : worker[w].at = "deliver" => Key[worker[w].msg] \notin seen

\* The poll loop holds an opened envelope of the mailbox only while it is there.
OpenedIsStored ==
    pass # None /\ pass.opened /\ pass.msg \in Mailbox => place[pass.msg] = "stored"

\* A worker that is about to remove an envelope has a verdict on it.
FinishHasVerdict ==
    \A w \in Workers : worker[w].at = "finish" =>
        worker[w].msg \in failed \/ Key[worker[w].msg] \in reached

IInv ==
    /\ HandsInv
    /\ MemorySound /\ AtMostOnce
    /\ OpenedIsStored /\ RemovedStaysRemoved
    /\ FinishHasVerdict /\ NothingSilent

-----------------------------------------------------------------------------
(* Deliveries                                                              *)

\* One worker drains a domain, so no two workers deliver the same message.
LEMMA OneDelivery ==
    ASSUME Types, PoolSound, NEW w \in Workers, NEW v \in Workers,
           worker[w].at = "deliver", worker[v].at = "deliver",
           Key[worker[w].msg] = Key[worker[v].msg]
    PROVE  v = w
<1>1. worker[w].msg \in Msgs /\ worker[v].msg \in Msgs
  BY DEF Types, BusyHasMsg, Working
<1>2. With(w, worker[w].msg) /\ With(v, worker[v].msg)
  BY DEF With, Busy, Working
<1>3. Domain[worker[w].msg] = Domain[worker[v].msg]
  BY <1>1, BridgeAssumption
<1> QED
  BY <1>1, <1>2, <1>3 DEF PoolSound

\* The bridge starts with an empty memory of deliveries.
LEMMA MemoryInit == Init => MemorySound /\ AtMostOnce
  BY DEF Init, MemorySound, AtMostOnce, Unsent, Off

\* A memory that stays as it is stays sound if no worker begins to deliver.
LEMMA MemoryUntouched ==
    ASSUME MemorySound, AtMostOnce, UNCHANGED <<seen, sent>>, reached \subseteq reached',
           \A v \in Workers : worker'[v].at = "deliver" => worker'[v] = worker[v]
    PROVE  MemorySound' /\ AtMostOnce'
  BY DEF MemorySound, AtMostOnce

\* Every step keeps the memory sound: a delivery begins only if it is not remembered, and
\* nobody else can mark it meanwhile.
LEMMA MemoryStep ==
    Types /\ PoolSound /\ MemorySound /\ AtMostOnce /\ [Next]_vars => MemorySound' /\ AtMostOnce'
<1> SUFFICES ASSUME Types, PoolSound, MemorySound, AtMostOnce, [Next]_vars
             PROVE  MemorySound' /\ AtMostOnce'
  OBVIOUS
<1>1. ASSUME NEW m \in Msgs, Arrive(m) \/ Age(m) \/ Due(m)
      PROVE  MemorySound' /\ AtMostOnce'
  BY <1>1, MemoryUntouched DEF Arrive, Age, Due, history
<1>2. ASSUME NEW complete \in BOOLEAN, List(complete)
      PROVE  MemorySound' /\ AtMostOnce'
  BY <1>2, MemoryUntouched DEF List, history
<1>3. ASSUME NEW m \in Msgs,
             \/ Claim(m) \/ SkipFull(m) \/ Open(m) \/ LoadLater(m) \/ Drop(m)
             \/ EnqueueFull(m) \/ ExpireUnsent(m)
      PROVE  MemorySound' /\ AtMostOnce'
  <2>1. UNCHANGED <<seen, sent, reached, worker>>
    BY Zenon, <1>3 DEF Claim, SkipFull, Open, LoadLater, Drop, EnqueueFull, ExpireUnsent, Failed, history
  <2> QED
    BY <2>1, MemoryUntouched
<1>4. ASSUME NEW m \in Msgs, Enqueue(m)
      PROVE  MemorySound' /\ AtMostOnce'
  <2>1. PICK w \in Workers : EnqueueEffect(m, w)
    BY <1>4, EnqueueSteps
  <2>2. UNCHANGED <<seen, sent, reached>>
    BY <1>4 DEF Enqueue, history
  <2>3. \A v \in Workers : worker'[v].at = "deliver" => worker'[v] = worker[v]
    BY <2>1 DEF EnqueueEffect
  <2> QED
    BY <2>2, <2>3, MemoryUntouched
<1>5. ASSUME NEW w \in Workers, Take(w) \/ Quiet(w) \/ Stop(w)
      PROVE  MemorySound' /\ AtMostOnce'
  <2>1. UNCHANGED <<seen, sent, reached>>
    BY <1>5 DEF Take, Quiet, Stop, history
  <2>2. worker'[w].at # "deliver" /\ \A v \in Workers \ {w} : worker'[v] = worker[v]
    <3>1. CASE Take(w)
      BY <3>1, TakeHolds
    <3>2. CASE Quiet(w) \/ Stop(w)
      BY <3>2, GotoOk DEF Quiet, Stop, Phases, Working
    <3> QED
      BY <1>5, <3>1, <3>2
  <2> QED
    BY <2>1, <2>2, MemoryUntouched
<1>6. ASSUME NEW w \in Workers, Check(w)
      PROVE  MemorySound' /\ AtMostOnce'
  <2>1. WorkEffect(w)
    BY <1>6, WorkSteps
  <2>2. UNCHANGED <<seen, sent, reached>>
    BY <1>6 DEF Check, Fail, history
  <2>3. worker'[w].at = "deliver" => Key[worker[w].msg] \notin seen
    <3>1. CASE Goto(w, "loop", None) \/ Goto(w, "finish", worker[w].msg)
      BY <2>1, <3>1, GotoOk DEF WorkEffect, Phases, Working
    <3> QED
      BY <1>6, <3>1 DEF Check, Retry, Fail, Verdict
  <2>4. worker'[w].at = "deliver" => worker'[w].msg = worker[w].msg
    BY <2>1 DEF WorkEffect
  <2> QED
    BY <2>1, <2>2, <2>3, <2>4 DEF WorkEffect, MemorySound, AtMostOnce
<1>7. ASSUME NEW w \in Workers, NotAccepted(w) \/ AnswerLost(w) \/ Finish(w)
      PROVE  MemorySound' /\ AtMostOnce'
  <2>1. WorkEffect(w)
    BY <1>7, WorkSteps
  <2>2. UNCHANGED <<seen, sent>> /\ reached \subseteq reached'
    BY <1>7 DEF NotAccepted, AnswerLost, Finish, Fail, history
  <2>3. worker'[w].at # "deliver"
    <3>1. Goto(w, "loop", None) \/ Goto(w, "finish", worker[w].msg)
      BY <1>7 DEF NotAccepted, AnswerLost, Finish, Retry, Fail, Verdict
    <3> QED
      BY <2>1, <3>1, GotoOk DEF WorkEffect, Phases, Working
  <2> QED
    BY <2>1, <2>2, <2>3, MemoryUntouched DEF WorkEffect
<1>8. ASSUME NEW w \in Workers, Accepted(w)
      PROVE  MemorySound' /\ AtMostOnce'
  <2>1. WorkEffect(w) /\ worker[w].at = "deliver"
    BY <1>8, WorkSteps DEF Accepted
  <2>2. PICK k \in Keys : k = Key[worker[w].msg]
    BY <2>1, Constants DEF WorkEffect
  <2>3. sent \in [Keys -> Nat] /\ k \notin seen /\ sent[k] = 0
    BY <2>1, <2>2 DEF Types, TypeOK, MemorySound
  <2>4. /\ reached' = reached \cup {k}
        /\ \/ seen' = {k} /\ sent' = [Unsent EXCEPT ![k] = 1]
           \/ seen' = seen \cup {k} /\ sent' = [sent EXCEPT ![k] = sent[k] + 1]
    BY <1>8, <2>2 DEF Accepted, Mark
  <2>5. /\ sent'[k] = 1
        /\ \A j \in Keys \ {k} : sent'[j] \in {0, sent[j]}
        /\ \A j \in Keys : j \notin seen' => sent'[j] = 0
    <3>1. CASE seen' = {k} /\ sent' = [Unsent EXCEPT ![k] = 1]
      <4>1. sent' = [j \in Keys |-> IF j = k THEN 1 ELSE 0]
        BY <3>1 DEF Unsent
      <4> QED
        BY <3>1, <4>1
    <3>2. CASE seen' = seen \cup {k} /\ sent' = [sent EXCEPT ![k] = sent[k] + 1]
      <4>1. sent'[k] = 1 /\ \A j \in Keys \ {k} : sent'[j] = sent[j]
        BY <2>3, <3>2
      <4> QED
        BY <3>2, <4>1 DEF MemorySound
    <3> QED
      BY <2>4, <3>1, <3>2
  <2>6. worker'[w].at # "deliver"
    BY <1>8, <2>1, GotoOk DEF Accepted, Verdict, WorkEffect, Phases, Working
  <2>7. ASSUME NEW v \in Workers, worker'[v].at = "deliver"
        PROVE  Key[worker'[v].msg] \notin seen'
    <3>1. v # w /\ worker'[v] = worker[v]
      BY <2>1, <2>6, <2>7 DEF WorkEffect
    <3>2. Key[worker[v].msg] \notin seen /\ Key[worker[v].msg] # k
      BY <2>1, <2>2, <2>7, <3>1, OneDelivery DEF MemorySound
    <3> QED
      BY <2>4, <3>1, <3>2
  <2>8. seen' \subseteq reached'
    BY <2>4 DEF MemorySound
  <2>9. AtMostOnce'
    BY <2>3, <2>5 DEF AtMostOnce
  <2> QED
    BY <2>5, <2>7, <2>8, <2>9 DEF MemorySound
<1>9. CASE Crash
  BY <1>9 DEF Crash, MemorySound, AtMostOnce, Unsent, Off
<1>10. CASE UNCHANGED vars
  BY <1>10, MemoryUntouched DEF vars, history
<1> QED
  BY <1>1, <1>2, <1>3, <1>4, <1>5, <1>6, <1>7, <1>8, <1>9, <1>10 DEF Next, Dispatch, Work

-----------------------------------------------------------------------------
(* Removals                                                                *)

Removals == OpenedIsStored /\ RemovedStaysRemoved

\* The bridge starts with nothing in hand.
LEMMA RemovalInit == Init => Removals
  BY Constants, BridgeAssumption
  DEF Init, Removals, OpenedIsStored, RemovedStaysRemoved, With, Busy, Queued, Off, Working

\* A removal spares what the workers hold and the poll loop has opened, if it is of an
\* envelope that is with neither of them after the step.
LEMMA RemovalSpares ==
    ASSUME Removals, NEW m \in Msgs,
           \A n \in Msgs \ {m} : place'[n] = place[n] \/ place'[n] = "stored",
           \A w \in Workers, n \in Msgs : With(w, n)' => With(w, n) /\ n # m,
           pass' # None /\ pass'.opened /\ pass'.msg \in Mailbox =>
               pass' = pass /\ pass.msg # m
    PROVE  Removals'
  BY BridgeAssumption DEF Removals, OpenedIsStored, RemovedStaysRemoved

\* Nothing is removed, and no worker holds more than before.
LEMMA RemovalUntouched ==
    ASSUME Removals,
           \A n \in Msgs : place'[n] = place[n] \/ place'[n] = "stored",
           \A w \in Workers, n \in Msgs : With(w, n)' => With(w, n),
           pass' # None /\ pass'.opened => pass' = pass
    PROVE  Removals'
  BY BridgeAssumption DEF Removals, OpenedIsStored, RemovedStaysRemoved

\* Every step keeps removed envelopes of the mailbox out of the workers' hands: only who
\* holds an envelope removes it.
LEMMA RemovalStep ==
    Types /\ PoolSound /\ OneHolder /\ Removals /\ [Next]_vars => Removals'
<1> SUFFICES ASSUME Types, PoolSound, OneHolder, Removals, [Next]_vars
             PROVE  Removals'
  OBVIOUS
<1>0. RestOk /\ PassOk(pass)
  BY TypesParts
<1>a. ASSUME UNCHANGED <<jobs, worker>>
      PROVE  \A w \in Workers, n \in Msgs : With(w, n)' <=> With(w, n)
  BY <1>a DEF With, Busy, Queued
<1>b. ASSUME NEW items \in SUBSET Msgs, pass' = PassOn(items)
      PROVE  pass' # None => pass'.msg = None /\ ~pass'.opened
  BY <1>b DEF PassOn
<1> USE Constants
<1>1. ASSUME NEW m \in Msgs, Arrive(m) \/ Age(m) \/ Due(m)
      PROVE  Removals'
  <2>1. UNCHANGED <<jobs, worker, pass>> /\ \A n \in Msgs : place'[n] = place[n] \/ place'[n] = "stored"
    BY <1>0, <1>1 DEF Arrive, Age, Due, pool, queue, RestOk
  <2> QED
    BY <1>a, <2>1, RemovalUntouched
<1>2. ASSUME NEW complete \in BOOLEAN, List(complete)
      PROVE  Removals'
  <2>1. UNCHANGED <<jobs, worker, place>> /\ \E items \in SUBSET Msgs : pass' = PassOn(items)
    BY Zenon, <1>2 DEF List, Stored, pool, queue
  <2> QED
    BY <1>a, <1>b, <2>1, RemovalUntouched
<1>3. ASSUME NEW m \in Msgs, Claim(m)
      PROVE  Removals'
  <2>1. UNCHANGED <<jobs, worker, place>>
    BY <1>3 DEF Claim, pool, queue
  <2>2. pass.items \ {m} \in SUBSET Msgs
    BY <1>0, <1>3 DEF Claim, PassOk
  <2>3. pass' # None => ~pass'.opened
    BY <1>3, <1>b, <2>2 DEF Claim
  <2> QED
    BY <1>a, <2>1, <2>3, RemovalUntouched
<1>4. ASSUME NEW m \in Msgs, SkipFull(m) \/ LoadLater(m) \/ EnqueueFull(m)
      PROVE  Removals'
  <2>1. UNCHANGED <<jobs, worker, place>> /\ \E items \in SUBSET Msgs : pass' = PassOn(items)
    BY <1>0, <1>4 DEF SkipFull, LoadLater, EnqueueFull, Current, Release, PassOk, pool, queue
  <2> QED
    BY <1>a, <1>b, <2>1, RemovalUntouched
<1>5. ASSUME NEW m \in Msgs, Open(m)
      PROVE  Removals'
  <2>1. UNCHANGED <<jobs, worker, place>> /\ pass # None /\ pass.msg = m /\ Loads(m)
        /\ pass' = [pass EXCEPT !.opened = TRUE]
    BY <1>5 DEF Open, Current, pool, queue
  <2>2. pass'.msg = m
    BY <1>0, <2>1 DEF PassOk
  <2>3. OpenedIsStored'
    BY <2>1, <2>2 DEF OpenedIsStored, Loads
  <2> QED
    BY <1>a, <2>1, <2>3, BridgeAssumption DEF Removals, RemovedStaysRemoved
<1>6. ASSUME NEW m \in Msgs, Drop(m) \/ ExpireUnsent(m)
      PROVE  Removals'
  <2>1. UNCHANGED <<jobs, worker>> /\ InPass(m) /\ \E items \in SUBSET Msgs : pass' = PassOn(items)
    BY <1>0, <1>6 DEF Drop, ExpireUnsent, Current, InPass, Release, PassOk, pool
  <2>2. place' = place \/ place' = [place EXCEPT ![m] = "gone"]
    BY Zenon, <1>6 DEF Drop, ExpireUnsent, Remove
  <2>3. \A n \in Msgs \ {m} : place'[n] = place[n]
    BY <1>0, <2>2 DEF RestOk
  <2>4. \A w \in Workers, n \in Msgs : With(w, n)' => With(w, n) /\ n # m
    BY <1>a, <2>1 DEF OneHolder
  <2>5. pass' # None => ~pass'.opened
    BY <1>b, <2>1
  <2> QED
    BY <2>3, <2>4, <2>5, RemovalSpares
<1>7. ASSUME NEW m \in Msgs, Enqueue(m)
      PROVE  Removals'
  <2>1. PICK w \in Workers : EnqueueEffect(m, w)
    BY <1>7, EnqueueSteps
  <2>2. \A v \in Workers, n \in Msgs : With(v, n)' => With(v, n) \/ n = m
    BY <2>1, EnqueueHolds
  <2>3. m \in Mailbox => place[m] = "stored"
    BY <1>7 DEF Enqueue, Current, Removals, OpenedIsStored
  <2>4. UNCHANGED place /\ \E items \in SUBSET Msgs : pass' = PassOn(items)
    BY <1>0, <1>7 DEF Enqueue, Current, PassOk, queue
  <2>5. pass' # None => ~pass'.opened
    BY <1>b, <2>4
  <2> QED
    BY <2>2, <2>3, <2>4, <2>5, BridgeAssumption DEF Removals, OpenedIsStored, RemovedStaysRemoved
<1>8. ASSUME NEW w \in Workers, Take(w)
      PROVE  Removals'
  <2>1. UNCHANGED <<place, pass>>
    BY <1>8 DEF Take, queue
  <2> QED
    BY <1>8, <2>1, TakeHolds, RemovalUntouched
<1>9. ASSUME NEW w \in Workers, Quiet(w) \/ Stop(w)
      PROVE  Removals'
  <2>1. /\ UNCHANGED <<place, pass, jobs>>
        /\ \E step \in {"loop", "stopping", "off"} : Goto(w, step, None)
    BY <1>9 DEF Quiet, Stop, pool, queue
  <2>2. /\ worker'[w].at \in {"loop", "stopping", "off"}
        /\ \A v \in Workers \ {w} : worker'[v] = worker[v]
    BY <2>1, GotoOk DEF Phases, Working
  <2>3. \A v \in Workers, n \in Msgs : With(v, n)' => With(v, n)
    BY <2>1, <2>2 DEF With, Busy, Queued, Working
  <2> QED
    BY <2>1, <2>3, RemovalUntouched
<1>10. ASSUME NEW w \in Workers, Check(w) \/ Accepted(w) \/ NotAccepted(w) \/ AnswerLost(w)
       PROVE  Removals'
  <2>1. UNCHANGED <<place, pass>>
    BY <1>10 DEF Check, Accepted, NotAccepted, AnswerLost, queue
  <2>2. WorkEffect(w)
    BY <1>10, WorkSteps
  <2>3. \A v \in Workers, n \in Msgs : With(v, n)' => With(v, n)
    BY <2>2 DEF WorkEffect, With, Busy, Queued, Working
  <2> QED
    BY <2>1, <2>3, RemovalUntouched
<1>11. ASSUME NEW w \in Workers, Finish(w)
       PROVE  Removals'
  <2>1. PICK m \in Msgs : m = worker[w].msg /\ Busy(w, m)
    BY <1>11, WorkSteps DEF WorkEffect, Busy
  <2>2. ~InPass(m) /\ ~Queued(w, m) /\ \A v \in Workers \ {w} : ~With(v, m)
    BY <2>1 DEF OneHolder, With
  <2>3. UNCHANGED <<pass, jobs>> /\ Goto(w, "loop", None) /\ Remove(m)
    BY <1>11, <2>1 DEF Finish, pool
  <2>4. worker'[w].at = "loop" /\ \A v \in Workers \ {w} : worker'[v] = worker[v]
    BY <2>3, GotoOk DEF Phases, Working
  <2>5. \A v \in Workers, n \in Msgs : With(v, n)' => With(v, n) /\ n # m
    BY <2>2, <2>3, <2>4 DEF With, Busy, Queued, Working
  <2>6. \A n \in Msgs \ {m} : place'[n] = place[n]
    BY <1>0, <2>3, RemoveOk
  <2>7. pass' # None => pass' = pass /\ pass.msg # m
    BY <2>2, <2>3 DEF InPass
  <2> QED
    BY <2>5, <2>6, <2>7, RemovalSpares
<1>12. CASE Crash
  BY <1>12, BridgeAssumption
  DEF Crash, Removals, OpenedIsStored, RemovedStaysRemoved, With, Busy, Queued, Off, Working
<1>13. CASE UNCHANGED vars
  BY <1>13, <1>a, RemovalUntouched DEF vars, pool, queue
<1> QED
  BY <1>1, <1>2, <1>3, <1>4, <1>5, <1>6, <1>7, <1>8, <1>9, <1>10, <1>11, <1>12, <1>13
  DEF Next, Dispatch, Work

-----------------------------------------------------------------------------
(* Verdicts                                                                *)

Verdicts == FinishHasVerdict /\ NothingSilent

\* The bridge starts with nothing removed.
LEMMA VerdictInit == Init => Verdicts
  BY DEF Init, Verdicts, FinishHasVerdict, NothingSilent, Off

\* Verdicts stand: a step that removes nothing without one, and brings no worker to a
\* removal without one, keeps them.
LEMMA VerdictKept ==
    ASSUME Verdicts, failed \subseteq failed', reached \subseteq reached',
           \A n \in Msgs : place'[n] = "gone" =>
               place[n] = "gone" \/ n \in failed' \/ Key[n] \in reached',
           \A v \in Workers : worker'[v].at = "finish" =>
               \/ worker'[v] = worker[v]
               \/ worker'[v].msg \in failed' \/ Key[worker'[v].msg] \in reached'
    PROVE  Verdicts'
  BY DEF Verdicts, FinishHasVerdict, NothingSilent

\* Every step that removes an envelope, or decides to, has a verdict on it.
LEMMA VerdictStep == Types /\ MemorySound /\ Verdicts /\ [Next]_vars => Verdicts'
<1> SUFFICES ASSUME Types, MemorySound, Verdicts, [Next]_vars
             PROVE  Verdicts'
  OBVIOUS
<1>0. RestOk
  BY TypesParts
<1>1. ASSUME NEW m \in Msgs, Arrive(m) \/ Age(m) \/ Due(m)
      PROVE  Verdicts'
  <2>1. UNCHANGED <<worker, failed, reached>>
        /\ \A n \in Msgs : place'[n] = "gone" => place[n] = "gone"
    BY <1>0, <1>1 DEF Arrive, Age, Due, queue, history, RestOk
  <2> QED
    BY <2>1, VerdictKept
<1>2. ASSUME NEW complete \in BOOLEAN, List(complete)
      PROVE  Verdicts'
  BY <1>2, VerdictKept DEF List, queue, history
<1>3. ASSUME NEW m \in Msgs,
             Claim(m) \/ SkipFull(m) \/ Open(m) \/ LoadLater(m) \/ EnqueueFull(m)
      PROVE  Verdicts'
  <2>1. UNCHANGED <<worker, place, failed, reached>>
    BY Zenon, <1>3 DEF Claim, SkipFull, Open, LoadLater, EnqueueFull, queue, history
  <2> QED
    BY <2>1, VerdictKept
<1>4. ASSUME NEW m \in Msgs, Drop(m) \/ ExpireUnsent(m)
      PROVE  Verdicts'
  <2>1. UNCHANGED <<worker, reached>> /\ failed' = failed \cup {m}
    BY Zenon, <1>4 DEF Drop, ExpireUnsent, Failed
  <2>2. place' = place \/ place' = [place EXCEPT ![m] = "gone"]
    BY Zenon, <1>4 DEF Drop, ExpireUnsent, Remove
  <2>3. \A n \in Msgs \ {m} : place'[n] = place[n]
    BY <1>0, <2>2 DEF RestOk
  <2> QED
    BY <2>1, <2>3, VerdictKept
<1>5. ASSUME NEW m \in Msgs, Enqueue(m)
      PROVE  Verdicts'
  <2>1. PICK w \in Workers : EnqueueEffect(m, w)
    BY <1>5, EnqueueSteps
  <2>2. UNCHANGED <<place, failed, reached>>
    BY <1>5 DEF Enqueue, queue, history
  <2>3. \A v \in Workers : worker'[v].at = "finish" => worker'[v] = worker[v]
    BY <2>1 DEF EnqueueEffect
  <2> QED
    BY <2>2, <2>3, VerdictKept
<1>6. ASSUME NEW w \in Workers, Take(w) \/ Quiet(w) \/ Stop(w)
      PROVE  Verdicts'
  <2>1. UNCHANGED <<place, failed, reached>>
    BY <1>6 DEF Take, Quiet, Stop, queue, history
  <2>2. worker'[w].at # "finish" /\ \A v \in Workers \ {w} : worker'[v] = worker[v]
    <3>1. CASE Take(w)
      BY <3>1, TakeHolds
    <3>2. CASE Quiet(w) \/ Stop(w)
      BY <3>2, GotoOk DEF Quiet, Stop, Phases, Working
    <3> QED
      BY <1>6, <3>1, <3>2
  <2> QED
    BY <2>1, <2>2, VerdictKept
<1>7. ASSUME NEW w \in Workers, Check(w) \/ Accepted(w) \/ NotAccepted(w) \/ AnswerLost(w)
      PROVE  Verdicts'
  <2> DEFINE m == worker[w].msg
  <2>1. WorkEffect(w)
    BY <1>7, WorkSteps
  <2>2. UNCHANGED place /\ failed \subseteq failed' /\ reached \subseteq reached'
    BY <1>7 DEF Check, Accepted, NotAccepted, AnswerLost, Fail, queue, history
  <2>3. \/ m \in failed' \/ Key[m] \in reached'
        \/ Goto(w, "loop", None) \/ Goto(w, "deliver", m)
    BY <1>7 DEF Check, Accepted, NotAccepted, AnswerLost, Retry, Fail, history, MemorySound
  <2>4. worker'[w].at = "finish" => m \in failed' \/ Key[m] \in reached'
    BY <2>1, <2>3, GotoOk DEF WorkEffect, Phases, Working
  <2>5. worker'[w].at = "finish" => worker'[w].msg = m
    BY <2>1 DEF WorkEffect
  <2>6. \A v \in Workers \ {w} : worker'[v] = worker[v]
    BY <2>1 DEF WorkEffect
  <2> HIDE DEF m
  <2> QED
    BY <2>2, <2>4, <2>5, <2>6, VerdictKept
<1>8. ASSUME NEW w \in Workers, Finish(w)
      PROVE  Verdicts'
  <2>1. PICK m \in Msgs : m = worker[w].msg
    BY <1>8, WorkSteps DEF WorkEffect
  <2>2. /\ UNCHANGED <<failed, reached>> /\ Remove(m) /\ Goto(w, "loop", None)
        /\ worker[w].at = "finish"
    BY <1>8, <2>1 DEF Finish, history
  <2>3. m \in failed \/ Key[m] \in reached
    BY <2>1, <2>2 DEF Verdicts, FinishHasVerdict
  <2>4. \A n \in Msgs \ {m} : place'[n] = place[n]
    BY <1>0, <2>2, RemoveOk
  <2>5. worker'[w].at = "loop" /\ \A v \in Workers \ {w} : worker'[v] = worker[v]
    BY <2>2, GotoOk DEF Phases, Working
  <2> QED
    BY <2>2, <2>3, <2>4, <2>5, VerdictKept
<1>9. CASE Crash
  BY <1>9, VerdictKept DEF Crash, Off, queue
<1>10. CASE UNCHANGED vars
  BY <1>10, VerdictKept DEF vars, queue, history
<1> QED
  BY <1>1, <1>2, <1>3, <1>4, <1>5, <1>6, <1>7, <1>8, <1>9, <1>10 DEF Next, Dispatch, Work

-----------------------------------------------------------------------------
(* The theorems                                                            *)

\* The inductive invariant holds throughout: at every moment of the poll loop, of the
\* workers and across crashes.
THEOREM Invariance == Spec => []IInv
<1>1. Init => IInv
  BY TypesInit, PoolInit, HolderInit, MemoryInit, RemovalInit, VerdictInit
  DEF IInv, HandsInv, Removals, Verdicts
<1>2. IInv /\ [Next]_vars => IInv'
  BY TypesStep, PoolStep, HolderStep, MemoryStep, RemovalStep, VerdictStep
  DEF IInv, HandsInv, Removals, Verdicts
<1> QED
  BY <1>1, <1>2, PTL DEF Spec

\* A message that was accepted for a recipient is not delivered to them again while the
\* bridge remembers, whatever envelopes carry it and however large the memory is.
THEOREM AtMostOnceHolds == Spec => []AtMostOnce
<1>1. IInv => AtMostOnce
  BY DEF IInv
<1> QED
  BY <1>1, Invariance, PTL

\* The claims, the pool, the queues and the store agree on who has which envelope,
\* and no worker ever has an envelope of the mailbox that was removed.
THEOREM HandsAgreeHolds == Spec => []HandsAgree
<1>1. IInv => HandsAgree
  BY DEF IInv, HandsInv, HandsAgree
<1> QED
  BY <1>1, Invariance, PTL

\* What has left its store was accepted by a server or failed with a verdict.
THEOREM NothingSilentHolds == Spec => []NothingSilent
<1>1. IInv => NothingSilent
  BY DEF IInv
<1> QED
  BY <1>1, Invariance, PTL
=============================================================================
