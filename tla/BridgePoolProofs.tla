-------------------------- MODULE BridgePoolProofs --------------------------
(* Proofs about the bridge's claims and its pool of workers, for any envelopes, *)
(* domains and workers: an envelope is in one hand at a time, and a domain's   *)
(* mail is with one worker.                                                    *)
(*                                                                            *)
(* The claims (inFlight) say little by themselves: that the attempt of one    *)
(* worker cannot disturb another rests on who drains a domain (PoolSound) and *)
(* on who holds an envelope (OneHolder).  The first is inductive together     *)
(* with the types, the second on top of it.                                   *)
EXTENDS BridgeOutbound, TLAPS

\* A worker that is at work has an envelope.
BusyHasMsg == \A w \in Workers : worker[w].at \in Working => worker[w].msg \in Msgs

Types == TypeOK /\ BusyHasMsg

HandsInv == Types /\ PoolSound /\ OneHolder

-----------------------------------------------------------------------------
(* The type invariant                                                      *)

\* What the domain's worker is: its own, or one from the pool.
LEMMA WorkerForOk ==
    ASSUME TypeOK, NEW d \in Domains, active[d] = None => Idle # {}
    PROVE  /\ WorkerFor(d) \in Workers
           /\ active[d] # None => WorkerFor(d) = active[d]
           /\ active[d] = None => WorkerFor(d) \in Idle
  BY DEF TypeOK, WorkerFor, Idle

\* What the proofs of types need of the constants.
LEMMA Constants ==
    /\ Domain \in [Msgs -> Domains] /\ Key \in [Msgs -> Keys]
    /\ None \notin Workers /\ None \notin Msgs
    /\ QueueSize \in Nat /\ MaxFaults \in Nat
  BY BridgeAssumption

\* A pass, if there is one, is a record of its type.
PassOk(q) ==
    q # None =>
        /\ DOMAIN q = {"items", "msg", "expired", "opened"}
        /\ q.items \subseteq Msgs /\ q.msg \in Msgs \cup {None}
        /\ q.expired \in BOOLEAN /\ q.opened \in BOOLEAN

\* The pass that goes on has no envelope in hand.
LEMMA PassOnOk ==
    ASSUME NEW items \in SUBSET Msgs
    PROVE  /\ PassOk(PassOn(items))
           /\ PassOn(items) # None => PassOn(items).msg = None
  BY DEF PassOn, PassOk

\* A worker goes to its next step, and the others stay where they are.
LEMMA GotoOk ==
    ASSUME Types, NEW w \in Workers, NEW step \in Phases, NEW m \in Msgs \cup {None},
           step \in Working => m \in Msgs, Goto(w, step, m)
    PROVE  /\ worker' \in [Workers -> [at : Phases, msg : Msgs \cup {None}]]
           /\ worker'[w].at = step /\ worker'[w].msg = m
           /\ \A v \in Workers \ {w} : worker'[v] = worker[v]
           /\ BusyHasMsg'
<1>1. worker \in [Workers -> [at : Phases, msg : Msgs \cup {None}]]
  BY DEF Types, TypeOK
<1>2. [at |-> step, msg |-> m] \in [at : Phases, msg : Msgs \cup {None}]
  OBVIOUS
<1>3. worker' = [worker EXCEPT ![w] = [at |-> step, msg |-> m]]
  BY DEF Goto
<1>4. worker' \in [Workers -> [at : Phases, msg : Msgs \cup {None}]]
  BY <1>1, <1>2, <1>3
<1>5. worker'[w] = [at |-> step, msg |-> m] /\ \A v \in Workers \ {w} : worker'[v] = worker[v]
  BY <1>1, <1>3
<1> QED
  BY <1>4, <1>5 DEF Types, BusyHasMsg

\* The types of the variables other than the pass and the workers.
RestOk ==
    /\ place \in [Msgs -> {"coming", "stored", "gone"}] /\ old \subseteq Msgs
    /\ waiting \subseteq Msgs /\ inFlight \subseteq Msgs /\ routed \subseteq Msgs
    /\ active \in [Domains -> Workers \cup {None}]
    /\ jobs \in [Workers -> Seq(Msgs)]
    /\ \A w \in Workers : Len(jobs[w]) <= QueueSize
    /\ seen \subseteq Keys
    /\ failed \subseteq Msgs /\ reached \subseteq Keys /\ sent \in [Keys -> Nat]
    /\ faults \in 0..MaxFaults

WorkersOk == worker \in [Workers -> [at : Phases, msg : Msgs \cup {None}]] /\ BusyHasMsg

\* The type invariant in three parts.
LEMMA TypesParts == Types <=> RestOk /\ PassOk(pass) /\ WorkersOk
  BY DEF Types, TypeOK, RestOk, PassOk, WorkersOk

\* The same after a step.
LEMMA TypesPartsNext == Types' <=> RestOk' /\ PassOk(pass') /\ WorkersOk'
  BY DEF Types, TypeOK, RestOk, PassOk, WorkersOk

\* A removal, which may fail, leaves the types alone.
LEMMA RemoveOk ==
    ASSUME RestOk, NEW m \in Msgs, Remove(m)
    PROVE  /\ place' \in [Msgs -> {"coming", "stored", "gone"}] /\ faults' \in 0..MaxFaults
           /\ \A n \in Msgs \ {m} : place'[n] = place[n]
           /\ place'[m] \in {place[m], "gone"}
<1>1. place' = place \/ place' = [place EXCEPT ![m] = "gone"]
  BY DEF Remove
<1>2. faults' \in 0..MaxFaults
  BY Constants DEF RestOk, Remove, Fault
<1> QED
  BY <1>1, <1>2 DEF RestOk

\* The bridge starts with the types right and no worker running.
LEMMA TypesInit == Init => Types
  BY Constants DEF Init, Types, TypeOK, BusyHasMsg, Unsent, Off, Phases, Working

\* A worker from the pool has an empty queue, so that its first job has room there.
LEMMA TypesStep == Types /\ PoolSound /\ [Next]_vars => Types'
<1> SUFFICES ASSUME Types, PoolSound, [Next]_vars
             PROVE  RestOk' /\ PassOk(pass') /\ WorkersOk'
  BY TypesPartsNext
<1>0. RestOk /\ PassOk(pass) /\ WorkersOk
  BY TypesParts
<1> USE <1>0, Constants DEF queue, plan, pool, history
<1>1. ASSUME NEW m \in Msgs, Arrive(m) \/ Age(m) \/ Due(m)
      PROVE  RestOk' /\ PassOk(pass') /\ WorkersOk'
  BY Zenon, <1>1 DEF Arrive, Age, Due, RestOk, WorkersOk, BusyHasMsg
<1>2. ASSUME NEW complete \in BOOLEAN, List(complete)
      PROVE  RestOk' /\ PassOk(pass') /\ WorkersOk'
  <2>1. PassOk(pass')
    BY <1>2, PassOnOk DEF List, Stored
  <2>2. WorkersOk' /\ faults' \in 0..MaxFaults /\ waiting' \subseteq waiting /\ routed' \subseteq routed
    BY <1>2 DEF List, WorkersOk, BusyHasMsg, Fault, RestOk
  <2> QED
    BY <1>2, <2>1, <2>2 DEF List, RestOk
<1>3. ASSUME NEW m \in Msgs, Claim(m)
      PROVE  RestOk' /\ PassOk(pass') /\ WorkersOk'
  <2>1. pass # None /\ pass.items \ {m} \in SUBSET Msgs
    BY <1>3 DEF Claim, PassOk
  <2>2. PassOk([items |-> pass.items \ {m}, msg |-> m, expired |-> m \in old, opened |-> FALSE])
    BY <2>1 DEF PassOk
  <2>3. PassOk(pass')
    BY Zenon, <1>3, <2>1, <2>2, PassOnOk DEF Claim
  <2> QED
    BY <1>3, <2>3 DEF Claim, RestOk, WorkersOk, BusyHasMsg
<1>4. ASSUME NEW m \in Msgs, SkipFull(m) \/ EnqueueFull(m)
      PROVE  RestOk' /\ PassOk(pass') /\ WorkersOk'
  <2>1. PassOk(pass')
    BY <1>4, PassOnOk DEF SkipFull, EnqueueFull, Current, Release, PassOk
  <2> QED
    BY Zenon, <1>4, <2>1 DEF SkipFull, EnqueueFull, Release, RestOk, WorkersOk, BusyHasMsg
<1>5. ASSUME NEW m \in Msgs, Open(m)
      PROVE  RestOk' /\ PassOk(pass') /\ WorkersOk'
  BY <1>5 DEF Open, Current, PassOk, RestOk, WorkersOk, BusyHasMsg
<1>6. ASSUME NEW m \in Msgs, LoadLater(m)
      PROVE  RestOk' /\ PassOk(pass') /\ WorkersOk'
  <2>1. PassOk(pass')
    BY <1>6, PassOnOk DEF LoadLater, Current, Release, PassOk
  <2> QED
    BY <1>6, <2>1 DEF LoadLater, DeferRetry, Fault, Release, RestOk, WorkersOk, BusyHasMsg
<1>7. ASSUME NEW m \in Msgs, Drop(m) \/ ExpireUnsent(m)
      PROVE  RestOk' /\ PassOk(pass') /\ WorkersOk'
  <2>1. PassOk(pass')
    BY <1>7, PassOnOk DEF Drop, ExpireUnsent, Current, Release, PassOk
  <2>2. Remove(m) \/ (Fault /\ place' \in {place, [place EXCEPT ![m] = "gone"]})
    BY Zenon, <1>7 DEF Drop, ExpireUnsent
  <2>3. place' \in [Msgs -> {"coming", "stored", "gone"}] /\ faults' \in 0..MaxFaults
    <3>1. place' = place \/ place' = [place EXCEPT ![m] = "gone"]
      BY <2>2 DEF Remove
    <3>2. faults' \in 0..MaxFaults
      BY <2>2, RemoveOk DEF Fault, RestOk
    <3> QED
      BY <3>1, <3>2 DEF RestOk
  <2> QED
    BY Zenon, <1>7, <2>1, <2>3
    DEF Drop, ExpireUnsent, Failed, Finished, Release, RestOk, WorkersOk, BusyHasMsg
<1>8. ASSUME NEW m \in Msgs, Enqueue(m)
      PROVE  RestOk' /\ PassOk(pass') /\ WorkersOk'
  <2>1. PassOk(pass')
    BY <1>8, PassOnOk DEF Enqueue, Current, PassOk
  <2>2. PICK w \in Workers :
          /\ w = WorkerFor(Domain[m])
          /\ active[Domain[m]] # None => w = active[Domain[m]]
          /\ active[Domain[m]] = None => w \in Idle
    BY <1>8, WorkerForOk DEF Enqueue, HasRoom, Types
  <2>3. /\ active' = [active EXCEPT ![Domain[m]] = w]
        /\ jobs' = [jobs EXCEPT ![w] = Append(jobs[w], m)]
        /\ Goto(w, "loop", None) \/ UNCHANGED worker
    BY <1>8, <2>2 DEF Enqueue
  <2>4. WorkersOk'
    BY <2>3, GotoOk DEF WorkersOk, Types, Phases, Working, BusyHasMsg
  <2>5. Len(jobs[w]) < QueueSize
    <3>1. CASE active[Domain[m]] # None
      BY <1>8, <2>2, <3>1 DEF Enqueue, HasRoom
    <3>2. CASE active[Domain[m]] = None
      BY <2>2, <3>2, BridgeAssumption DEF PoolSound
    <3> QED
      BY <3>1, <3>2
  <2>6. /\ jobs' \in [Workers -> Seq(Msgs)]
        /\ \A v \in Workers : Len(jobs'[v]) <= QueueSize
    BY <2>3, <2>5 DEF RestOk
  <2>7. active' \in [Domains -> Workers \cup {None}]
    BY <2>3 DEF RestOk
  <2> QED
    BY <1>8, <2>1, <2>4, <2>6, <2>7 DEF Enqueue, RestOk
<1>9. ASSUME NEW w \in Workers, Take(w)
      PROVE  RestOk' /\ PassOk(pass') /\ WorkersOk'
  <2>1. Head(jobs[w]) \in Msgs
    BY <1>9 DEF Take, RestOk
  <2>2. WorkersOk'
    BY <1>9, <2>1, GotoOk DEF Take, WorkersOk, Phases, Working
  <2> QED
    BY <1>9, <2>2 DEF Take, RestOk
<1>10. ASSUME NEW w \in Workers, Quiet(w) \/ Stop(w)
       PROVE  RestOk' /\ PassOk(pass') /\ WorkersOk'
  <2>1. WorkersOk'
    BY <1>10, GotoOk DEF Quiet, Stop, WorkersOk, Phases, Working
  <2> QED
    BY <1>10, <2>1 DEF Quiet, Stop, RestOk
<1>11. ASSUME NEW w \in Workers, Check(w) \/ NotAccepted(w) \/ Accepted(w) \/ AnswerLost(w) \/ Finish(w)
       PROVE  RestOk' /\ PassOk(pass') /\ WorkersOk'
  <2> DEFINE m == worker[w].msg
  <2>1. m \in Msgs /\ Key[m] \in Keys
    BY <1>11 DEF Check, NotAccepted, Accepted, AnswerLost, Finish, WorkersOk, BusyHasMsg, Working
  <2>2. \E step \in Phases, n \in {m, None} : (step \in Working => n = m) /\ Goto(w, step, n)
    BY <1>11 DEF Check, NotAccepted, Accepted, AnswerLost, Finish, Retry, Fail, Verdict, Phases, Working
  <2>3. WorkersOk'
    BY <2>1, <2>2, GotoOk DEF WorkersOk
  <2>4. CASE Check(w) \/ NotAccepted(w)
    BY <2>1, <2>3, <2>4 DEF Check, NotAccepted, Retry, Fail, Verdict, Finished, DeferRetry, RestOk
  <2>5. CASE Accepted(w)
    <3>1. seen' \subseteq Keys /\ sent' \in [Keys -> Nat]
      <4>1. PICK k \in Keys : k = Key[m]
        BY <2>1
      <4>2. \/ seen' = {k} /\ sent' = [Unsent EXCEPT ![k] = 1]
            \/ seen' = seen \cup {k} /\ sent' = [sent EXCEPT ![k] = sent[k] + 1]
        BY <2>5, <4>1 DEF Accepted, Mark
      <4>3. Unsent \in [Keys -> Nat] /\ sent \in [Keys -> Nat] /\ sent[k] + 1 \in Nat
        BY DEF Unsent, RestOk
      <4>4. sent' \in [Keys -> Nat]
        BY <4>2, <4>3
      <4> QED
        BY <4>2, <4>4 DEF RestOk
    <3> QED
      BY <2>1, <2>3, <2>5, <3>1 DEF Accepted, Verdict, Finished, RestOk
  <2>6. CASE AnswerLost(w)
    BY <2>1, <2>3, <2>6 DEF AnswerLost, Retry, Verdict, Finished, DeferRetry, Fault, RestOk
  <2>7. CASE Finish(w)
    BY <2>1, <2>3, <2>7, RemoveOk DEF Finish, RestOk
  <2> QED
    BY <1>11, <2>4, <2>5, <2>6, <2>7
<1>12. CASE Crash
  BY <1>12 DEF Crash, Fault, Unsent, Off, RestOk, PassOk, WorkersOk, BusyHasMsg, Phases, Working
<1>13. CASE UNCHANGED vars
  BY <1>13 DEF vars, RestOk, WorkersOk, BusyHasMsg
<1> QED
  BY <1>1, <1>2, <1>3, <1>4, <1>5, <1>6, <1>7, <1>8, <1>9, <1>10, <1>11, <1>12, <1>13
  DEF Next, Dispatch, Work

-----------------------------------------------------------------------------
(* What the steps do to the hands an envelope is in                        *)

\* Appending to a queue.
LEMMA QueueAppend ==
    ASSUME NEW s \in Seq(Msgs), NEW m \in Msgs
    PROVE  /\ Len(s) \in Nat /\ Len(Append(s, m)) = Len(s) + 1
           /\ \A i \in 1..Len(s) : Append(s, m)[i] = s[i]
           /\ Append(s, m)[Len(s) + 1] = m
  OBVIOUS

\* Taking the head of a queue.
LEMMA QueueTail ==
    ASSUME NEW s \in Seq(Msgs), s # <<>>
    PROVE  /\ Len(s) \in Nat \ {0} /\ Len(Tail(s)) = Len(s) - 1
           /\ Head(s) = s[1] /\ s[1] \in Msgs
           /\ \A i \in 1..(Len(s) - 1) : Tail(s)[i] = s[i + 1]
  OBVIOUS

\* A pass with an envelope in hand is a pass.
LEMMA PassIsThere ==
    ASSUME NEW items \in SUBSET Msgs, NEW m \in Msgs \cup {None},
           NEW e \in BOOLEAN, NEW o \in BOOLEAN
    PROVE  [items |-> items, msg |-> m, expired |-> e, opened |-> o] # None
<1>1. [items |-> items, msg |-> m, expired |-> e, opened |-> o]
        \in [items : SUBSET Msgs, msg : Msgs \cup {None}, expired : BOOLEAN, opened : BOOLEAN]
  OBVIOUS
<1> QED
  BY <1>1, BridgeAssumption

\* The poll loop claims an envelope, releases the one it has in hand, or neither;
\* the workers do not notice.
PassEffect(m) ==
    /\ UNCHANGED <<active, jobs, worker>>
    /\ \/ UNCHANGED inFlight /\ \A n \in Msgs : InPass(n)' <=> InPass(n)
       \/ /\ m \notin inFlight /\ inFlight' = inFlight \cup {m}
          /\ \A n \in Msgs : ~InPass(n) /\ (InPass(n)' <=> n = m)
       \/ /\ InPass(m) /\ inFlight' = inFlight \ {m}
          /\ \A n \in Msgs : ~InPass(n)'

\* What the handlers of dispatch do to the claims, except for enqueue.
LEMMA PassSteps ==
    ASSUME Types, NEW m \in Msgs,
           \/ Claim(m) \/ SkipFull(m) \/ Open(m) \/ LoadLater(m) \/ Drop(m)
           \/ EnqueueFull(m) \/ ExpireUnsent(m)
    PROVE  PassEffect(m)
<1> USE Constants
<1>0. PassOk(pass) /\ pass # None
  BY TypesParts DEF Claim, SkipFull, Open, LoadLater, Drop, EnqueueFull, ExpireUnsent, Current
<1>1. CASE Claim(m) /\ Claimable(m)
  <2> DEFINE q == [items |-> pass.items \ {m}, msg |-> m, expired |-> m \in old, opened |-> FALSE]
  <2>1. q # None
    <3>1. pass.items \ {m} \in SUBSET Msgs /\ (m \in old) \in BOOLEAN
      BY <1>0 DEF PassOk
    <3> QED
      BY Zenon, <3>1, PassIsThere
  <2>2. pass' = q /\ inFlight' = inFlight \cup {m} /\ m \notin inFlight /\ pass.msg = None
    BY <1>1 DEF Claim, Claimable
  <2>3. UNCHANGED <<active, jobs, worker>>
    BY <1>1 DEF Claim, pool
  <2> QED
    BY <2>1, <2>2, <2>3 DEF PassEffect, InPass
<1>2. CASE Claim(m) /\ ~Claimable(m)
  <2>1. UNCHANGED <<active, jobs, worker, inFlight>> /\ pass.msg = None
        /\ pass' = PassOn(pass.items \ {m})
    BY <1>2 DEF Claim, pool
  <2>2. pass' # None => pass'.msg = None
    BY <1>0, <2>1, PassOnOk DEF PassOk
  <2> QED
    BY <2>1, <2>2 DEF PassEffect, InPass
<1>3. CASE Open(m)
  <2>1. UNCHANGED <<active, jobs, worker, inFlight>> /\ pass' = [pass EXCEPT !.opened = TRUE]
    BY <1>3 DEF Open, pool
  <2>2. pass' = [items |-> pass.items, msg |-> pass.msg, expired |-> pass.expired, opened |-> TRUE]
    BY Zenon, <1>0, <2>1 DEF PassOk
  <2>3. pass' # None
    BY Zenon, <1>0, <2>2, PassIsThere DEF PassOk
  <2> QED
    BY <1>0, <2>1, <2>2, <2>3 DEF PassEffect, InPass
<1>4. CASE SkipFull(m) \/ LoadLater(m) \/ Drop(m) \/ EnqueueFull(m) \/ ExpireUnsent(m)
  <2>1. UNCHANGED <<active, jobs, worker>> /\ Release(m) /\ pass.msg = m
    BY <1>4 DEF SkipFull, LoadLater, Drop, EnqueueFull, ExpireUnsent, Current, pool
  <2>2. pass' # None => pass'.msg = None
    BY <1>0, <2>1, PassOnOk DEF Release, PassOk
  <2> QED
    BY <1>0, <2>1, <2>2 DEF PassEffect, InPass, Release
<1> QED
  BY <1>1, <1>2, <1>3, <1>4

\* A worker's attempt goes on with its envelope, or ends and the claim with it.
WorkEffect(w) ==
    /\ UNCHANGED <<pass, active, jobs>>
    /\ worker[w].at \in Working /\ worker[w].msg \in Msgs
    /\ \A v \in Workers \ {w} : worker'[v] = worker[v]
    /\ \/ /\ worker'[w].at \in {"deliver", "finish"} /\ worker'[w].msg = worker[w].msg
          /\ UNCHANGED inFlight
       \/ worker'[w].at = "loop" /\ inFlight' = inFlight \ {worker[w].msg}

\* What the steps of an attempt do to the claim of its envelope.
LEMMA WorkSteps ==
    ASSUME Types, NEW w \in Workers,
           Check(w) \/ Accepted(w) \/ NotAccepted(w) \/ AnswerLost(w) \/ Finish(w)
    PROVE  WorkEffect(w)
<1> DEFINE m == worker[w].msg
<1>1. worker[w].at \in Working /\ m \in Msgs
  BY DEF Check, Accepted, NotAccepted, AnswerLost, Finish, Types, BusyHasMsg, Working
<1>2. UNCHANGED <<pass, active, jobs>>
  BY DEF Check, Accepted, NotAccepted, AnswerLost, Finish, pool
<1>3. \/ \E step \in {"deliver", "finish"} : Goto(w, step, m) /\ UNCHANGED inFlight
      \/ Goto(w, "loop", None) /\ inFlight' = inFlight \ {m}
  BY DEF Check, Accepted, NotAccepted, AnswerLost, Finish, Retry, Fail, Verdict, plan
<1> HIDE DEF m
<1>4. CASE Goto(w, "loop", None) /\ inFlight' = inFlight \ {m}
  BY <1>1, <1>2, <1>4, GotoOk DEF WorkEffect, Phases, Working, m
<1>5. ASSUME NEW step \in {"deliver", "finish"}, Goto(w, step, m), UNCHANGED inFlight
      PROVE  WorkEffect(w)
  <2>1. worker'[w].at = step /\ worker'[w].msg = m
        /\ \A v \in Workers \ {w} : worker'[v] = worker[v]
    BY <1>1, <1>5, GotoOk DEF Phases, Working
  <2> QED
    BY <1>1, <1>2, <1>5, <2>1 DEF WorkEffect, m
<1> QED
  BY <1>3, <1>4, <1>5

\* An envelope goes from the poll loop to the end of the queue of its domain's worker,
\* which may have come from the pool.
EnqueueEffect(m, w) ==
    /\ InPass(m) /\ \A n \in Msgs : ~InPass(n)'
    /\ UNCHANGED inFlight
    /\ active' = [active EXCEPT ![Domain[m]] = w]
    /\ jobs' = [jobs EXCEPT ![w] = Append(jobs[w], m)]
    /\ \A v \in Workers \ {w} : worker'[v] = worker[v]
    /\ \/ active[Domain[m]] = w /\ w \notin Idle /\ worker'[w] = worker[w]
       \/ active[Domain[m]] = None /\ w \in Idle /\ worker'[w].at = "loop"

\* enqueue does just that.
LEMMA EnqueueSteps ==
    ASSUME Types, NEW m \in Msgs, Enqueue(m)
    PROVE  \E w \in Workers : EnqueueEffect(m, w)
<1> USE Constants
<1>1. PICK w \in Workers :
        /\ w = WorkerFor(Domain[m])
        /\ active[Domain[m]] # None => w = active[Domain[m]]
        /\ active[Domain[m]] = None => w \in Idle
  BY WorkerForOk DEF Enqueue, HasRoom, Types
<1>2. /\ active' = [active EXCEPT ![Domain[m]] = w]
      /\ jobs' = [jobs EXCEPT ![w] = Append(jobs[w], m)]
      /\ IF w \in Idle THEN Goto(w, "loop", None) ELSE UNCHANGED worker
      /\ UNCHANGED inFlight
  BY <1>1 DEF Enqueue, plan
<1>3. InPass(m) /\ \A n \in Msgs : ~InPass(n)'
  BY PassOnOk, TypesParts DEF Enqueue, Current, InPass, PassOk
<1>4. \A v \in Workers \ {w} : worker'[v] = worker[v]
  BY <1>2, GotoOk DEF Phases, Working
<1>5. active[Domain[m]] # None => w \notin Idle
  BY <1>1 DEF Idle
<1>6. w \in Idle => worker'[w].at = "loop"
  BY <1>2, GotoOk DEF Phases, Working
<1>7. EnqueueEffect(m, w)
  BY <1>1, <1>2, <1>3, <1>4, <1>5, <1>6 DEF EnqueueEffect
<1> QED
  BY <1>7

\* Taking a job, the workers hold what they held before: the head of the queue has only
\* become the envelope at work.
LEMMA TakeHolds ==
    ASSUME Types, NEW w \in Workers, Take(w)
    PROVE  /\ \A v \in Workers, n \in Msgs : With(v, n)' <=> With(v, n)
           /\ worker[w].at = "loop" /\ worker'[w].at = "check"
           /\ jobs' = [jobs EXCEPT ![w] = Tail(jobs[w])] /\ jobs[w] # <<>>
           /\ worker'[w].msg = jobs[w][1] /\ jobs[w][1] \in Msgs
           /\ \A v \in Workers \ {w} : worker'[v] = worker[v] /\ jobs'[v] = jobs[v]
           /\ jobs'[w] = Tail(jobs[w])
<1>1. jobs \in [Workers -> Seq(Msgs)]
  BY DEF Types, TypeOK
<1>2. /\ worker[w].at = "loop" /\ jobs[w] # <<>> /\ Goto(w, "check", Head(jobs[w]))
      /\ jobs' = [jobs EXCEPT ![w] = Tail(jobs[w])]
  BY DEF Take
<1> DEFINE s == jobs[w]
<1>3. /\ Len(s) \in Nat \ {0} /\ Len(Tail(s)) = Len(s) - 1
      /\ Head(s) = s[1] /\ s[1] \in Msgs
      /\ \A i \in 1..(Len(s) - 1) : Tail(s)[i] = s[i + 1]
  BY <1>1, <1>2, QueueTail
<1>4. /\ worker'[w].at = "check" /\ worker'[w].msg = s[1]
      /\ \A v \in Workers \ {w} : worker'[v] = worker[v]
  BY <1>2, <1>3, GotoOk DEF Phases, Working
<1>5. jobs'[w] = Tail(s) /\ \A v \in Workers \ {w} : jobs'[v] = jobs[v]
  BY <1>1, <1>2
<1>6. ASSUME NEW n \in Msgs
      PROVE  With(w, n)' <=> With(w, n)
  <2>1. ~Busy(w, n) /\ (Busy(w, n)' <=> n = s[1])
    BY <1>2, <1>4 DEF Busy, Working
  <2>2. Queued(w, n)' => Queued(w, n)
    BY <1>3, <1>5 DEF Queued
  <2>3. ASSUME NEW i \in 1..Len(s), s[i] = n
        PROVE  n = s[1] \/ Queued(w, n)'
    <3>1. CASE i = 1
      BY <2>3, <3>1
    <3>2. CASE i # 1
      <4>1. i - 1 \in 1..Len(jobs'[w]) /\ jobs'[w][i - 1] = n
        BY <1>3, <1>5, <2>3, <3>2
      <4> QED
        BY <4>1 DEF Queued
    <3> QED
      BY <3>1, <3>2
  <2>4. n = s[1] => Queued(w, n)
    BY <1>3 DEF Queued
  <2> QED
    BY <2>1, <2>2, <2>3, <2>4 DEF With, Queued
<1>7. ASSUME NEW v \in Workers \ {w}, NEW n \in Msgs
      PROVE  With(v, n)' <=> With(v, n)
  BY <1>4, <1>5 DEF With, Busy, Queued
<1> QED
  BY <1>2, <1>3, <1>4, <1>5, <1>6, <1>7

\* With a new job, a worker holds one envelope more, and works on what it did.
LEMMA EnqueueHolds ==
    ASSUME Types, PoolSound, NEW m \in Msgs, NEW w \in Workers, EnqueueEffect(m, w)
    PROVE  /\ \A v \in Workers, n \in Msgs : With(v, n)' <=> With(v, n) \/ (v = w /\ n = m)
           /\ \A v \in Workers, n \in Msgs : Busy(v, n)' <=> Busy(v, n)
           /\ jobs'[w] = Append(jobs[w], m)
           /\ \A v \in Workers \ {w} : jobs'[v] = jobs[v]
<1>1. jobs \in [Workers -> Seq(Msgs)]
  BY DEF Types, TypeOK
<1>2. jobs'[w] = Append(jobs[w], m) /\ \A v \in Workers \ {w} : jobs'[v] = jobs[v]
  BY <1>1 DEF EnqueueEffect
<1> DEFINE s == jobs[w]
<1>3. /\ Len(s) \in Nat /\ Len(Append(s, m)) = Len(s) + 1
      /\ \A i \in 1..Len(s) : Append(s, m)[i] = s[i]
      /\ Append(s, m)[Len(s) + 1] = m
  BY <1>1, QueueAppend
<1>4. ASSUME NEW v \in Workers, NEW n \in Msgs
      PROVE  Busy(v, n)' <=> Busy(v, n)
  BY DEF EnqueueEffect, Busy, PoolSound, Working
<1>5. ASSUME NEW n \in Msgs
      PROVE  Queued(w, n)' <=> Queued(w, n) \/ n = m
  <2>1. ASSUME Queued(w, n)'
        PROVE  Queued(w, n) \/ n = m
    <3>1. PICK i \in 1..(Len(s) + 1) : Append(s, m)[i] = n
      BY <1>2, <1>3, <2>1 DEF Queued
    <3>2. i \in 1..Len(s) \/ i = Len(s) + 1
      BY <1>3
    <3> QED
      BY <1>3, <3>1, <3>2 DEF Queued
  <2>2. ASSUME NEW i \in 1..Len(s), s[i] = n
        PROVE  Queued(w, n)'
    <3>1. i \in 1..Len(jobs'[w]) /\ jobs'[w][i] = n
      BY <1>2, <1>3, <2>2
    <3> QED
      BY <3>1 DEF Queued
  <2>3. Queued(w, m)'
    <3>1. Len(s) + 1 \in 1..Len(jobs'[w]) /\ jobs'[w][Len(s) + 1] = m
      BY <1>2, <1>3
    <3> QED
      BY <3>1 DEF Queued
  <2> QED
    BY <2>1, <2>2, <2>3 DEF Queued
<1>6. ASSUME NEW v \in Workers \ {w}, NEW n \in Msgs
      PROVE  Queued(v, n)' <=> Queued(v, n)
  BY <1>2 DEF Queued
<1> QED
  BY <1>2, <1>4, <1>5, <1>6 DEF With

-----------------------------------------------------------------------------
(* The pool of workers, and who holds an envelope                          *)

\* A pool whose domains, queues and workers stay as they are stays sound.
LEMMA PoolUntouched ==
    ASSUME PoolSound, UNCHANGED <<active, jobs, worker>>
    PROVE  PoolSound'
  BY DEF PoolSound, Idle, With, Busy, Queued

\* The bridge starts with all workers in the pool.
LEMMA PoolInit == Init => PoolSound
  BY Constants DEF Init, PoolSound, Idle, With, Busy, Queued, Off, Working

\* Every step keeps the pool sound: enqueue starts a worker only from the pool, and a
\* worker stops only with an empty queue.
LEMMA PoolStep == Types /\ PoolSound /\ [Next]_vars => PoolSound'
<1> SUFFICES ASSUME Types, PoolSound, [Next]_vars
             PROVE  PoolSound'
  OBVIOUS
<1>0. active \in [Domains -> Workers \cup {None}] /\ jobs \in [Workers -> Seq(Msgs)]
  BY DEF Types, TypeOK
<1> USE Constants
<1>1. ASSUME NEW m \in Msgs, Arrive(m) \/ Age(m) \/ Due(m)
      PROVE  PoolSound'
  BY <1>1, PoolUntouched DEF Arrive, Age, Due, pool
<1>2. ASSUME NEW complete \in BOOLEAN, List(complete)
      PROVE  PoolSound'
  BY <1>2, PoolUntouched DEF List, pool
<1>3. ASSUME NEW m \in Msgs,
             \/ Claim(m) \/ SkipFull(m) \/ Open(m) \/ LoadLater(m) \/ Drop(m)
             \/ EnqueueFull(m) \/ ExpireUnsent(m)
      PROVE  PoolSound'
  BY <1>3, PassSteps, PoolUntouched DEF PassEffect
<1>4. ASSUME NEW m \in Msgs, Enqueue(m)
      PROVE  PoolSound'
  <2>1. PICK w \in Workers : EnqueueEffect(m, w)
    BY <1>4, EnqueueSteps
  <2>2. /\ \A v \in Workers, n \in Msgs : With(v, n)' <=> With(v, n) \/ (v = w /\ n = m)
        /\ \A v \in Workers \ {w} : jobs'[v] = jobs[v]
    BY <2>1, EnqueueHolds
  <2>3. /\ active'[Domain[m]] = w
        /\ \A d \in Domains \ {Domain[m]} : active'[d] = active[d]
        /\ active[Domain[m]] \in {w, None}
    BY <1>0, <2>1 DEF EnqueueEffect
  <2>4. Idle' = Idle \ {w}
    BY <2>3 DEF Idle
  <2>5. worker'[w].at # "off" /\ \A v \in Workers \ {w} : worker'[v] = worker[v]
    BY <2>1 DEF EnqueueEffect, PoolSound
  <2>6. w \in Idle \/ active[Domain[m]] = w
    BY <2>1 DEF EnqueueEffect
  <2>7. ASSUME NEW d \in Domains, NEW e \in Domains, NEW v \in Workers,
               active'[d] = v, active'[e] = v
        PROVE  d = e
    BY <2>3, <2>6, <2>7 DEF Idle, PoolSound
  <2>8. ASSUME NEW v \in Workers, NEW n \in Msgs, With(v, n)'
        PROVE  active'[Domain[n]] = v
    BY <2>2, <2>3, <2>8 DEF PoolSound
  <2> QED
    BY <2>2, <2>4, <2>5, <2>7, <2>8 DEF PoolSound
<1>5. ASSUME NEW w \in Workers, Take(w)
      PROVE  PoolSound'
  <2>1. UNCHANGED active /\ Idle' = Idle
    BY <1>5 DEF Take, Idle
  <2> QED
    BY <1>5, <2>1, TakeHolds DEF PoolSound
<1>6. ASSUME NEW w \in Workers, Quiet(w) \/ (Stop(w) /\ jobs[w] # <<>>)
      PROVE  PoolSound'
  <2>1. UNCHANGED <<active, jobs>> /\ worker[w].at \in {"loop", "stopping"}
        /\ (Goto(w, "stopping", None) \/ Goto(w, "loop", None))
    BY <1>6 DEF Quiet, Stop, pool
  <2>2. /\ worker'[w].at \in {"loop", "stopping"}
        /\ \A v \in Workers \ {w} : worker'[v] = worker[v]
    BY <2>1, GotoOk DEF Phases, Working
  <2> QED
    BY <2>1, <2>2 DEF PoolSound, Idle, With, Busy, Queued, Working
<1>7. ASSUME NEW w \in Workers, Stop(w), jobs[w] = <<>>
      PROVE  PoolSound'
  <2>1. /\ worker[w].at = "stopping" /\ Goto(w, "off", None) /\ UNCHANGED jobs
        /\ active' = [d \in Domains |-> IF active[d] = w THEN None ELSE active[d]]
    BY <1>7 DEF Stop
  <2>2. worker'[w].at = "off" /\ \A v \in Workers \ {w} : worker'[v] = worker[v]
    BY <2>1, GotoOk DEF Phases, Working
  <2>3. Idle' = Idle \cup {w}
    BY <1>0, <2>1 DEF Idle
  <2>4. \A n \in Msgs : ~With(w, n) /\ ~With(w, n)'
    BY <1>7, <2>1, <2>2 DEF With, Busy, Queued, Working
  <2>5. \A v \in Workers \ {w}, n \in Msgs : With(v, n)' <=> With(v, n)
    BY <2>1, <2>2 DEF With, Busy, Queued
  <2>6. \A v \in Workers, d \in Domains : active'[d] = v <=> active[d] = v /\ v # w
    BY <1>0, <2>1
  <2>7. w \in Idle' /\ jobs'[w] = <<>> /\ \A d \in Domains : active'[d] # w
    BY <1>7, <2>1, <2>3, <2>6
  <2>8. ASSUME NEW v \in Workers \ {w}
        PROVE  /\ v \in Idle' <=> worker'[v].at = "off"
               /\ v \in Idle' => jobs'[v] = <<>>
               /\ \A d, e \in Domains : active'[d] = v /\ active'[e] = v => d = e
               /\ \A m \in Msgs : With(v, m)' => active'[Domain[m]] = v
    <3>1. /\ v \in Idle' <=> v \in Idle
          /\ worker'[v] = worker[v] /\ jobs'[v] = jobs[v]
      BY <2>1, <2>2, <2>3
    <3>2. \A m \in Msgs : Domain[m] \in Domains
      BY BridgeAssumption
    <3> QED
      BY <2>5, <2>6, <3>1, <3>2 DEF PoolSound
  <2> QED
    BY <2>2, <2>4, <2>7, <2>8 DEF PoolSound
<1>8. ASSUME NEW w \in Workers,
             Check(w) \/ Accepted(w) \/ NotAccepted(w) \/ AnswerLost(w) \/ Finish(w)
      PROVE  PoolSound'
  <2>1. WorkEffect(w)
    BY <1>8, WorkSteps
  <2>2. Idle' = Idle
    BY <2>1 DEF WorkEffect, Idle
  <2>3. \A v \in Workers, n \in Msgs : With(v, n)' => With(v, n)
    BY <2>1 DEF WorkEffect, With, Busy, Queued, Working
  <2>4. \A v \in Workers : worker'[v].at = "off" <=> worker[v].at = "off"
    BY <2>1 DEF WorkEffect, Working
  <2>5. UNCHANGED <<active, jobs>>
    BY <2>1 DEF WorkEffect
  <2> QED
    BY <2>2, <2>3, <2>4, <2>5 DEF PoolSound
<1>9. CASE Crash
  BY <1>9 DEF Crash, PoolSound, Idle, With, Busy, Queued, Off, Working
<1>10. CASE UNCHANGED vars
  BY <1>10, PoolUntouched DEF vars, pool
<1> QED
  BY Zenon, <1>1, <1>2, <1>3, <1>4, <1>5, <1>6, <1>7, <1>8, <1>9, <1>10 DEF Next, Dispatch, Work

\* OneHolder for one envelope: who holds it, and where a worker has it.
InOneHand(m) ==
    /\ m \in inFlight <=> InPass(m) \/ \E w \in Workers : With(w, m)
    /\ \A w \in Workers : With(w, m) => ~InPass(m) /\ \A v \in Workers : With(v, m) => v = w

InOnePlace(w, m) ==
    /\ Busy(w, m) => ~Queued(w, m)
    /\ \A i, j \in 1..Len(jobs[w]) : jobs[w][i] = m /\ jobs[w][j] = m => i = j

\* OneHolder in these parts.
LEMMA HolderParts ==
    OneHolder <=> \A m \in Msgs : InOneHand(m) /\ \A w \in Workers : InOnePlace(w, m)
  BY DEF OneHolder, InOneHand, InOnePlace

\* The same after a step.
LEMMA HolderPartsNext ==
    OneHolder' <=> \A m \in Msgs : InOneHand(m)' /\ \A w \in Workers : InOnePlace(w, m)'
  BY DEF OneHolder, InOneHand, InOnePlace

\* A queue and a job that stay as they are have an envelope where they had it.
LEMMA PlaceUntouched ==
    ASSUME NEW w \in Workers, NEW m \in Msgs, InOnePlace(w, m),
           jobs'[w] = jobs[w], Busy(w, m)' => Busy(w, m)
    PROVE  InOnePlace(w, m)'
  BY DEF InOnePlace, Queued

\* An envelope appended to a queue of a worker that does not have it is there once.
LEMMA PlaceAppended ==
    ASSUME NEW w \in Workers, NEW m \in Msgs, NEW n \in Msgs,
           jobs[w] \in Seq(Msgs), jobs'[w] = Append(jobs[w], m), ~With(w, m),
           InOnePlace(w, n), Busy(w, n)' <=> Busy(w, n)
    PROVE  InOnePlace(w, n)'
<1> DEFINE s == jobs[w]
           t == jobs'[w]
<1>1. /\ Len(s) \in Nat /\ Len(t) = Len(s) + 1
      /\ \A i \in 1..Len(s) : t[i] = s[i]
      /\ t[Len(s) + 1] = m
  BY QueueAppend
<1>2. ~Busy(w, m) /\ \A i \in 1..Len(s) : s[i] # m
  BY DEF With, Queued
<1>3. /\ Busy(w, n) => \A i \in 1..Len(s) : s[i] # n
      /\ \A i, j \in 1..Len(s) : s[i] = n /\ s[j] = n => i = j
  BY DEF InOnePlace, Queued
<1>4. /\ Queued(w, n)' <=> \E i \in 1..Len(t) : t[i] = n
      /\ InOnePlace(w, n)' <=> /\ Busy(w, n)' => ~Queued(w, n)'
                               /\ \A i, j \in 1..Len(t) : t[i] = n /\ t[j] = n => i = j
  BY DEF InOnePlace, Queued
<1> HIDE DEF s, t
<1>5. Busy(w, n) => n # m
  BY <1>2
<1>6. \A i \in 1..Len(t) : (i \in 1..Len(s) /\ t[i] = s[i]) \/ (i = Len(s) + 1 /\ t[i] = m)
  BY <1>1
<1>7. ASSUME NEW i \in 1..Len(t), t[i] = n
      PROVE  ~Busy(w, n)
  BY <1>3, <1>5, <1>6, <1>7
<1>8. ASSUME NEW i \in 1..Len(t), NEW j \in 1..Len(t), t[i] = n, t[j] = n
      PROVE  i = j
  BY <1>2, <1>3, <1>6, <1>8
<1> QED
  BY <1>4, <1>7, <1>8

\* A worker that takes the head of its queue has it at work and no longer in the queue.
LEMMA PlaceTaken ==
    ASSUME NEW w \in Workers, NEW n \in Msgs,
           jobs[w] \in Seq(Msgs), jobs[w] # <<>>, jobs'[w] = Tail(jobs[w]),
           worker'[w].msg = jobs[w][1], InOnePlace(w, n)
    PROVE  InOnePlace(w, n)'
<1> DEFINE s == jobs[w]
           t == jobs'[w]
<1>1. /\ Len(s) \in Nat \ {0} /\ Len(t) = Len(s) - 1
      /\ \A i \in 1..(Len(s) - 1) : t[i] = s[i + 1]
  BY QueueTail
<1>2. \A i, j \in 1..Len(s) : s[i] = n /\ s[j] = n => i = j
  BY DEF InOnePlace
<1>3. Busy(w, n)' => s[1] = n
  BY DEF Busy
<1>4. /\ Queued(w, n)' <=> \E i \in 1..Len(t) : t[i] = n
      /\ InOnePlace(w, n)' <=> /\ Busy(w, n)' => ~Queued(w, n)'
                               /\ \A i, j \in 1..Len(t) : t[i] = n /\ t[j] = n => i = j
  BY DEF InOnePlace, Queued
<1> HIDE DEF s, t
<1>5. \A i \in 1..Len(t) : i + 1 \in 1..Len(s) /\ i + 1 # 1 /\ t[i] = s[i + 1]
  BY <1>1
<1>6. ASSUME NEW i \in 1..Len(t), t[i] = n
      PROVE  s[1] # n
  <2>1. 1 \in 1..Len(s)
    BY <1>1
  <2> QED
    BY <1>2, <1>5, <1>6, <2>1
<1>7. ASSUME NEW i \in 1..Len(t), NEW j \in 1..Len(t), t[i] = n, t[j] = n
      PROVE  i = j
  <2>1. i + 1 = j + 1
    BY Zenon, <1>2, <1>5, <1>7
  <2>2. i \in Int /\ j \in Int
    BY <1>1
  <2> QED
    BY <2>1, <2>2
<1> QED
  BY <1>3, <1>4, <1>6, <1>7

\* What the poll loop does leaves each envelope in one hand: it claims one that is in
\* none, and releases the one that is in its own.
LEMMA PassKeepsHolder ==
    ASSUME OneHolder, NEW m \in Msgs, PassEffect(m)
    PROVE  OneHolder'
<1>1. \A w \in Workers, n \in Msgs : /\ With(w, n)' <=> With(w, n)
                                     /\ Busy(w, n)' <=> Busy(w, n)
  BY DEF PassEffect, With, Busy, Queued
<1>2. UNCHANGED jobs /\ \A n \in Msgs : InOneHand(n) /\ \A w \in Workers : InOnePlace(w, n)
  BY HolderParts DEF PassEffect
<1>3. ASSUME NEW n \in Msgs
      PROVE  InOneHand(n)'
  <2>1. CASE UNCHANGED inFlight /\ \A k \in Msgs : InPass(k)' <=> InPass(k)
    BY <1>1, <1>2, <2>1 DEF InOneHand
  <2>2. CASE /\ m \notin inFlight /\ inFlight' = inFlight \cup {m}
             /\ \A k \in Msgs : ~InPass(k) /\ (InPass(k)' <=> k = m)
    BY <1>1, <1>2, <2>2 DEF InOneHand
  <2>3. CASE /\ InPass(m) /\ inFlight' = inFlight \ {m}
             /\ \A k \in Msgs : ~InPass(k)'
    <3>1. \A k \in Msgs : InPass(k) => k = m
      BY <2>3 DEF InPass
    <3> QED
      BY <1>1, <1>2, <2>3, <3>1 DEF InOneHand
  <2> QED
    BY <2>1, <2>2, <2>3 DEF PassEffect
<1>4. ASSUME NEW n \in Msgs, NEW w \in Workers
      PROVE  InOnePlace(w, n)'
  BY <1>1, <1>2, PlaceUntouched
<1> QED
  BY <1>3, <1>4, HolderPartsNext

\* The bridge starts with nothing claimed.
LEMMA HolderInit == Init => OneHolder
<1> SUFFICES ASSUME Init
             PROVE  OneHolder
  OBVIOUS
<1>1. inFlight = {} /\ \A n \in Msgs : ~InPass(n)
  BY DEF Init, InPass
<1>2. \A w \in Workers : worker[w] = Off /\ jobs[w] = <<>>
  BY DEF Init
<1>3. \A w \in Workers, n \in Msgs : ~Busy(w, n) /\ ~Queued(w, n) /\ InOnePlace(w, n)
  BY <1>2, Constants DEF Busy, Queued, InOnePlace, Off, Working
<1>4. \A n \in Msgs : InOneHand(n)
  BY <1>1, <1>3 DEF InOneHand, With
<1> QED
  BY <1>3, <1>4, HolderParts

\* Hands that stay as they are hold what they held.
LEMMA HolderUntouched ==
    ASSUME OneHolder, UNCHANGED <<inFlight, jobs, worker>>,
           \A n \in Msgs : InPass(n)' <=> InPass(n)
    PROVE  OneHolder'
<1>1. \A w \in Workers, n \in Msgs : /\ With(w, n)' <=> With(w, n)
                                     /\ Busy(w, n)' <=> Busy(w, n)
  BY DEF With, Busy, Queued
<1>2. \A n \in Msgs : InOneHand(n) /\ \A w \in Workers : InOnePlace(w, n)
  BY HolderParts
<1>3. ASSUME NEW n \in Msgs
      PROVE  InOneHand(n)'
  BY <1>1, <1>2 DEF InOneHand
<1>4. ASSUME NEW n \in Msgs, NEW w \in Workers
      PROVE  InOnePlace(w, n)'
  BY <1>1, <1>2, PlaceUntouched
<1> QED
  BY <1>3, <1>4, HolderPartsNext

\* Every step keeps each envelope in at most one hand, and the claims equal to the hands.
LEMMA HolderStep == Types /\ PoolSound /\ OneHolder /\ [Next]_vars => OneHolder'
<1> SUFFICES ASSUME Types, PoolSound, OneHolder, [Next]_vars
             PROVE  OneHolder'
  OBVIOUS
<1>0. /\ jobs \in [Workers -> Seq(Msgs)]
      /\ \A n \in Msgs : InOneHand(n) /\ \A w \in Workers : InOnePlace(w, n)
  BY HolderParts DEF Types, TypeOK
<1> USE Constants
<1>1. ASSUME NEW m \in Msgs, Arrive(m) \/ Age(m) \/ Due(m)
      PROVE  OneHolder'
  BY <1>1, HolderUntouched DEF Arrive, Age, Due, plan, pool, InPass
<1>2. ASSUME NEW complete \in BOOLEAN, List(complete)
      PROVE  OneHolder'
  <2>1. pass = None /\ UNCHANGED <<inFlight, jobs, worker>>
    BY <1>2 DEF List, pool
  <2>2. pass' # None => pass'.msg = None
    BY <1>2, PassOnOk DEF List, Stored
  <2>3. \A n \in Msgs : ~InPass(n) /\ ~InPass(n)'
    BY <2>1, <2>2 DEF InPass
  <2> QED
    BY <2>1, <2>3, HolderUntouched
<1>3. ASSUME NEW m \in Msgs,
             \/ Claim(m) \/ SkipFull(m) \/ Open(m) \/ LoadLater(m) \/ Drop(m)
             \/ EnqueueFull(m) \/ ExpireUnsent(m)
      PROVE  OneHolder'
  BY <1>3, PassSteps, PassKeepsHolder
<1>4. ASSUME NEW m \in Msgs, Enqueue(m)
      PROVE  OneHolder'
  <2>1. PICK w \in Workers : EnqueueEffect(m, w)
    BY <1>4, EnqueueSteps
  <2>2. /\ \A v \in Workers, n \in Msgs : With(v, n)' <=> With(v, n) \/ (v = w /\ n = m)
        /\ \A v \in Workers, n \in Msgs : Busy(v, n)' <=> Busy(v, n)
        /\ jobs'[w] = Append(jobs[w], m)
        /\ \A v \in Workers \ {w} : jobs'[v] = jobs[v]
    BY <2>1, EnqueueHolds
  <2>3. /\ UNCHANGED inFlight
        /\ \A n \in Msgs : ~InPass(n)' /\ (InPass(n) => n = m)
        /\ InPass(m) /\ \A v \in Workers : ~With(v, m)
    BY <1>0, <2>1 DEF EnqueueEffect, InOneHand, InPass
  <2>4. ASSUME NEW n \in Msgs
        PROVE  InOneHand(n)'
    <3>1. InOneHand(n) /\ InOneHand(m)
      BY <1>0
    <3>2. CASE n = m
      BY Zenon, <2>2, <2>3, <3>1, <3>2 DEF InOneHand
    <3>3. CASE n # m
      <4>1. ~InPass(n) /\ ~InPass(n)' /\ \A v \in Workers : With(v, n)' <=> With(v, n)
        BY <2>2, <2>3, <3>3
      <4> QED
        BY <2>3, <3>1, <4>1 DEF InOneHand
    <3> QED
      BY <3>2, <3>3
  <2>5. ASSUME NEW v \in Workers \ {w}, NEW n \in Msgs
        PROVE  InOnePlace(v, n)'
    <3>1. jobs'[v] = jobs[v] /\ (Busy(v, n)' <=> Busy(v, n)) /\ InOnePlace(v, n)
      BY <1>0, <2>2
    <3> QED
      BY <3>1, PlaceUntouched
  <2>6. ASSUME NEW n \in Msgs
        PROVE  InOnePlace(w, n)'
    <3>1. jobs[w] \in Seq(Msgs) /\ InOnePlace(w, n) /\ (Busy(w, n)' <=> Busy(w, n)) /\ ~With(w, m)
      BY <1>0, <2>2, <2>3
    <3>2. jobs'[w] = Append(jobs[w], m)
      BY <2>2
    <3> QED
      BY Zenon, <3>1, <3>2, PlaceAppended
  <2> QED
    BY <2>4, <2>5, <2>6, HolderPartsNext
<1>5. ASSUME NEW w \in Workers, Take(w)
      PROVE  OneHolder'
  <2>1. /\ \A v \in Workers, n \in Msgs : With(v, n)' <=> With(v, n)
        /\ worker'[w].msg = jobs[w][1]
        /\ \A v \in Workers \ {w} : worker'[v] = worker[v] /\ jobs'[v] = jobs[v]
        /\ jobs'[w] = Tail(jobs[w]) /\ jobs[w] # <<>>
    BY <1>5, TakeHolds
  <2>2. UNCHANGED <<inFlight, pass>>
    BY <1>5 DEF Take, plan
  <2>3. ASSUME NEW n \in Msgs
        PROVE  InOnePlace(w, n)'
    <3>1. jobs[w] \in Seq(Msgs) /\ InOnePlace(w, n)
      BY <1>0
    <3> QED
      BY <2>1, <3>1, PlaceTaken
  <2>4. ASSUME NEW v \in Workers \ {w}, NEW n \in Msgs
        PROVE  InOnePlace(v, n)'
    <3>1. jobs'[v] = jobs[v] /\ (Busy(v, n)' => Busy(v, n))
      BY <2>1 DEF Busy
    <3> QED
      BY <1>0, <3>1, PlaceUntouched
  <2>5. ASSUME NEW n \in Msgs
        PROVE  InOneHand(n)'
    <3>1. (InPass(n)' <=> InPass(n)) /\ InOneHand(n)
      BY <1>0, <2>2 DEF InPass
    <3> QED
      BY <2>1, <2>2, <3>1 DEF InOneHand
  <2> QED
    BY <2>3, <2>4, <2>5, HolderPartsNext
<1>6. ASSUME NEW w \in Workers, Quiet(w) \/ Stop(w)
      PROVE  OneHolder'
  <2>1. /\ UNCHANGED <<inFlight, pass, jobs>> /\ worker[w].at \in {"loop", "stopping"}
        /\ \E step \in {"loop", "stopping", "off"} : Goto(w, step, None)
    BY <1>6 DEF Quiet, Stop, pool, plan
  <2> PICK step \in {"loop", "stopping", "off"} : Goto(w, step, None)
    BY <2>1
  <2>2. /\ worker'[w].at \in {"loop", "stopping", "off"}
        /\ \A v \in Workers \ {w} : worker'[v] = worker[v]
    BY GotoOk DEF Phases, Working
  <2>3. /\ \A v \in Workers, n \in Msgs : /\ Busy(v, n)' <=> Busy(v, n)
                                          /\ With(v, n)' <=> With(v, n)
        /\ \A n \in Msgs : InPass(n)' <=> InPass(n)
    BY <2>1, <2>2 DEF With, Busy, Queued, InPass, Working
  <2>4. ASSUME NEW n \in Msgs
        PROVE  InOneHand(n)'
    BY Zenon, <1>0, <2>1, <2>3 DEF InOneHand
  <2>5. ASSUME NEW v \in Workers, NEW n \in Msgs
        PROVE  InOnePlace(v, n)'
    BY Zenon, <1>0, <2>1, <2>3, PlaceUntouched
  <2> QED
    BY <2>4, <2>5, HolderPartsNext
<1>7. ASSUME NEW w \in Workers,
             Check(w) \/ Accepted(w) \/ NotAccepted(w) \/ AnswerLost(w) \/ Finish(w)
      PROVE  OneHolder'
  <2> DEFINE m == worker[w].msg
  <2>1. WorkEffect(w)
    BY <1>7, WorkSteps
  <2>2. /\ UNCHANGED <<pass, jobs>> /\ m \in Msgs
        /\ \A n \in Msgs : (InPass(n)' <=> InPass(n)) /\ (Busy(w, n) <=> n = m)
        /\ \A v \in Workers, n \in Msgs : Queued(v, n)' <=> Queued(v, n)
        /\ \A v \in Workers \ {w}, n \in Msgs : Busy(v, n)' <=> Busy(v, n)
    BY <2>1 DEF WorkEffect, InPass, Busy, Queued
  <2>3. \/ UNCHANGED inFlight /\ \A n \in Msgs : Busy(w, n)' <=> n = m
        \/ inFlight' = inFlight \ {m} /\ \A n \in Msgs : ~Busy(w, n)'
    BY <2>1 DEF WorkEffect, Busy, Working
  <2> HIDE DEF m
  <2>4. InOneHand(m) /\ InOnePlace(w, m) /\ With(w, m) /\ Busy(w, m)
    BY Zenon, <1>0, <2>2 DEF With
  <2>5. ~InPass(m) /\ ~Queued(w, m) /\ \A v \in Workers \ {w} : ~With(v, m)
    BY Zenon, <2>2, <2>4 DEF InOneHand, InOnePlace, With
  <2>6. ASSUME NEW v \in Workers, NEW n \in Msgs
        PROVE  InOnePlace(v, n)'
    <3>1. Busy(v, n)' => Busy(v, n)
      BY <2>2, <2>3
    <3> QED
      BY <1>0, <2>2, <3>1, PlaceUntouched
  <2>7. ASSUME NEW n \in Msgs
        PROVE  InOneHand(n)'
    <3>1. CASE UNCHANGED inFlight /\ \A k \in Msgs : Busy(w, k)' <=> k = m
      <4>1. \A v \in Workers : With(v, n)' <=> With(v, n)
        BY <2>2, <3>1 DEF With
      <4> QED
        BY <1>0, <2>2, <3>1, <4>1 DEF InOneHand
    <3>2. CASE inFlight' = inFlight \ {m} /\ \A k \in Msgs : ~Busy(w, k)'
      <4>1. \A v \in Workers : With(v, n)' <=> With(v, n) /\ n # m
        BY <2>2, <2>5, <3>2 DEF With
      <4>2. InOneHand(n)
        BY <1>0
      <4> QED
        BY <2>2, <2>5, <3>2, <4>1, <4>2 DEF InOneHand
    <3> QED
      BY <2>3, <3>1, <3>2
  <2> QED
    BY <2>6, <2>7, HolderPartsNext
<1>8. CASE Crash
  <2>1. inFlight' = {} /\ \A n \in Msgs : ~InPass(n)'
    BY <1>8 DEF Crash, InPass
  <2>2. \A w \in Workers : worker'[w] = Off /\ jobs'[w] = <<>>
    BY <1>8 DEF Crash
  <2>3. \A w \in Workers, n \in Msgs : ~Busy(w, n)' /\ ~Queued(w, n)' /\ InOnePlace(w, n)'
    BY <2>2 DEF Busy, Queued, InOnePlace, Off, Working
  <2>4. \A n \in Msgs : InOneHand(n)'
    BY <2>1, <2>3 DEF InOneHand, With
  <2> QED
    BY <2>3, <2>4, HolderPartsNext
<1>9. CASE UNCHANGED vars
  BY <1>9, HolderUntouched DEF vars, plan, pool, InPass
<1> QED
  BY <1>1, <1>2, <1>3, <1>4, <1>5, <1>6, <1>7, <1>8, <1>9 DEF Next, Dispatch, Work

-----------------------------------------------------------------------------
(* The theorems                                                            *)

\* The claims and the pool are right at every moment of the poll loop, of the workers and
\* across crashes.
THEOREM HandsInvariance == Spec => []HandsInv
<1>1. Init => HandsInv
  BY TypesInit, PoolInit, HolderInit DEF HandsInv
<1>2. HandsInv /\ [Next]_vars => HandsInv'
  BY TypesStep, PoolStep, HolderStep DEF HandsInv
<1> QED
  BY <1>1, <1>2, PTL DEF Spec

\* The bridge's state has its type; in particular no worker's queue is over its size.
THEOREM TypeCorrect == Spec => []TypeOK
<1>1. HandsInv => TypeOK
  BY DEF HandsInv, Types
<1> QED
  BY <1>1, HandsInvariance, PTL

\* For any number of envelopes and workers, claim and release keep an envelope in one
\* hand at a time, and no claim is left behind.
THEOREM OneHolderHolds == Spec => []OneHolder
<1>1. HandsInv => OneHolder
  BY DEF HandsInv
<1> QED
  BY <1>1, HandsInvariance, PTL

\* The pool of domain workers is sound: no job is on a worker that has stopped, and a
\* domain's mail is with its own worker only.
THEOREM PoolSoundHolds == Spec => []PoolSound
<1>1. HandsInv => PoolSound
  BY DEF HandsInv
<1> QED
  BY <1>1, HandsInvariance, PTL
=============================================================================
