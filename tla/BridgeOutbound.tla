--------------------------- MODULE BridgeOutbound ---------------------------
(***************************************************************************)
(* The bridge's outbound queue (internal/bridge/bridge.go, outbound.go):   *)
(* a poll loop lists the envelopes addressed to the bridge, claims each    *)
(* one that is due, opens it and puts it on the worker of its recipient's  *)
(* domain; a worker drains one domain's queue over SMTP and goes back to   *)
(* the pool.  An envelope leaves its store when the bridge is finished     *)
(* with it.                                                                *)
(*                                                                         *)
(* The ticker may fire at any time, so nudge adds no behaviour.  A bridge  *)
(* that stops in order does a part of what one that crashes does.          *)
(***************************************************************************)
EXTENDS Integers, Sequences, FiniteSets

CONSTANTS
    Msgs,        \* envelopes addressed to the bridge, by hash
    Domains,     \* recipient domains
    Domain,      \* [Msgs -> Domains]
    Keys,        \* delivery keys: message ID and recipient
    Key,         \* [Msgs -> Keys]
    Mailbox,     \* the envelopes in the durable mailbox; the others are in flight
    Unopenable,  \* the envelopes that do not decrypt
    Workers,
    QueueSize,   \* domainQueueSize
    DedupMax,    \* outboundDedupMax
    None,
    MaxArrivals, \* bound: envelopes that arrive
    MaxFaults    \* bound: crashes, lost answers, failed listings, loads and deletions

\* domainOf looks at the address that a delivery key holds.
ASSUME BridgeAssumption ==
    /\ Domain \in [Msgs -> Domains] /\ Key \in [Msgs -> Keys]
    /\ \A m, n \in Msgs : Key[m] = Key[n] => Domain[m] = Domain[n]
    /\ Mailbox \subseteq Msgs /\ Unopenable \subseteq Msgs
    /\ None \notin Workers \cup Msgs
    /\ None \notin [items : SUBSET Msgs, msg : Msgs \cup {None}, expired : BOOLEAN, opened : BOOLEAN]
    /\ QueueSize \in Nat \ {0} /\ DedupMax \in Nat /\ MaxArrivals \in Nat /\ MaxFaults \in Nat

VARIABLES
    place,     \* envelope -> "coming", "stored" or "gone"
    old,       \* envelopes that have been queued for maxAge
    waiting,   \* envelopes whose next attempt (retries) is not yet due
    inFlight,  \* envelopes that are claimed
    routed,    \* envelopes whose domain is known
    pass,      \* the poll loop's pass, or None
    active,    \* domain -> its worker, or None
    jobs,      \* worker -> queue of envelopes
    worker,    \* worker -> what its goroutine is doing, with which envelope
    seen,      \* messageDedup
    failed,    \* history: envelopes that the bridge finished without a delivery
    reached,   \* history: delivery keys that a remote server accepted
    sent,      \* history: delivery key -> how often the bridge was told that it was
               \* accepted, since the bridge's memory last started over
    faults     \* bound: how many faults happened

queue == <<place, old>>
plan == <<waiting, inFlight, routed>>
pool == <<active, jobs>>
history == <<failed, reached, sent>>
vars == <<queue, plan, pass, pool, worker, seen, history, faults>>

Phases == {"off", "loop", "stopping", "check", "deliver", "finish"}
Working == {"check", "deliver", "finish"}

TypeOK ==
    /\ place \in [Msgs -> {"coming", "stored", "gone"}] /\ old \subseteq Msgs
    /\ waiting \subseteq Msgs /\ inFlight \subseteq Msgs /\ routed \subseteq Msgs
    /\ pass # None =>
          /\ DOMAIN pass = {"items", "msg", "expired", "opened"}
          /\ pass.items \subseteq Msgs /\ pass.msg \in Msgs \cup {None}
          /\ pass.expired \in BOOLEAN /\ pass.opened \in BOOLEAN
    /\ active \in [Domains -> Workers \cup {None}]
    /\ jobs \in [Workers -> Seq(Msgs)]
    /\ \A w \in Workers : Len(jobs[w]) <= QueueSize
    /\ worker \in [Workers -> [at : Phases, msg : Msgs \cup {None}]]
    /\ seen \subseteq Keys
    /\ failed \subseteq Msgs /\ reached \subseteq Keys /\ sent \in [Keys -> Nat]
    /\ faults \in 0..MaxFaults

Stored == {m \in Msgs : place[m] = "stored"}
Idle == {w \in Workers : \A d \in Domains : active[d] # w}
Unsent == [k \in Keys |-> 0]
Off == [at |-> "off", msg |-> None]

Init ==
    /\ place = [m \in Msgs |-> "coming"] /\ old = {}
    /\ waiting = {} /\ inFlight = {} /\ routed = {}
    /\ pass = None
    /\ active = [d \in Domains |-> None] /\ jobs = [w \in Workers |-> <<>>]
    /\ worker = [w \in Workers |-> Off]
    /\ seen = {}
    /\ failed = {} /\ reached = {} /\ sent = Unsent
    /\ faults = 0

Fault == faults < MaxFaults /\ faults' = faults + 1

-----------------------------------------------------------------------------
(* What happens around the bridge                                          *)

Arrive(m) ==
    /\ place[m] = "coming" /\ Cardinality({n \in Msgs : place[n] # "coming"}) < MaxArrivals
    /\ place' = [place EXCEPT ![m] = "stored"]
    /\ UNCHANGED <<old, plan, pass, pool, worker, seen, history, faults>>

Age(m) ==
    /\ place[m] = "stored" /\ m \notin old
    /\ old' = old \cup {m}
    /\ UNCHANGED <<place, plan, pass, pool, worker, seen, history, faults>>

Due(m) ==
    /\ m \in waiting
    /\ waiting' = waiting \ {m}
    /\ UNCHANGED <<queue, inFlight, routed, pass, pool, worker, seen, history, faults>>

\* Only the stores survive.
Crash ==
    /\ Fault
    /\ waiting' = {} /\ inFlight' = {} /\ routed' = {}
    /\ pass' = None
    /\ active' = [d \in Domains |-> None] /\ jobs' = [w \in Workers |-> <<>>]
    /\ worker' = [w \in Workers |-> Off]
    /\ seen' = {}
    /\ sent' = Unsent
    /\ UNCHANGED <<queue, failed, reached>>

-----------------------------------------------------------------------------
(* Steps that several handlers share                                       *)

Finished(m) ==
    /\ waiting' = waiting \ {m}
    /\ routed' = routed \ {m}

\* finished, for an envelope that is not delivered.
Failed(m) ==
    /\ Finished(m)
    /\ failed' = failed \cup {m}
    /\ UNCHANGED <<reached, sent>>

\* An item's remove, whose error is only logged.
Remove(m) ==
    \/ place' = [place EXCEPT ![m] = "gone"] /\ UNCHANGED faults
    \/ UNCHANGED place /\ Fault

DeferRetry(m) == waiting' = waiting \cup {m}

Goto(w, step, m) == worker' = [worker EXCEPT ![w] = [at |-> step, msg |-> m]]

HasRoom(d) ==
    IF active[d] # None THEN Len(jobs[active[d]]) < QueueSize ELSE Idle # {}

-----------------------------------------------------------------------------
(* The poll loop                                                           *)

\* The pass goes on with the items that are left.
PassOn(items) ==
    IF items = {} THEN None
    ELSE [items |-> items, msg |-> None, expired |-> FALSE, opened |-> FALSE]

Release(m) ==
    /\ inFlight' = inFlight \ {m}
    /\ pass' = PassOn(pass.items)

\* processPending up to the loop of dispatch.  What has left the queue is forgotten,
\* unless the mailbox could not be listed.
List(complete) ==
    /\ pass = None
    /\ IF complete THEN UNCHANGED faults ELSE Fault
    /\ pass' = PassOn(IF complete THEN Stored ELSE Stored \ Mailbox)
    /\ waiting' = IF complete THEN waiting \cap Stored ELSE waiting
    /\ routed' = IF complete THEN routed \cap Stored ELSE routed
    /\ UNCHANGED <<queue, inFlight, pool, worker, seen, history>>

Claimable(m) == m \notin inFlight /\ m \notin waiting

\* The items of the in-flight store come before those of the mailbox.
Claim(m) ==
    /\ pass # None /\ pass.msg = None /\ m \in pass.items
    /\ m \in Mailbox => pass.items \subseteq Mailbox
    /\ IF Claimable(m)
       THEN /\ inFlight' = inFlight \cup {m}
            /\ pass' = [items |-> pass.items \ {m}, msg |-> m, expired |-> m \in old, opened |-> FALSE]
       ELSE pass' = PassOn(pass.items \ {m}) /\ UNCHANGED inFlight
    /\ UNCHANGED <<queue, waiting, routed, pool, worker, seen, history, faults>>

Current(m, opened) == pass # None /\ pass.msg = m /\ pass.opened = opened

\* A message whose domain has no room is not opened just to find that out.
Waits(m) == m \in routed /\ ~pass.expired /\ ~HasRoom(Domain[m])

SkipFull(m) ==
    /\ Current(m, FALSE) /\ Waits(m)
    /\ Release(m)
    /\ UNCHANGED <<queue, waiting, routed, pool, worker, seen, history, faults>>

\* An item of the in-flight store holds its envelope; a body is read from the mailbox.
Loads(m) == m \in Mailbox => place[m] = "stored"

Open(m) ==
    /\ Current(m, FALSE) /\ ~Waits(m)
    /\ Loads(m) /\ m \notin Unopenable
    /\ routed' = routed \cup {m}
    /\ pass' = [pass EXCEPT !.opened = TRUE]
    /\ UNCHANGED <<queue, waiting, inFlight, pool, worker, seen, history, faults>>

\* open cannot load the envelope, and a later pass tries again.
LoadLater(m) ==
    /\ Current(m, FALSE) /\ ~Waits(m)
    /\ m \notin old
    /\ IF Loads(m) THEN Fault ELSE UNCHANGED faults
    /\ DeferRetry(m)
    /\ Release(m)
    /\ UNCHANGED <<queue, routed, pool, worker, seen, history>>

\* drop: the envelope does not decrypt, or could not be loaded in its lifetime.
Drop(m) ==
    /\ Current(m, FALSE) /\ ~Waits(m)
    /\ \/ Loads(m) /\ m \in Unopenable /\ Remove(m)
       \/ m \in old /\ ~Loads(m) /\ Remove(m)
       \/ m \in old /\ Fault /\ place' \in {place, [place EXCEPT ![m] = "gone"]}
    /\ Failed(m)
    /\ Release(m)
    /\ UNCHANGED <<old, pool, worker, seen>>

\* The domain's worker, or one from the pool; idle workers are all alike.
WorkerFor(d) == IF active[d] # None THEN active[d] ELSE CHOOSE w \in Idle : TRUE

\* enqueue: on the domain's worker, or on one from the pool, whose goroutine starts.
Enqueue(m) ==
    /\ Current(m, TRUE) /\ HasRoom(Domain[m])
    /\ LET w == WorkerFor(Domain[m]) IN
          /\ active' = [active EXCEPT ![Domain[m]] = w]
          /\ jobs' = [jobs EXCEPT ![w] = Append(@, m)]
          /\ IF w \in Idle THEN Goto(w, "loop", None) ELSE UNCHANGED worker
    /\ pass' = PassOn(pass.items)
    /\ UNCHANGED <<queue, plan, seen, history, faults>>

\* No room after all: a later pass takes it.
EnqueueFull(m) ==
    /\ Current(m, TRUE) /\ ~HasRoom(Domain[m]) /\ ~pass.expired
    /\ Release(m)
    /\ UNCHANGED <<queue, waiting, routed, pool, worker, seen, history, faults>>

\* Its lifetime ran out before a worker was free.  The sender is told, if the record
\* that the bridge can look up now proves that they sent it.
ExpireUnsent(m) ==
    /\ Current(m, TRUE) /\ ~HasRoom(Domain[m]) /\ pass.expired
    /\ Failed(m)
    /\ Remove(m)
    /\ Release(m)
    /\ UNCHANGED <<old, pool, worker, seen>>

-----------------------------------------------------------------------------
(* A domain worker                                                         *)

Take(w) ==
    /\ worker[w].at = "loop" /\ jobs[w] # <<>>
    /\ jobs' = [jobs EXCEPT ![w] = Tail(@)]
    /\ Goto(w, "check", Head(jobs[w]))
    /\ UNCHANGED <<queue, plan, pass, active, seen, history, faults>>

\* It finds the queue empty, and goes on to take the pool's lock.
Quiet(w) ==
    /\ worker[w].at = "loop" /\ jobs[w] = <<>>
    /\ Goto(w, "stopping", None)
    /\ UNCHANGED <<queue, plan, pass, pool, seen, history, faults>>

\* Mutant: the queue is not looked at again under the lock.
StopUnchecked(w) ==
    /\ worker[w].at = "stopping"
    /\ Goto(w, "off", None)
    /\ active' = [d \in Domains |-> IF active[d] = w THEN None ELSE active[d]]
    /\ UNCHANGED <<queue, plan, pass, jobs, seen, history, faults>>

Stop(w) ==
    /\ worker[w].at = "stopping"
    /\ IF jobs[w] # <<>>
       THEN Goto(w, "loop", None) /\ UNCHANGED active
       ELSE /\ Goto(w, "off", None)
            /\ active' = [d \in Domains |-> IF active[d] = w THEN None ELSE active[d]]
    /\ UNCHANGED <<queue, plan, pass, jobs, seen, history, faults>>

\* Mutant: the lifetime is not looked at.
RetryForever(w, m) ==
    /\ DeferRetry(m)
    /\ inFlight' = inFlight \ {m}
    /\ Goto(w, "loop", None)
    /\ UNCHANGED routed

\* Mutant: an envelope that was deferred is removed like one that was delivered.
RetryRemoves(w, m) ==
    /\ DeferRetry(m)
    /\ Goto(w, "finish", worker[w].msg)
    /\ UNCHANGED <<inFlight, routed>>

\* No verdict, and time for another attempt: deferRetry, and the claim ends.
Retry(w, m) ==
    /\ m \notin old
    /\ DeferRetry(m)
    /\ inFlight' = inFlight \ {m}
    /\ Goto(w, "loop", None)
    /\ UNCHANGED routed

\* attempt has a verdict, or gives up; the envelope is still to be removed.
Verdict(w) ==
    /\ Finished(worker[w].msg)
    /\ Goto(w, "finish", worker[w].msg)
    /\ UNCHANGED inFlight

Fail(w, m) ==
    /\ Verdict(w)
    /\ failed' = failed \cup {m}
    /\ UNCHANGED <<reached, sent>>

\* Send up to the delivery: the sender cannot be verified, or not now; is refused
\* for good; is over the limit; or this message has reached this recipient before.
Check(w) ==
    LET m == worker[w].msg IN
    /\ worker[w].at = "check"
    /\ \/ Retry(w, m) /\ UNCHANGED history
       \/ Fail(w, m)
       \/ Key[m] \in seen /\ Verdict(w) /\ UNCHANGED history
       \/ /\ Key[m] \notin seen
          /\ Goto(w, "deliver", worker[w].msg)
          /\ UNCHANGED <<plan, history>>
    /\ UNCHANGED <<queue, pass, pool, seen, faults>>

\* dedup.mark, which starts over when it is full.
Mark(k) ==
    IF Cardinality(seen) >= DedupMax
    THEN seen' = {k} /\ sent' = [Unsent EXCEPT ![k] = 1]
    ELSE seen' = seen \cup {k} /\ sent' = [sent EXCEPT ![k] = @ + 1]

\* Mutant: the delivery is not remembered.
AcceptedUnmarked(w) ==
    LET m == worker[w].msg IN
    /\ worker[w].at = "deliver"
    /\ reached' = reached \cup {Key[m]}
    /\ sent' = [sent EXCEPT ![Key[m]] = @ + 1]
    /\ Verdict(w)
    /\ UNCHANGED <<queue, pass, pool, seen, failed, faults>>

Accepted(w) ==
    LET m == worker[w].msg IN
    /\ worker[w].at = "deliver"
    /\ reached' = reached \cup {Key[m]}
    /\ Mark(Key[m])
    /\ Verdict(w)
    /\ UNCHANGED <<queue, pass, pool, failed, faults>>

\* The remote side refuses for good, or defers until the lifetime is over.
NotAccepted(w) ==
    LET m == worker[w].msg IN
    /\ worker[w].at = "deliver"
    /\ \/ Retry(w, m) /\ UNCHANGED history
       \/ Fail(w, m)
    /\ UNCHANGED <<queue, pass, pool, seen, faults>>

\* The remote server accepts the message and its answer is lost, which counts as
\* deferred, or as refused when the domain's next server refuses the message.
AnswerLost(w) ==
    LET m == worker[w].msg IN
    /\ worker[w].at = "deliver"
    /\ Fault
    /\ reached' = reached \cup {Key[m]}
    /\ \/ Retry(w, m) /\ UNCHANGED failed
       \/ Verdict(w) /\ failed' = failed \cup {m}
    /\ UNCHANGED <<queue, pass, pool, seen, sent>>

\* runJob removes the envelope and ends the claim.
Finish(w) ==
    LET m == worker[w].msg IN
    /\ worker[w].at = "finish"
    /\ Remove(m)
    /\ inFlight' = inFlight \ {m}
    /\ Goto(w, "loop", None)
    /\ UNCHANGED <<old, waiting, routed, pass, pool, seen, history>>

-----------------------------------------------------------------------------

Dispatch(m) ==
    \/ Claim(m) \/ SkipFull(m) \/ Open(m) \/ LoadLater(m) \/ Drop(m)
    \/ Enqueue(m) \/ EnqueueFull(m) \/ ExpireUnsent(m)

Work(w) ==
    \/ Take(w) \/ Quiet(w) \/ Stop(w) \/ Check(w)
    \/ Accepted(w) \/ NotAccepted(w) \/ AnswerLost(w) \/ Finish(w)

Next ==
    \/ \E m \in Msgs : Arrive(m) \/ Age(m) \/ Due(m) \/ Dispatch(m)
    \/ \E complete \in BOOLEAN : List(complete)
    \/ \E w \in Workers : Work(w)
    \/ Crash

Spec == Init /\ [][Next]_vars

\* The ticker goes on, time passes, goroutines run, and an SMTP session is bounded by
\* its deadline.
FairSpec ==
    /\ Spec
    /\ WF_vars(List(TRUE))
    /\ WF_vars(\E m \in Msgs : Dispatch(m))
    /\ WF_vars(\E m \in Msgs : Age(m)) /\ WF_vars(\E m \in Msgs : Due(m))
    /\ \A w \in Workers : WF_vars(Work(w))

-----------------------------------------------------------------------------
(* Properties                                                              *)

InPass(m) == pass # None /\ pass.msg = m
Busy(w, m) == worker[w].at \in Working /\ worker[w].msg = m
Queued(w, m) == \E i \in 1..Len(jobs[w]) : jobs[w][i] = m
With(w, m) == Busy(w, m) \/ Queued(w, m)

\* "claim marks an envelope as under way if ... no attempt at it is running": whatever
\* passes, workers and crashes do, an envelope that is claimed is in exactly one hand,
\* the pass, a place in a worker's queue or a worker's attempt; and one that is not
\* claimed is in none, so no claim is left behind that would keep it waiting for ever.
OneHolder ==
    \A m \in Msgs :
        /\ m \in inFlight <=> InPass(m) \/ \E w \in Workers : With(w, m)
        /\ \A w \in Workers :
              /\ With(w, m) => ~InPass(m) /\ \A v \in Workers : With(v, m) => v = w
              /\ Busy(w, m) => ~Queued(w, m)
              /\ \A i, j \in 1..Len(jobs[w]) : jobs[w][i] = m /\ jobs[w][j] = m => i = j

\* "nothing can be queued on a worker that has just decided to stop": a worker in the
\* pool has no jobs and runs no goroutine, a worker drains one domain, and a domain's
\* mail is with no other worker than its own.
PoolSound ==
    \A w \in Workers :
        /\ w \in Idle <=> worker[w].at = "off"
        /\ w \in Idle => jobs[w] = <<>>
        /\ \A d, e \in Domains : active[d] = w /\ active[e] = w => d = e
        /\ \A m \in Msgs : With(w, m) => active[Domain[m]] = w

\* "never deliver the same DMCN message to the same recipient twice": also when it is
\* queued in several envelopes and a pass works from an old listing, the bridge is told
\* once that a message was accepted, until a crash or a full memory makes it forget.
AtMostOnce == \A k \in Keys : sent[k] <= 1

\* An envelope of the mailbox that the bridge has removed is never with a worker again,
\* although a pass that began before may still have it in its listing.
RemovedStaysRemoved ==
    \A m \in Mailbox : \A w \in Workers : With(w, m) => place[m] = "stored"

\* So the claims, the pool, the queues and the store agree on who has what.
HandsAgree == OneHolder /\ PoolSound /\ RemovedStaysRemoved

\* "an envelope leaves its store once the bridge is finished with it: delivered, refused
\* with a verdict or for good, or given up on after maxAge", never before: what is gone
\* was accepted by a server, or failed with a verdict or by its age, which its sender
\* is told if they are known to have sent it, or could not be read.
NothingSilent ==
    \A m \in Msgs : place[m] = "gone" => m \in failed \/ Key[m] \in reached

\* "kept for good it would be retried, and stored, forever": every envelope that is
\* stored leaves its store.  An envelope arrives once, so this says that in the end,
\* and for good, nothing is stored.
Settles == <>[](Stored = {})
=============================================================================
