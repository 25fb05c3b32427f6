------------------------------ MODULE ModelGate ------------------------------
(***************************************************************************)
(* The concurrency gate of one model (services/csp/app/services/           *)
(* model_gate.py) and the calls of the model proxy that go through it.     *)
(*                                                                         *)
(* The gate's record lives in Redis: leases of the calls that run, and a   *)
(* queue per user of those that wait.  A step of a caller reads the time,  *)
(* waits for the record's lock, and then applies one operation to it.      *)
(* Times are relative: what is left of a lease, how long ago a caller gave *)
(* a sign of life; since[t] is how long a caller has been in its present   *)
(* step or sleep, so a step that gets the lock judges the record by a      *)
(* clock since[t] ticks old.  The longest wait, QUEUE_WAIT_SECONDS, is far *)
(* above the other times and not counted: it may be over at any tick.      *)
(*                                                                         *)
(* The lock is a key that expires after LockTtl.  Whoever takes it and is  *)
(* killed, loses the answer or fails to give it back leaves it behind: the *)
(* steps of all callers then give up after LockWait until it has expired.  *)
(***************************************************************************)
EXTENDS Integers, Sequences, FiniteSets, Functions

CONSTANTS
    Tickets, Users, UserOf,
    Limit,          \* model_registry.max_concurrent, at least 1
    Lease,          \* how long a slot is held without a pulse
    Stale,          \* a waiter silent for longer is dropped
    Poll,           \* a waiter sleeps this long at most between polls
    PulseGap,       \* a holder sleeps this long at most between pulses
    LockWait,       \* a step gives up on the lock after this long
    LockTtl,        \* a lock that nobody gives back expires after this long
    Slow,           \* the callers whose steps may wait for the lock (a bound of the model)
    Faults,         \* which of "step_fails", "unlock_fails", "cut_off", "caller_dies" happen
    MaxFaults       \* how often (a bound of the model)

ASSUME GateAssumption ==
    /\ UserOf \in [Tickets -> Users]
    /\ {Limit, Lease, Stale, Poll, PulseGap, LockWait, LockTtl} \subseteq Nat \ {0}
    /\ Slow \subseteq Tickets /\ MaxFaults \in Nat

VARIABLES
    gate,       \* [inflight, order, queues, meta]: the record in Redis
    pc,         \* what the call of a ticket is doing
    since,      \* for how long
    pulse,      \* its pulse task: [at, since]
    blocked,    \* how long a lock left behind will still stand; 0: there is none
    missed,     \* how many polls of a waiting caller failed in a row, 2 for more (history)
    ahead,      \* <<u, v>>: u was served since v began to wait (history)
    idle,       \* ticks a slot was free, live callers waited and the head of the line did not change (history)
    faults

vars == <<gate, pc, since, pulse, blocked, missed, ahead, idle, faults>>

Off == [at |-> "off", since |-> 0]
Sleeping == [at |-> "sleep", since |-> 0]

fresh_state == [inflight |-> <<>>, order |-> <<>>,
                queues |-> [u \in Users |-> <<>>], meta |-> <<>>]

\* Nothing reads what is noted of a ticket that holds a lease.
Holder == [beat |-> 0, over |-> FALSE]

Forget(f, s) == Restrict(f, DOMAIN f \ s)
With(f, t, v) == [x \in DOMAIN f \cup {t} |-> IF x = t THEN v ELSE f[x]]
Held(g) == DOMAIN g.inflight
Queued(g) == DOMAIN g.meta \ Held(g)
Known(g) == DOMAIN g.meta \cup Held(g)
Waiters(g) == {u \in Users : g.queues[u] # <<>>}

\* s without the members of gone.
Without(s, gone) ==
    LET kept == {i \in DOMAIN s : s[i] \notin gone}
        nth(n) == CHOOSE i \in kept : Cardinality({j \in kept : j <= i}) = n
    IN  [n \in 1..Cardinality(kept) |-> s[nth(n)]]

OnlyWaiters(q, order) == Without(order, {u \in Users : q[u] = <<>>})

-----------------------------------------------------------------------------
(* The pure functions of the gate; d is the age of the clock they are given. *)

\* Mutant: a waiter is dropped one tick too early.
PurgedEarly(g, d) ==
    LET expired == {t \in Held(g) : g.inflight[t] + d <= 0}
        silent == {t \in Queued(g) : g.meta[t].beat - d >= Stale}
        queues == [u \in Users |-> Without(g.queues[u], silent)]
    IN  [inflight |-> Forget(g.inflight, expired),
         meta |-> Forget(g.meta, expired \cup silent),
         queues |-> queues,
         order |-> OnlyWaiters(queues, g.order)]
\* Mutant: only leases expire; a waiter is never dropped.
PurgedLeases(g, d) ==
    LET expired == {t \in Held(g) : g.inflight[t] + d <= 0}
    IN  [g EXCEPT !.inflight = Forget(@, expired), !.meta = Forget(@, expired)]
\* _purge: expired leases go, and waiters silent for longer than Stale.
Purged(g, d) ==
    LET expired == {t \in Held(g) : g.inflight[t] + d <= 0}
        silent == {t \in Queued(g) : g.meta[t].beat - d > Stale}
        queues == [u \in Users |-> Without(g.queues[u], silent)]
    IN  [inflight |-> Forget(g.inflight, expired),
         meta |-> Forget(g.meta, expired \cup silent),
         queues |-> queues,
         order |-> OnlyWaiters(queues, g.order)]

\* _head: the first ticket of the first user in the rotation that has any.
FirstInLine(g) ==
    {Head(g.queues[g.order[i]]) : i \in {k \in DOMAIN g.order :
        /\ g.queues[g.order[k]] # <<>>
        /\ \A j \in 1..(k - 1) : g.queues[g.order[j]] = <<>>}}
IsHead(g, t) == t \in FirstInLine(g)

\* Mutant: the user stays at the head of the rotation while more of its tickets wait.
GrantedStays(g, t, d) ==
    LET u == UserOf[t]
        rest == Tail(g.queues[u])
    IN  [inflight |-> With(g.inflight, t, Lease - d),
         meta |-> With(g.meta, t, Holder),
         queues |-> [g.queues EXCEPT ![u] = rest],
         order |-> OnlyWaiters([g.queues EXCEPT ![u] = rest], g.order)]

\* _grant: the ticket leaves the queue with a lease; its user goes to the end of
\* the rotation while more of its tickets wait.
Granted(g, t, d) ==
    LET u == UserOf[t]
        rest == Tail(g.queues[u])
    IN  [inflight |-> With(g.inflight, t, Lease - d),
         meta |-> With(g.meta, t, Holder),
         queues |-> [g.queues EXCEPT ![u] = rest],
         order |-> Tail(g.order) \o (IF rest = <<>> THEN <<>> ELSE <<u>>)]
\* _enqueue
Enqueued(g, t, d) ==
    LET u == UserOf[t]
    IN  [inflight |-> g.inflight,
         meta |-> With(g.meta, t, [beat |-> d, over |-> FALSE]),
         queues |-> [g.queues EXCEPT ![u] = Append(@, t)],
         order |-> IF u \in Range(g.order) THEN g.order ELSE Append(g.order, u)]

\* A new ticket is let in at once.
Entered(g, t, d) ==
    [inflight |-> With(g.inflight, t, Lease - d),
     meta |-> With(g.meta, t, Holder),
     queues |-> g.queues,
     order |-> g.order]

\* Mutant: a user whose queue empties keeps its place in the rotation.
ReleasedKeepsOrder(g, t, d) ==
    LET h == Purged(g, d)
        queues == [h.queues EXCEPT ![UserOf[t]] = Without(@, {t})]
    IN  [inflight |-> Forget(h.inflight, {t}), meta |-> Forget(h.meta, {t}),
         queues |-> queues, order |-> h.order]
\* apply("release")
Released(g, t, d) ==
    LET h == Purged(g, d)
        queues == [h.queues EXCEPT ![UserOf[t]] = Without(@, {t})]
    IN  [inflight |-> Forget(h.inflight, {t}), meta |-> Forget(h.meta, {t}),
         queues |-> queues, order |-> OnlyWaiters(queues, h.order)]

\* Mutant: a pulse gives a sign of life but does not renew the lease.
PulsedNoLease(g, t, d) == Purged(g, d)
\* apply("pulse"): only a lease that is still there is renewed.
Pulsed(g, t, d) ==
    LET h == Purged(g, d)
    IN  IF t \in Held(h) THEN [h EXCEPT !.inflight[t] = Lease - d] ELSE h

\* apply("arrive"): let in only if a slot is free and nobody waits.
Arrived(g, t, d) ==
    LET h == Purged(g, d)
    IN  IF Cardinality(Held(h)) < Limit /\ Waiters(h) = {}
        THEN Entered(h, t, d)
        ELSE Enqueued(h, t, d)

\* A poll is a sign of life.
Seen(g, t, d) == IF t \in Queued(g) THEN [g EXCEPT !.meta[t].beat = d] ELSE g
\* apply("poll"): the sign of life is noted first, then the caller is told its status.
PollOf(g, t, d) ==
    LET h == Purged(Seen(g, t, d), d)
        over == h.meta[t].over
    IN  CASE t \in Held(h) -> [status |-> "granted", gate |-> h]
          [] t \notin Known(h) -> [status |-> "missing", gate |-> h]
          [] t \in Queued(h) /\ over ->
               [status |-> "timeout", gate |-> Released(h, t, d)]
          [] t \in Queued(h) /\ ~over ->
               IF Cardinality(Held(h)) < Limit /\ IsHead(h, t)
               THEN [status |-> "granted", gate |-> Granted(h, t, d)]
               ELSE [status |-> "queued", gate |-> h]
-----------------------------------------------------------------------------
Init ==
    /\ gate = fresh_state
    /\ pc = [t \in Tickets |-> "none"]
    /\ since = [t \in Tickets |-> 0]
    /\ pulse = [t \in Tickets |-> Off]
    /\ blocked = 0 /\ missed = [t \in Tickets |-> 0]
    /\ ahead = {} /\ idle = 0 /\ faults = 0

\* The record becomes g; the histories follow.
Write(g) ==
    LET served == {UserOf[t] : t \in Held(g) \cap Queued(gate)}
        still == {UserOf[t] : t \in Queued(g) \cap Queued(gate)}
    IN  /\ gate' = g
        /\ ahead' = {p \in ahead \cup (served \X Users) : p[2] \in still \ served}
        /\ idle' = IF FirstInLine(g) = FirstInLine(gate) THEN idle ELSE 0

Fault(f) == f \in Faults /\ faults < MaxFaults /\ faults' = faults + 1
LockLeft == blocked = 0 /\ blocked' = LockTtl

\* A step gets the lock and does its work.  An unlock that fails is only logged.
Works(g) ==
    /\ blocked = 0 /\ Write(g)
    /\ \/ UNCHANGED <<blocked, faults>>
       \/ Fault("unlock_fails") /\ LockLeft

\* A step fails: Redis does not answer, where what it wrote may have arrived and the
\* lock it took may stay, or the lock was not to be had in age ticks.
Fails(g, age) ==
    \/ /\ blocked = 0 /\ Fault("step_fails")
       /\ \E h \in {gate, g} : Write(h)
       /\ UNCHANGED blocked \/ LockLeft
    \/ /\ blocked > 0 /\ Write(gate) /\ UNCHANGED blocked
       /\ (age = LockWait /\ UNCHANGED faults) \/ Fault("step_fails")

Go(t, at) ==
    /\ pc' = [pc EXCEPT ![t] = at] /\ since' = [since EXCEPT ![t] = 0]
    /\ missed' = [missed EXCEPT ![t] = 0]
Enters(t) == Go(t, "running") /\ pulse' = [pulse EXCEPT ![t] = Sleeping]
Leaves(t) == Go(t, "releasing") /\ pulse' = [pulse EXCEPT ![t] = Off]
InStep(t) == pc[t] \in {"arriving", "polling", "releasing"} \/ pulse[t].at = "step"

\* A new call: a fresh ticket.  A ticket is used again once the gate has
\* forgotten it, where the code draws a new uuid.
Begin(t) ==
    /\ pc[t] = "none" /\ t \notin Known(gate)
    /\ Go(t, "arriving")
    /\ UNCHANGED <<gate, pulse, blocked, ahead, idle, faults>>

Arrive(t) ==
    /\ pc[t] = "arriving"
    /\ LET g == Arrived(gate, t, since[t])
       IN  /\ Works(g)
           /\ IF t \in Held(g) THEN Enters(t) ELSE Go(t, "sleeping") /\ UNCHANGED pulse

\* The caller is refused, and leaves what it may have written to its release.
ArriveFails(t) ==
    /\ pc[t] = "arriving" /\ Fails(Arrived(gate, t, since[t]), since[t])
    /\ Leaves(t)

PollStep(t) ==
    /\ pc[t] = "polling"
    /\ LET told == PollOf(gate, t, since[t])
       IN  /\ Works(told.gate)
           /\ \/ told.status = "granted" /\ Enters(t)
              \/ told.status \in {"missing", "timeout"} /\ Leaves(t)
              \/ told.status = "queued" /\ Go(t, "sleeping") /\ UNCHANGED pulse

\* A poll that fails counts as "queued", whether or not its write arrived.
PollFails(t) ==
    /\ pc[t] = "polling" /\ Fails(PollOf(gate, t, since[t]).gate, since[t])
    /\ pc' = [pc EXCEPT ![t] = "sleeping"] /\ since' = [since EXCEPT ![t] = 0]
    /\ missed' = [missed EXCEPT ![t] = IF @ = 0 THEN 1 ELSE 2]
    /\ UNCHANGED pulse

PulseStep(t) ==
    /\ pulse[t].at = "step"
    /\ Works(Pulsed(gate, t, pulse[t].since))
    /\ pulse' = [pulse EXCEPT ![t] = Sleeping]
    /\ UNCHANGED <<pc, since, missed>>

\* A pulse that fails ends the loop; the call goes on.
PulseFails(t) ==
    /\ pulse[t].at = "step" /\ Fails(Pulsed(gate, t, pulse[t].since), pulse[t].since)
    /\ pulse' = [pulse EXCEPT ![t] = [at |-> "dead", since |-> 0]]
    /\ UNCHANGED <<pc, since, missed>>

\* The model answered or failed, or the client went away: what the call and its pulse
\* do is cancelled.  A cancelled step gives its lock back, unless it was still
\* waiting to hear that it had it.
Finish(t) ==
    /\ pc[t] \in {"running", "sleeping", "arriving", "polling"}
    /\ Leaves(t)
    /\ \/ UNCHANGED <<blocked, faults>>
       \/ InStep(t) /\ Fault("cut_off") /\ LockLeft
    /\ UNCHANGED <<gate, ahead, idle>>

Release(t) ==
    /\ pc[t] = "releasing"
    /\ Works(Released(gate, t, since[t]))
    /\ Go(t, "none")
    /\ UNCHANGED pulse

\* A release that fails is only logged: the ticket stays until it expires.
ReleaseFails(t) ==
    /\ pc[t] = "releasing" /\ Fails(Released(gate, t, since[t]), since[t])
    /\ Go(t, "none")
    /\ UNCHANGED pulse

\* The worker process of a call is killed.  In a step it may hold the lock.
Die(t) ==
    /\ pc[t] # "none" /\ Fault("caller_dies")
    /\ Go(t, "none")
    /\ pulse' = [pulse EXCEPT ![t] = Off]
    /\ UNCHANGED blocked \/ (InStep(t) /\ LockLeft)
    /\ UNCHANGED <<gate, ahead, idle>>

Waits(t) == pc[t] \in {"sleeping", "polling"}
SlotFree == Cardinality({t \in Held(gate) : gate.inflight[t] > 0}) < Limit
Capped(n, cap) == IF n < cap THEN n + 1 ELSE cap

LockWaitOf(t) == IF blocked > 0 \/ t \in Slow THEN LockWait ELSE 0

\* The wait for the lock is bounded, so time waits for the steps that are due.
Due(t) ==
    \/ pc[t] \in {"arriving", "polling", "releasing"} /\ since[t] >= LockWaitOf(t)
    \/ pulse[t].at = "step" /\ pulse[t].since >= LockWaitOf(t)

WakesUp(t) == pc[t] = "sleeping" /\ since[t] + 1 = Poll
PulseWakes(t) == pulse[t].at = "sleep" /\ pulse[t].since + 1 = PulseGap

\* A silent head is dropped once Stale has passed, by the next poll of whoever waits:
\* a sleep and two waits for the lock.  A fault costs a poll and the life of a lock.
IdleBound == Stale + Poll + 2 * LockWait + MaxFaults * (Poll + LockWait + LockTtl)

\* A tick later, when the waits of late are over.
Aged(g, late) ==
    [inflight |-> [t \in Held(g) |-> IF g.inflight[t] > -LockWait THEN g.inflight[t] - 1 ELSE g.inflight[t]],
     meta |-> [t \in DOMAIN g.meta |->
         IF t \in Held(g) THEN g.meta[t]
         ELSE [beat |-> Capped(g.meta[t].beat, Stale + LockWait + 1),
               over |-> g.meta[t].over \/ t \in late]],
     queues |-> g.queues, order |-> g.order]

\* Time passes.  A sleep ends with the tick that completes it, and the step that
\* follows reads the time then.
Tick ==
    /\ \A t \in Tickets : ~Due(t)
    /\ pc' = [t \in Tickets |-> IF WakesUp(t) THEN "polling" ELSE pc[t]]
    /\ since' = [t \in Tickets |-> IF pc[t] \in {"none", "running"} \/ WakesUp(t) THEN 0 ELSE since[t] + 1]
    /\ pulse' = [t \in Tickets |->
           IF PulseWakes(t) THEN [at |-> "step", since |-> 0]
           ELSE IF pulse[t].at \in {"off", "dead"} THEN pulse[t]
           ELSE [pulse[t] EXCEPT !.since = @ + 1]]
    /\ \E late \in SUBSET {t \in Queued(gate) : Waits(t)} : gate' = Aged(gate, late)
    /\ idle' = IF SlotFree /\ (\E t \in Queued(gate) : Waits(t))
               THEN Capped(idle, IdleBound + 1) ELSE 0
    /\ blocked' = IF blocked = 0 THEN 0 ELSE blocked - 1
    /\ UNCHANGED <<missed, ahead, faults>>

Step(t) ==
    \/ Begin(t) \/ Arrive(t) \/ ArriveFails(t)
    \/ PollStep(t) \/ PollFails(t)
    \/ PulseStep(t) \/ PulseFails(t)
    \/ Finish(t) \/ Release(t) \/ ReleaseFails(t) \/ Die(t)

Next == Tick \/ \E t \in Tickets : Step(t)

Spec == Init /\ [][Next]_vars
-----------------------------------------------------------------------------
\* The record is well formed: every ticket it knows holds a lease or stands once
\* in the queue of its user, and the rotation lists the waiting users, once each.
\* _grant, release and _purge each keep this in their own way.
TypeOK ==
    /\ gate.inflight \in [Held(gate) -> (-LockWait)..Lease]
    /\ DOMAIN gate.meta \subseteq Tickets /\ Held(gate) \subseteq DOMAIN gate.meta
    /\ \A u \in Users : IsInjective(gate.queues[u]) /\ Range(gate.queues[u]) = {t \in Queued(gate) : UserOf[t] = u}
    /\ IsInjective(gate.order) /\ Range(gate.order) = Waiters(gate)
    /\ pc \in [Tickets -> {"none", "arriving", "sleeping", "polling", "running", "releasing"}]
    /\ ahead \subseteq Users \X Users

\* A caller that goes on waiting keeps its place until it is served or its wait is
\* over: wait_positions says of a failed poll that it "must not turn that wait
\* into an error", and a waiter whose ticket was dropped is told it timed out.  The
\* code keeps this for one failed poll.  Two in a row, which one lock left behind is
\* enough for, may cost a live waiter its place.
WaitersKeepTheirPlace ==
    [][\A t \in Tickets :
         Waits(t) /\ Waits(t)' /\ t \in Known(gate) \ Known(gate')
         => missed[t] = 2 \/ (t \in Queued(gate) /\ gate.meta[t].over)]_vars

\* The calls that run and whose pulse loop still lives hold a lease, and there are
\* never more of them than the model allows.
PulsedWithinLimit ==
    LET pulsed == {t \in Tickets : pc[t] = "running" /\ pulse[t].at # "dead"}
    IN  Cardinality(pulsed) <= Limit /\ \A t \in pulsed : t \in Held(gate) /\ gate.inflight[t] > 0

\* Never more calls at the model than it allows.  The gate's account of itself:
\* holders keep a lease and everyone else waits in the queue.
RunningWithinLimit == Cardinality({t \in Tickets : pc[t] = "running"}) <= Limit

\* A free slot does not stay unused while a live caller waits: an abandoned ticket
\* at the head of the rotation holds the others up for a bounded time only.
SlotNeverIdles == idle <= IdleBound

\* The gate keeps the promise of SlotPool: the limit, no overtaking on arrival, and
\* each user served at most once ahead of another that waits.
Pool == INSTANCE SlotPool WITH holding <- Held(gate), waiting <- Queued(gate)
KeepsPoolPromise == Pool!PoolSpec
=============================================================================
