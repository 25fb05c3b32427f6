------------------------ MODULE ModelGateTimingProofs ------------------------
(***************************************************************************)
(* Proofs about ModelGate: what holds when the times fit each other.       *)
(* OnTime says how old signs of life and leases are at most, in two ways.  *)
(* By the failures there were: a lease must outlast the gap between two    *)
(* pulses with the waits and what the failures cost (LeaseOutlasts).  And  *)
(* by the polls a waiter missed since the gate last heard of it: a waiter  *)
(* must be allowed to be silent for two polls (SilenceAllowed).            *)
(***************************************************************************)
EXTENDS ModelGateProofs

\* What n failures cost a caller at most: a sleep, a wait for the lock and the life of
\* a lock left behind each.
Delay(n) == n * (Poll + LockWait + LockTtl)

LeaseOutlasts == Lease > PulseGap + 2 * LockWait + Delay(MaxFaults)
SilenceAllowed == Stale >= 2 * Poll + 3 * LockWait /\ Lease > Poll + 2 * LockWait

\* How long ago a waiting caller last tried, and a holder last renewed its lease.
Slept(t) == IF pc[t] = "polling" THEN Poll + since[t] ELSE since[t]
Unrenewed(t) == IF pulse[t].at = "step" THEN PulseGap + pulse[t].since ELSE pulse[t].since

\* While a lock left behind stands, every poll fails and what remains of its life has
\* been counted in advance.
Lag(t) == IF blocked > 0 THEN -blocked ELSE Slept(t)

\* What one missed poll costs.
Behind(t) == IF missed[t] = 0 THEN 0 ELSE Poll + LockWait

\* A waiter gave a sign of life, and a lease it was not told of was given, not longer
\* ago than the failures, or the one poll it missed, explain.
WaiterOnTime(t) ==
    /\ pc[t] = "sleeping" => since[t] < Poll
    /\ Waits(t) /\ t \in Queued(gate) =>
          /\ gate.meta[t].beat <= LockWait + Delay(faults) + Lag(t)
          /\ missed[t] # 2 => gate.meta[t].beat <= LockWait + Behind(t) + Slept(t)
    /\ Waits(t) /\ t \in Held(gate) =>
          /\ gate.inflight[t] >= Lease + Poll - Delay(faults) - Lag(t)
          /\ missed[t] # 2 => missed[t] = 1 /\ gate.inflight[t] >= Lease - LockWait - Slept(t)

\* A call that runs and whose pulse lives holds a lease that its last pulse renewed.
HolderOnTime(t) ==
    /\ pulse[t].at \in {"sleep", "step"} => pc[t] = "running"
    /\ pulse[t].at = "sleep" => pulse[t].since < PulseGap
    /\ LeaseOutlasts /\ pc[t] = "running" /\ pulse[t].at # "dead" =>
          /\ pulse[t].at \in {"sleep", "step"} /\ t \in Held(gate)
          /\ gate.inflight[t] >= Lease - LockWait - Delay(faults) - Unrenewed(t)

Stamped(g) == \A t \in Queued(g) : g.meta[t] \in [beat : Nat, over : BOOLEAN]

OnTime ==
    /\ faults \in 0..MaxFaults /\ blocked \in 0..LockTtl /\ (blocked > 0 => faults > 0)
    /\ missed \in [Tickets -> 0..2] /\ Stamped(gate)
    /\ \A t \in Tickets : WaiterOnTime(t) /\ HolderOnTime(t)
-----------------------------------------------------------------------------
(* Numbers and records. *)

LEMMA Numbers ==
    {Limit, Lease, Stale, Poll, PulseGap, LockWait, LockTtl} \subseteq Nat \ {0} /\ MaxFaults \in Nat
BY GateAssumption

LEMMA Delays ==
    /\ \A n \in Nat : Delay(n) \in Nat /\ Delay(n + 1) = Delay(n) + Poll + LockWait + LockTtl
    /\ \A m, n \in Nat : m <= n => Delay(m) <= Delay(n)
<1>1. PICK k \in Nat : k = Poll + LockWait + LockTtl
  BY Numbers
<1>2. \A n \in Nat : n * k \in Nat /\ (n + 1) * k = n * k + k
  BY <1>1
<1>3. \A m, n \in Nat : m <= n => m * k <= n * k
  BY <1>1
<1>4. Poll \in Nat /\ LockWait \in Nat /\ LockTtl \in Nat
  BY Numbers
<1> QED
  BY <1>1, <1>2, <1>3, <1>4 DEF Delay

LEMMA SeenStamps ==
    ASSUME NEW g, WellFormed(g), NEW t \in Queued(g), g.meta[t] \in [beat : Nat, over : BOOLEAN], NEW d \in Nat
    PROVE  /\ Seen(g, t, d).meta[t].beat = d /\ Seen(g, t, d).meta[t].over = g.meta[t].over
           /\ Seen(g, t, d).meta[t] \in [beat : Nat, over : BOOLEAN]
<1> DEFINE k == Seen(g, t, d)
<1>1. k = [g EXCEPT !.meta[t].beat = d] /\ t \in DOMAIN g.meta
  BY DEF Seen, Queued
<1>2. /\ g = [inflight |-> g.inflight, order |-> g.order, queues |-> g.queues, meta |-> g.meta]
      /\ g.meta = [s \in DOMAIN g.meta |-> g.meta[s]]
  BY DEF WellFormed
<1>3. k.meta = [g.meta EXCEPT ![t] = [@ EXCEPT !.beat = d]]
  BY <1>1, <1>2
<1>4. k.meta[t] = [g.meta[t] EXCEPT !.beat = d]
  BY <1>1, <1>2, <1>3
<1> QED
  BY <1>4

LEMMA FreshStamp ==
    ASSUME NEW d \in 0..LockWait
    PROVE  [beat |-> d, over |-> FALSE] \in [beat : Nat, over : BOOLEAN]
<1>1. d \in Nat /\ FALSE \in BOOLEAN
  BY Numbers
<1> QED
  BY <1>1

LEMMA EnqueuedStamps ==
    ASSUME NEW g, NEW t, NEW d
    PROVE  Enqueued(g, t, d).meta[t] = [beat |-> d, over |-> FALSE]
BY DEF Enqueued, With
-----------------------------------------------------------------------------
(* What an operation does to the other tickets, and to the caller's own. *)

\* From f to g the other tickets keep their leases and times, and none goes without reason.
Spares(t, f, g) ==
    /\ \A s \in Held(g) : s # t => s \in Held(f) /\ g.inflight[s] = f.inflight[s]
    /\ \A s \in Queued(g) : s # t => s \in Queued(f) /\ g.meta[s] = f.meta[s]
    /\ \A s \in Held(f) : s # t /\ f.inflight[s] > 0 => s \in Held(g)
    /\ \A s \in Queued(f) : s # t /\ f.meta[s].beat <= Stale => s \in Queued(g)

LEMMA SparesTwice ==
    ASSUME NEW t, NEW f, NEW g, NEW h, Spares(t, f, g), Spares(t, g, h)
    PROVE  Spares(t, f, h)
BY DEF Spares

LEMMA StayingSpares ==
    ASSUME NEW t, NEW f
    PROVE  Spares(t, f, f)
BY DEF Spares

LEMMA PurgedSpares ==
    ASSUME NEW f, WellFormed(f), Leased(f), Stamped(f), NEW t, NEW d \in 0..LockWait
    PROVE  Spares(t, f, Purged(f, d))
<1> DEFINE h == Purged(f, d)
<1>1. /\ WellFormed(h) /\ Held(h) = {s \in Held(f) : ~(f.inflight[s] + d <= 0)}
      /\ Queued(h) = {s \in Queued(f) : ~(f.meta[s].beat - d > Stale)}
      /\ \A s \in Held(h) : h.inflight[s] = f.inflight[s]
      /\ \A s \in DOMAIN h.meta : h.meta[s] = f.meta[s]
  BY PurgedShrinks
<1> HIDE DEF h
<1>2. LockWait \in Nat /\ Lease \in Nat /\ Stale \in Nat
  BY Numbers
<1>3. ASSUME NEW s \in Held(f), f.inflight[s] > 0
      PROVE  s \in Held(h)
  <2>1. f.inflight[s] \in (-LockWait)..Lease
    BY DEF Leased
  <2> QED
    BY <1>1, <1>2, <1>3, <2>1
<1>4. ASSUME NEW s \in Queued(f), f.meta[s].beat <= Stale
      PROVE  s \in Queued(h)
  <2>1. f.meta[s].beat \in Nat
    BY DEF Stamped
  <2> QED
    BY <1>1, <1>2, <1>4, <2>1
<1>5. Queued(h) \subseteq DOMAIN h.meta
  BY DEF Queued
<1> QED
  BY <1>1, <1>3, <1>4, <1>5 DEF Spares, h

LEMMA ReleasedSpares ==
    ASSUME NEW f, WellFormed(f), Leased(f), Stamped(f), NEW t \in Tickets, NEW d \in 0..LockWait
    PROVE  Spares(t, f, Released(f, t, d)) /\ t \notin Known(Released(f, t, d))
<1> DEFINE h == Purged(f, d)
           g == Released(f, t, d)
<1>1. Spares(t, f, h)
  BY PurgedSpares
<1>2. /\ t \notin Known(g) /\ Held(g) = Held(h) \ {t} /\ Queued(g) = Queued(h) \ {t}
      /\ \A s \in Held(g) : g.inflight[s] = f.inflight[s]
      /\ \A s \in DOMAIN g.meta : g.meta[s] = f.meta[s]
  BY ReleasedShrinks
<1> HIDE DEF h, g
<1>3. Queued(g) \subseteq DOMAIN g.meta
  BY DEF Queued
<1> QED
  BY <1>1, <1>2, <1>3 DEF Spares, g

\* A pulse renews a lease that has not run out.
LEMMA PulsedSpares ==
    ASSUME NEW f, WellFormed(f), Leased(f), Stamped(f), NEW t \in Tickets, NEW d \in 0..LockWait
    PROVE  /\ Spares(t, f, Pulsed(f, t, d))
           /\ \A s \in Queued(Pulsed(f, t, d)) : s \in Queued(f) /\ Pulsed(f, t, d).meta[s] = f.meta[s]
           /\ t \in Held(f) /\ f.inflight[t] > 0 =>
                 t \in Held(Pulsed(f, t, d)) /\ Pulsed(f, t, d).inflight[t] = Lease - d
<1> DEFINE h == Purged(f, d)
           g == Pulsed(f, t, d)
<1>1. Spares(t, f, h)
  BY PurgedSpares
<1>2. /\ Held(g) = Held(h) /\ Queued(g) = Queued(h) /\ Queued(h) \subseteq Queued(f)
      /\ \A s \in Held(g) : g.inflight[s] = IF s = t THEN Lease - d ELSE f.inflight[s]
      /\ \A s \in DOMAIN g.meta : g.meta[s] = f.meta[s]
      /\ Held(h) = {s \in Held(f) : ~(f.inflight[s] + d <= 0)}
  BY PulsedShrinks, PurgedShrinks
<1> HIDE DEF h, g
<1>3. Queued(g) \subseteq DOMAIN g.meta
  BY DEF Queued
<1>4. ASSUME t \in Held(f), f.inflight[t] > 0
      PROVE  t \in Held(g) /\ g.inflight[t] = Lease - d
  <2>1. f.inflight[t] \in (-LockWait)..Lease /\ LockWait \in Nat /\ Lease \in Nat
    BY <1>4, Numbers DEF Leased
  <2> QED
    BY <1>2, <1>4, <2>1
<1> QED
  BY <1>1, <1>2, <1>3, <1>4 DEF Spares, g

\* A new caller gets a whole lease or a fresh place in a queue.
LEMMA ArrivedSpares ==
    ASSUME NEW f, WellFormed(f), Leased(f), Stamped(f), NEW t \in Tickets, t \notin Known(f), NEW d \in 0..LockWait
    PROVE  /\ Spares(t, f, Arrived(f, t, d))
           /\ t \in Held(Arrived(f, t, d)) => Arrived(f, t, d).inflight[t] = Lease - d
           /\ t \in Queued(Arrived(f, t, d)) => Arrived(f, t, d).meta[t] = [beat |-> d, over |-> FALSE]
<1> DEFINE h == Purged(f, d)
           g == Arrived(f, t, d)
<1>1. WellFormed(h) /\ Shrunk(f, h) /\ Spares(t, f, h)
  BY PurgedShrinks, PurgedSpares
<1>2. g = IF Cardinality(Held(h)) < Limit /\ Waiters(h) = {} THEN Entered(h, t, d) ELSE Enqueued(h, t, d)
  BY DEF Arrived
<1> HIDE DEF h, g
<1>3. t \notin Known(h)
  BY <1>1, KnownOfShrunk
<1>4. CASE Cardinality(Held(h)) < Limit /\ Waiters(h) = {}
  <2> DEFINE e == Entered(h, t, d)
  <2>1. g = e
    BY <1>2, <1>4
  <2>2. /\ Held(e) = Held(h) \cup {t} /\ Queued(e) = {} /\ Queued(h) = {}
        /\ e.inflight[t] = Lease - d /\ \A s \in Held(h) : e.inflight[s] = h.inflight[s]
    BY <1>1, <1>3, <1>4, EnteredHolds
  <2> HIDE DEF e
  <2>3. Spares(t, h, e)
    BY <2>2 DEF Spares
  <2> QED
    BY <1>1, <2>1, <2>2, <2>3, SparesTwice DEF g
<1>5. CASE ~(Cardinality(Held(h)) < Limit /\ Waiters(h) = {})
  <2> DEFINE e == Enqueued(h, t, d)
  <2>1. g = e
    BY <1>2, <1>5
  <2>2. e.meta[t] = [beat |-> d, over |-> FALSE]
    BY EnqueuedStamps
  <2> HIDE DEF e
  <2>3. /\ Held(e) = Held(h) /\ Queued(e) = Queued(h) \cup {t} /\ e.inflight = h.inflight
        /\ \A s \in DOMAIN h.meta : e.meta[s] = h.meta[s]
    <3>1. WellFormed(h) /\ t \notin Known(h)
      BY <1>1, <1>3
    <3> QED
      BY <3>1, EnqueuedWaits, Zenon DEF e
  <2>4. Spares(t, h, e)
    BY <2>3 DEF Spares, Queued
  <2>5. t \notin Held(e)
    BY <1>3, <2>3 DEF Known
  <2> QED
    BY <1>1, <2>1, <2>2, <2>4, <2>5, SparesTwice DEF g
<1> QED
  BY <1>4, <1>5

\* A poll gives a waiter a whole lease, or its place and a sign of life; it takes the
\* ticket from it only if the lease ran out or the wait is over.
LEMMA PolledSpares ==
    ASSUME NEW f, WellFormed(f), Leased(f), Stamped(f), NEW t \in Tickets, NEW d \in 0..LockWait,
           NEW g, g = PollOf(f, t, d).gate
    PROVE  /\ Spares(t, f, g)
           /\ t \in Queued(g) => g.meta[t].beat = d /\ g.meta[t] \in [beat : Nat, over : BOOLEAN]
           /\ t \in Held(g) => g.inflight[t] = Lease - d \/ (t \in Held(f) /\ g.inflight[t] = f.inflight[t])
           /\ PollOf(f, t, d).status = "granted" => t \in Held(g)
           /\ PollOf(f, t, d).status = "queued" => t \notin Held(g)
           /\ t \in Known(f) \ Known(g) => \/ t \in Held(f) /\ ~(f.inflight[t] > 0)
                                           \/ t \in Queued(f) /\ f.meta[t].over
<1> DEFINE seen == Seen(f, t, d)
           h == Judged(f, t, d)
           told == PollOf(f, t, d)
<1>1. /\ WellFormed(seen) /\ Held(seen) = Held(f) /\ Queued(seen) = Queued(f) /\ seen.inflight = f.inflight
      /\ \A s \in DOMAIN seen.meta : s # t => seen.meta[s] = f.meta[s]
  <2> HIDE DEF seen
  <2>1. /\ WellFormed(Seen(f, t, d)) /\ Held(Seen(f, t, d)) = Held(f) /\ Queued(Seen(f, t, d)) = Queued(f)
        /\ Seen(f, t, d).inflight = f.inflight
        /\ \A s \in DOMAIN Seen(f, t, d).meta : s # t => Seen(f, t, d).meta[s] = f.meta[s]
    BY SeenShrinks
  <2> QED
    BY <2>1 DEF seen
<1>2. t \in Queued(f) => /\ seen.meta[t].beat = d /\ seen.meta[t].over = f.meta[t].over
                         /\ seen.meta[t] \in [beat : Nat, over : BOOLEAN]
  BY SeenStamps, Numbers DEF Stamped
<1>3. h = Purged(seen, d)
  BY DEF Judged
<1>4. \/ t \in Held(h) /\ told = [status |-> "granted", gate |-> h]
      \/ t \notin Known(h) /\ told = [status |-> "missing", gate |-> h]
      \/ /\ t \in Queued(h) /\ h.meta[t].over
         /\ told = [status |-> "timeout", gate |-> Released(h, t, d)]
      \/ /\ t \in Queued(h) /\ Cardinality(Held(h)) < Limit /\ IsHead(h, t)
         /\ told = [status |-> "granted", gate |-> Granted(h, t, d)]
      \/ t \in Queued(h) /\ told = [status |-> "queued", gate |-> h]
  <2> HIDE DEF h, seen
  <2>1. h = Judged(f, t, d)
    BY DEF h
  <2> QED
    BY <2>1, PollCases, SMTT(20)
<1>5. g = told.gate /\ PollOf(f, t, d).status = told.status
  OBVIOUS
<1> HIDE DEF seen, h, told
<1>6. /\ Leased(seen) /\ Stamped(seen) /\ Spares(t, f, seen)
      /\ d \in Nat /\ Stale \in Nat /\ Lease \in Nat /\ LockWait \in Nat
  BY <1>1, <1>2, Numbers DEF Leased, Stamped, Spares, Queued
<1>7. /\ WellFormed(h) /\ Held(h) = {s \in Held(seen) : ~(seen.inflight[s] + d <= 0)}
      /\ Queued(h) = {s \in Queued(seen) : ~(seen.meta[s].beat - d > Stale)}
      /\ \A s \in Held(h) : h.inflight[s] = seen.inflight[s]
      /\ \A s \in DOMAIN h.meta : h.meta[s] = seen.meta[s]
      /\ Spares(t, seen, h)
  BY <1>1, <1>3, <1>6, PurgedShrinks, PurgedSpares
<1>8. Spares(t, f, h) /\ Leased(h) /\ Stamped(h)
  BY <1>6, <1>7, SparesTwice DEF Leased, Stamped, Queued
<1>9. /\ t \in Queued(f) <=> t \in Queued(h)
      /\ t \in Queued(h) => h.meta[t].beat = d /\ h.meta[t].over = f.meta[t].over
  <2>1. t \in Queued(h) => t \in DOMAIN h.meta
    BY DEF Queued
  <2> QED
    BY <1>1, <1>2, <1>6, <1>7, <2>1
<1>10. /\ t \in Held(h) => t \in Held(f) /\ h.inflight[t] = f.inflight[t]
       /\ t \in Held(f) /\ f.inflight[t] > 0 => t \in Held(h)
  <2>1. t \in Held(f) => f.inflight[t] \in (-LockWait)..Lease
    BY DEF Leased
  <2> QED
    BY <1>1, <1>6, <1>7, <2>1
<1>11. /\ \A s : s \in Held(h) \/ s \in Queued(h) => s \in Known(h)
       /\ \A s : s \in Known(f) => s \in Held(f) \/ s \in Queued(f)
  BY DEF Known, Queued
<1>12. CASE /\ g = h /\ (told.status = "granted" => t \in Held(h))
            /\ told.status = "queued" => t \in Queued(h)
  <2>1. t \in Known(f) \ Known(h) => t \in Held(f) /\ ~(f.inflight[t] > 0)
    BY <1>9, <1>10, <1>11
  <2>2. t \in Queued(h) => t \notin Held(h) /\ h.meta[t] \in [beat : Nat, over : BOOLEAN]
    BY <1>8 DEF Queued, Stamped
  <2> QED
    BY <1>5, <1>8, <1>9, <1>10, <1>12, <2>1, <2>2
<1>13. CASE t \in Queued(h) /\ h.meta[t].over /\ told = [status |-> "timeout", gate |-> Released(h, t, d)]
  <2>1. g = Released(h, t, d) /\ told.status = "timeout"
    BY <1>5, <1>13
  <2>2. Spares(t, h, g) /\ t \notin Known(g)
    BY <1>7, <1>8, <2>1, ReleasedSpares
  <2>3. t \notin Held(g) /\ t \notin Queued(g)
    BY <2>2 DEF Known, Queued
  <2>4. t \in Queued(f) /\ f.meta[t].over
    BY <1>9, <1>13
  <2> QED
    BY <1>5, <1>8, <2>1, <2>2, <2>3, <2>4, SparesTwice
<1>14. CASE t \in Queued(h) /\ IsHead(h, t) /\ told = [status |-> "granted", gate |-> Granted(h, t, d)]
  <2>1. g = Granted(h, t, d)
    BY <1>5, <1>14
  <2>2. /\ Held(g) = Held(h) \cup {t} /\ Queued(g) = Queued(h) \ {t} /\ g.inflight[t] = Lease - d
        /\ \A s \in Held(h) : g.inflight[s] = h.inflight[s]
        /\ \A s \in DOMAIN h.meta : s # t => g.meta[s] = h.meta[s]
    BY <1>7, <1>14, <2>1, GrantedServes
  <2>3. Spares(t, h, g)
    BY <2>2 DEF Spares, Queued
  <2>4. t \in Known(g) /\ told.status = "granted"
    BY <1>14, <2>2 DEF Known
  <2> QED
    BY <1>5, <1>8, <2>2, <2>3, <2>4, SparesTwice
<1> QED
  BY <1>4, <1>5, <1>12, <1>13, <1>14
-----------------------------------------------------------------------------
(* What the times promise. *)

LEMMA FaultDelays ==
    ASSUME faults \in 0..MaxFaults
    PROVE  /\ faults \in Nat /\ Delay(faults) \in Nat /\ Delay(faults) <= Delay(MaxFaults)
           /\ Delay(faults + 1) = Delay(faults) + Poll + LockWait + LockTtl
           /\ Delay(MaxFaults) \in Nat
           /\ faults > 0 => Delay(faults) >= Poll + LockWait + LockTtl
<1>1. MaxFaults \in Nat /\ faults \in Nat /\ faults <= MaxFaults
  BY Numbers
<1>2. faults > 0 => Delay(faults) >= Poll + LockWait + LockTtl
  <2>1. Delay(1) = Delay(0) + Poll + LockWait + LockTtl /\ Delay(0) \in Nat
    BY Delays
  <2>2. faults > 0 => Delay(1) <= Delay(faults)
    BY <1>1, Delays
  <2> QED
    BY <1>1, <2>1, <2>2, Delays, Numbers
<1> QED
  BY <1>1, <1>2, Delays

\* A step uses up a failure at most, and leaves a lock behind only as one.
Spends ==
    /\ faults' \in 0..MaxFaults
    /\ \/ faults' = faults /\ blocked' = blocked
       \/ faults' = faults + 1 /\ (blocked' = blocked \/ LockLeft)

LEMMA FaultSpends ==
    ASSUME OnTime, NEW x, Fault(x), UNCHANGED blocked \/ LockLeft
    PROVE  Spends
BY Numbers DEF OnTime, Fault, Spends

LEMMA WorkSpends ==
    ASSUME OnTime, NEW g, Works(g)
    PROVE  Write(g) /\ Spends /\ blocked = 0
BY FaultSpends DEF Works, OnTime, Spends

\* A step that fails writes at most what it meant to, or it found the lock taken.
LEMMA FailSpends ==
    ASSUME OnTime, NEW g, NEW age, Fails(g, age)
    PROVE  /\ Spends
           /\ \/ blocked = 0 /\ faults' = faults + 1 /\ \E h \in {gate, g} : Write(h)
              \/ blocked > 0 /\ blocked' = blocked /\ Write(gate)
BY FaultSpends DEF Fails, OnTime, Spends, Fault

LEMMA SpentDelays ==
    ASSUME OnTime, Spends
    PROVE  /\ blocked' \in 0..LockTtl /\ (blocked' > 0 => faults' > 0)
           /\ Delay(faults') \in Nat /\ Delay(faults) \in Nat /\ Delay(faults) <= Delay(faults')
           /\ faults' = faults + 1 => Delay(faults') = Delay(faults) + Poll + LockWait + LockTtl
           /\ faults' > 0 => Delay(faults') >= Poll + LockWait + LockTtl
<1>1. /\ faults \in 0..MaxFaults /\ faults' \in 0..MaxFaults /\ LockTtl \in Nat /\ MaxFaults \in Nat
      /\ Poll \in Nat /\ LockWait \in Nat
  BY Numbers DEF OnTime, Spends
<1>2. Delay(faults) \in Nat /\ Delay(faults + 1) = Delay(faults) + Poll + LockWait + LockTtl
  BY <1>1, FaultDelays
<1>3. Delay(faults') = Delay(faults) \/ Delay(faults') = Delay(faults) + Poll + LockWait + LockTtl
  BY <1>2 DEF Spends
<1>4. faults' = faults + 1 => Delay(faults') = Delay(faults) + Poll + LockWait + LockTtl
  BY <1>2
<1>5. faults > 0 => Delay(faults) >= Poll + LockWait + LockTtl
  BY <1>1, FaultDelays
<1>6. faults' > 0 => Delay(faults') >= Poll + LockWait + LockTtl
  BY <1>1, <1>2, <1>3, <1>4, <1>5 DEF Spends
<1> QED
  BY <1>1, <1>2, <1>3, <1>4, <1>6 DEF Spends, OnTime, LockLeft

LEMMA SleptRange ==
    ASSUME GateInv, OnTime, NEW t \in Tickets, Waits(t)
    PROVE  Slept(t) \in 0..(Poll + LockWait)
<1>1. Poll \in Nat /\ LockWait \in Nat
  BY Numbers
<1>2. since[t] \in Nat /\ (pc[t] = "polling" => since[t] <= LockWait)
  BY <1>1, StepAge DEF GateInv, Clocks
<1>3. pc[t] = "sleeping" => since[t] < Poll
  BY DEF OnTime, WaiterOnTime
<1> QED
  BY <1>1, <1>2, <1>3 DEF Slept, Waits

\* A failure grants everyone who goes on waiting the life of the lock it may leave.
LEMMA LagGrows ==
    ASSUME GateInv, OnTime, Spends, NEW t \in Tickets, Waits(t), Slept(t)' = Slept(t)
    PROVE  Lag(t) \in Int /\ Lag(t)' \in Int /\ Delay(faults) + Lag(t) <= Delay(faults') + Lag(t)'
<1>1. Slept(t) \in 0..(Poll + LockWait) /\ Poll \in Nat /\ LockWait \in Nat /\ LockTtl \in Nat \ {0}
  BY SleptRange, Numbers
<1>2. /\ Delay(faults') \in Nat /\ Delay(faults) \in Nat /\ Delay(faults) <= Delay(faults')
      /\ faults' = faults + 1 => Delay(faults') = Delay(faults) + Poll + LockWait + LockTtl
      /\ blocked \in 0..LockTtl /\ faults \in Nat
  BY SpentDelays, FaultDelays DEF OnTime
<1>3. CASE blocked' = blocked
  BY <1>1, <1>2, <1>3 DEF Lag
<1>4. CASE blocked = 0 /\ blocked' = LockTtl /\ faults' = faults + 1
  BY <1>1, <1>2, <1>4 DEF Lag
<1> QED
  BY <1>3, <1>4 DEF Spends, LockLeft

\* The lease of a call that lives has not run out.
LEMMA LivingHolders ==
    ASSUME GateInv, OnTime, LeaseOutlasts, NEW t \in Tickets
    PROVE  /\ pc[t] = "running" /\ pulse[t].at # "dead" => t \in Held(gate) /\ gate.inflight[t] > 0
<1>1. /\ LockWait \in Nat /\ Lease \in Nat /\ Poll \in Nat \ {0} /\ PulseGap \in Nat \ {0}
      /\ Delay(faults) \in Nat /\ Delay(MaxFaults) \in Nat /\ Delay(faults) <= Delay(MaxFaults)
      /\ Lease > PulseGap + 2 * LockWait + Delay(MaxFaults)
  BY Numbers, FaultDelays DEF OnTime, LeaseOutlasts
<1>2. t \in Held(gate) => gate.inflight[t] \in Int
  <2>1. t \in Held(gate) => gate.inflight[t] \in (-LockWait)..Lease
    BY DEF GateInv, Leased
  <2> QED
    BY <1>1, <2>1
<1>3. since[t] \in Nat /\ pulse[t].since \in Nat
  BY DEF GateInv, Clocks
<1>4. /\ pc[t] \in {"arriving", "polling", "releasing"} => since[t] <= LockWait
      /\ pulse[t].at = "step" => pulse[t].since <= LockWait
  BY <1>1, StepAge DEF GateInv
<1>5. ASSUME pc[t] = "running", pulse[t].at # "dead"
      PROVE  t \in Held(gate) /\ gate.inflight[t] > 0
  <2>1. /\ pulse[t].at \in {"sleep", "step"} /\ t \in Held(gate)
        /\ gate.inflight[t] >= Lease - LockWait - Delay(faults) - Unrenewed(t)
        /\ pulse[t].at = "sleep" => pulse[t].since < PulseGap
    BY <1>5 DEF OnTime, HolderOnTime
  <2>2. Unrenewed(t) \in Nat /\ Unrenewed(t) <= PulseGap + LockWait
    BY <1>1, <1>3, <1>4, <2>1 DEF Unrenewed
  <2> QED
    BY <1>1, <1>2, <2>1, <2>2
<1> QED
  BY <1>5

\* A waiter that lives and missed one poll at most is not taken for a dead one, and
\* the lease it was not told of still stands.
LEMMA LivingWaiters ==
    ASSUME GateInv, OnTime, SilenceAllowed, NEW t \in Tickets, Waits(t), missed[t] # 2
    PROVE  /\ t \in Queued(gate) => gate.meta[t].beat <= Stale
           /\ t \in Held(gate) => gate.inflight[t] > 0
<1>1. /\ LockWait \in Nat /\ Stale \in Nat /\ Poll \in Nat /\ Lease \in Nat
      /\ Stale >= 2 * Poll + 3 * LockWait /\ Lease > Poll + 2 * LockWait
  BY Numbers DEF SilenceAllowed
<1>2. Slept(t) \in 0..(Poll + LockWait) /\ WaiterOnTime(t)
  BY SleptRange DEF OnTime
<1>3. ASSUME t \in Queued(gate)
      PROVE  gate.meta[t].beat <= Stale
  <2>1. gate.meta[t].beat \in Nat /\ gate.meta[t].beat <= LockWait + Behind(t) + Slept(t)
    BY <1>2, <1>3 DEF OnTime, Stamped, WaiterOnTime
  <2>2. Behind(t) \in 0..(Poll + LockWait)
    BY <1>1 DEF Behind
  <2> QED
    BY <1>1, <1>2, <2>1, <2>2
<1>4. ASSUME t \in Held(gate)
      PROVE  gate.inflight[t] > 0
  <2>1. gate.inflight[t] \in (-LockWait)..Lease
    BY <1>4 DEF GateInv, Leased
  <2>2. gate.inflight[t] \in Int /\ gate.inflight[t] >= Lease - LockWait - Slept(t)
    BY <1>1, <1>2, <1>4, <2>1 DEF WaiterOnTime
  <2> QED
    BY <1>1, <1>2, <2>2
<1> QED
  BY <1>3, <1>4

\* The calls that a step of t does not concern.
Aside(t) == \A s \in Tickets :
    s # t => pc'[s] = pc[s] /\ since'[s] = since[s] /\ pulse'[s] = pulse[s] /\ missed'[s] = missed[s]

Place(t) ==
    Waits(t) /\ Waits(t)' /\ t \in Known(gate) \ Known(gate')
    => missed[t] = 2 \/ (t \in Queued(gate) /\ gate.meta[t].over)

LEMMA OthersOnTime ==
    ASSUME GateInv, OnTime, NEW t, NEW g, Spares(t, gate, g), gate' = g, Aside(t),
           Spends, NEW s \in Tickets, s # t
    PROVE  WaiterOnTime(s)' /\ HolderOnTime(s)'
<1>1. /\ LockWait \in Nat /\ Lease \in Nat /\ Poll \in Nat /\ PulseGap \in Nat
      /\ Delay(faults) \in Nat /\ Delay(faults') \in Nat /\ Delay(faults) <= Delay(faults')
  BY Numbers, SpentDelays
<1>2. pc'[s] = pc[s] /\ since'[s] = since[s] /\ pulse'[s] = pulse[s] /\ missed'[s] = missed[s]
  BY DEF Aside
<1>3. /\ Slept(s)' = Slept(s) /\ Unrenewed(s)' = Unrenewed(s) /\ Waits(s)' = Waits(s)
      /\ Slept(s) \in Nat /\ Unrenewed(s) \in Nat /\ Behind(s)' = Behind(s)
  BY <1>1, <1>2 DEF Slept, Unrenewed, Waits, Behind, GateInv, Clocks
<1>4. /\ \A x : x \in Held(gate) => gate.inflight[x] \in Int
      /\ \A x : x \in Queued(gate) => gate.meta[x].beat \in Nat
  <2>1. \A x : x \in Held(gate) => gate.inflight[x] \in (-LockWait)..Lease
    BY DEF GateInv, Leased
  <2> QED
    BY <1>1, <2>1 DEF OnTime, Stamped
<1>5. /\ s \in Held(g) => s \in Held(gate) /\ g.inflight[s] = gate.inflight[s]
      /\ s \in Queued(g) => s \in Queued(gate) /\ g.meta[s] = gate.meta[s]
      /\ s \in Held(gate) /\ gate.inflight[s] > 0 => s \in Held(g)
  BY DEF Spares
<1>6. WaiterOnTime(s)'
  <2>1. WaiterOnTime(s)
    BY DEF OnTime
  <2>2. Waits(s) => Lag(s) \in Int /\ Lag(s)' \in Int /\ Delay(faults) + Lag(s) <= Delay(faults') + Lag(s)'
    BY <1>3, LagGrows
  <2>3. ASSUME Waits(s), s \in Queued(g)
        PROVE  /\ g.meta[s].beat <= LockWait + Delay(faults') + Lag(s)'
               /\ missed[s] # 2 => g.meta[s].beat <= LockWait + Behind(s) + Slept(s)
    <3>1. g.meta[s].beat = gate.meta[s].beat /\ gate.meta[s].beat \in Nat
      BY <1>4, <1>5, <2>3
    <3>2. /\ gate.meta[s].beat <= LockWait + Delay(faults) + Lag(s)
          /\ missed[s] # 2 => gate.meta[s].beat <= LockWait + Behind(s) + Slept(s)
      BY <1>5, <2>1, <2>3 DEF WaiterOnTime
    <3> QED
      BY <1>1, <2>2, <2>3, <3>1, <3>2
  <2>4. ASSUME Waits(s), s \in Held(g)
        PROVE  /\ g.inflight[s] >= Lease + Poll - Delay(faults') - Lag(s)'
               /\ missed[s] # 2 => missed[s] = 1 /\ g.inflight[s] >= Lease - LockWait - Slept(s)
    <3>1. g.inflight[s] = gate.inflight[s] /\ gate.inflight[s] \in Int
      BY <1>4, <1>5, <2>4
    <3>2. /\ gate.inflight[s] >= Lease + Poll - Delay(faults) - Lag(s)
          /\ missed[s] # 2 => missed[s] = 1 /\ gate.inflight[s] >= Lease - LockWait - Slept(s)
      BY <1>5, <2>1, <2>4 DEF WaiterOnTime
    <3> QED
      BY <1>1, <2>2, <2>4, <3>1, <3>2
  <2>5. Queued(gate)' = Queued(g) /\ Held(gate)' = Held(g) /\ Delay(faults)' = Delay(faults')
    BY DEF Queued, Held, Delay
  <2> QED
    BY <1>2, <1>3, <2>1, <2>3, <2>4, <2>5 DEF WaiterOnTime
<1>7. HolderOnTime(s)'
  <2>1. HolderOnTime(s)
    BY DEF OnTime
  <2>2. ASSUME LeaseOutlasts, pc[s] = "running", pulse[s].at # "dead"
        PROVE  s \in Held(g) /\ g.inflight[s] >= Lease - LockWait - Delay(faults') - Unrenewed(s)
    <3>1. s \in Held(gate) /\ gate.inflight[s] > 0
      BY <2>2, LivingHolders
    <3> QED
      BY <1>1, <1>3, <1>4, <1>5, <2>1, <2>2, <3>1 DEF HolderOnTime
  <2>3. Held(gate)' = Held(g) /\ Delay(faults)' = Delay(faults')
    BY DEF Held, Delay
  <2> QED
    BY <1>2, <1>3, <2>1, <2>2, <2>3 DEF HolderOnTime
<1> QED
  BY <1>6, <1>7

\* A write keeps everyone on time if it keeps its caller on time, and it keeps the
\* places of the others.
LEMMA WritingOnTime ==
    ASSUME GateInv, OnTime, NEW t \in Tickets, NEW g, Spares(t, gate, g), gate' = g, Aside(t),
           t \in Queued(g) => g.meta[t] \in [beat : Nat, over : BOOLEAN],
           Spends, missed' \in [Tickets -> 0..2], WaiterOnTime(t)', HolderOnTime(t)'
    PROVE  OnTime' /\ (SilenceAllowed => \A s \in Tickets : s # t => Place(s))
<1>1. Queued(gate)' = Queued(g) /\ Known(gate)' = Known(g) /\ Known(gate') = Known(g)
  BY DEF Queued, Held, Known
<1>2. Stamped(gate)'
  <2>1. \A s \in Queued(g) : g.meta[s] \in [beat : Nat, over : BOOLEAN]
    BY DEF Spares, OnTime, Stamped
  <2> QED
    BY <1>1, <2>1 DEF Stamped
<1>3. \A s \in Tickets : WaiterOnTime(s)' /\ HolderOnTime(s)'
  BY OthersOnTime
<1>4. ASSUME SilenceAllowed, NEW s \in Tickets, s # t, Waits(s), missed[s] # 2, s \in Known(gate) \ Known(g)
      PROVE  FALSE
  <2>1. s \in Held(gate) \/ s \in Queued(gate)
    BY <1>4 DEF Known, Queued
  <2>2. s \notin Held(g) /\ s \notin Queued(g)
    BY <1>4 DEF Known, Queued
  <2>3. CASE s \in Held(gate)
    BY <1>4, <2>2, <2>3, LivingWaiters DEF Spares
  <2>4. CASE s \in Queued(gate)
    BY <1>4, <2>2, <2>4, LivingWaiters DEF Spares
  <2> QED
    BY <2>1, <2>3, <2>4
<1>5. faults' \in 0..MaxFaults /\ blocked' \in 0..LockTtl /\ (blocked' > 0 => faults' > 0)
  BY SpentDelays DEF Spends
<1> QED
  BY <1>1, <1>2, <1>3, <1>4, <1>5 DEF OnTime, Place
-----------------------------------------------------------------------------
(* The steps of a call. *)

Promised == OnTime' /\ (SilenceAllowed => \A s \in Tickets : Place(s))

LEMMA GoesAlone ==
    ASSUME GateInv, OnTime, NEW t \in Tickets, NEW at, Go(t, at)
    PROVE  /\ pc'[t] = at /\ since'[t] = 0 /\ missed'[t] = 0 /\ missed' \in [Tickets -> 0..2]
           /\ UNCHANGED pulse => Aside(t) /\ pulse'[t] = pulse[t]
           /\ \A p : pulse' = [pulse EXCEPT ![t] = p] => Aside(t) /\ pulse'[t] = p
BY DEF Go, Aside, GateInv, Clocks, OnTime

\* Whoever neither waits nor runs has no pulse and promises nothing.
LEMMA ElsewhereOnTime ==
    ASSUME GateInv, OnTime, NEW t \in Tickets, pc'[t] \in {"none", "arriving", "releasing"},
           pulse'[t].at \notin {"sleep", "step"}
    PROVE  WaiterOnTime(t)' /\ HolderOnTime(t)' /\ ~Waits(t)'
BY DEF WaiterOnTime, HolderOnTime, Waits

\* A caller that starts to run with a lease old enough.
LEMMA EnteringOnTime ==
    ASSUME GateInv, OnTime, NEW t \in Tickets, NEW g, gate' = g, Enters(t), Spends,
           t \in Held(g), g.inflight[t] >= Lease - LockWait - Delay(faults), g.inflight[t] \in Int
    PROVE  /\ WaiterOnTime(t)' /\ HolderOnTime(t)' /\ ~Waits(t)' /\ Aside(t)
           /\ missed' \in [Tickets -> 0..2]
<1>1. Go(t, "running") /\ pulse' = [pulse EXCEPT ![t] = Sleeping]
  BY DEF Enters
<1>2. pc'[t] = "running" /\ pulse'[t] = Sleeping /\ Aside(t) /\ missed' \in [Tickets -> 0..2]
  BY <1>1, GoesAlone
<1>3. /\ PulseGap \in Nat \ {0} /\ Lease \in Nat /\ LockWait \in Nat /\ Delay(faults) \in Nat
      /\ Delay(faults') \in Nat /\ Delay(faults) <= Delay(faults')
  BY Numbers, SpentDelays
<1>4. Held(gate)' = Held(g) /\ Delay(faults)' = Delay(faults') /\ Unrenewed(t)' = 0
  BY <1>2 DEF Held, Delay, Unrenewed, Sleeping
<1>5. g.inflight[t] >= Lease - LockWait - Delay(faults') - 0
  BY <1>3
<1> QED
  BY <1>2, <1>3, <1>4, <1>5 DEF WaiterOnTime, HolderOnTime, Waits, Sleeping

\* The lag of a caller that has just gone to sleep.
LagAfter == IF blocked' > 0 THEN -blocked' ELSE 0

LEMMA LagsAfter ==
    ASSUME OnTime, Spends
    PROVE  /\ LagAfter \in Int /\ Delay(faults') \in Nat /\ Delay(faults') + LagAfter >= 0
           /\ LagAfter >= -LockTtl
           /\ faults' > 0 => Delay(faults') + LagAfter >= Poll + LockWait
<1>1. /\ blocked' \in 0..LockTtl /\ (blocked' > 0 => faults' > 0) /\ Delay(faults') \in Nat
      /\ faults' > 0 => Delay(faults') >= Poll + LockWait + LockTtl
      /\ LockTtl \in Nat /\ Poll \in Nat /\ LockWait \in Nat
  BY SpentDelays, Numbers
<1>2. PICK x : x = Delay(faults')
  OBVIOUS
<1>3. PICK b : b = blocked'
  OBVIOUS
<1>4. PICK y : y = LagAfter
  OBVIOUS
<1>5. x \in Nat /\ b \in 0..LockTtl /\ y = IF b > 0 THEN -b ELSE 0
  BY <1>1, <1>2, <1>3, <1>4 DEF LagAfter
<1>6. /\ faults' > 0 => x >= Poll + LockWait + LockTtl
      /\ b > 0 => x >= Poll + LockWait + LockTtl
  BY <1>1, <1>2, <1>3
<1>7. y \in Int /\ x + y >= 0 /\ y >= -LockTtl /\ (x >= Poll + LockWait + LockTtl => x + y >= Poll + LockWait)
  BY <1>1, <1>5, <1>6
<1> QED
  BY <1>2, <1>4, <1>5, <1>6, <1>7

\* A caller that goes to sleep after a step, whose marks are recent enough.
LEMMA SleepingOnTime ==
    ASSUME GateInv, OnTime, NEW t \in Tickets, NEW g, gate' = g, Spends, UNCHANGED pulse,
           pc' = [pc EXCEPT ![t] = "sleeping"], since' = [since EXCEPT ![t] = 0],
           NEW m \in 0..2, missed' = [missed EXCEPT ![t] = m], pc[t] \in {"arriving", "polling"},
           t \in Queued(g) => /\ g.meta[t].beat <= LockWait + Delay(faults') + LagAfter
                              /\ m # 2 => g.meta[t].beat <= LockWait + (IF m = 0 THEN 0 ELSE Poll + LockWait),
           t \in Held(g) => /\ g.inflight[t] >= Lease + Poll - Delay(faults') - LagAfter
                            /\ m # 2 => m = 1 /\ g.inflight[t] >= Lease - LockWait
    PROVE  WaiterOnTime(t)' /\ HolderOnTime(t)' /\ Aside(t) /\ missed' \in [Tickets -> 0..2]
<1>1. /\ pc'[t] = "sleeping" /\ since'[t] = 0 /\ pulse'[t] = pulse[t] /\ Aside(t)
      /\ missed'[t] = m /\ missed' \in [Tickets -> 0..2]
  BY DEF GateInv, Clocks, OnTime, Aside
<1>2. pulse[t].at \notin {"sleep", "step"}
  BY DEF OnTime, HolderOnTime
<1>3. /\ Poll \in Nat \ {0} /\ Lease \in Nat /\ LockWait \in Nat /\ Delay(faults') \in Nat
  BY Numbers, SpentDelays
<1>4. /\ Held(gate)' = Held(g) /\ Queued(gate)' = Queued(g) /\ Delay(faults)' = Delay(faults')
      /\ Slept(t)' = 0 /\ Lag(t)' = LagAfter /\ Behind(t)' = IF m = 0 THEN 0 ELSE Poll + LockWait
  BY <1>1 DEF Held, Queued, Delay, Slept, Lag, LagAfter, Behind
<1>5. /\ \A x, y \in Nat : x + y + 0 = x + y
      /\ Lease - LockWait - 0 = Lease - LockWait
      /\ (IF m = 0 THEN 0 ELSE Poll + LockWait) \in Nat
  BY <1>3
<1>6. WaiterOnTime(t)'
  BY <1>1, <1>3, <1>4, <1>5 DEF WaiterOnTime
<1>7. HolderOnTime(t)'
  BY <1>1, <1>2 DEF HolderOnTime
<1> QED
  BY <1>1, <1>6, <1>7

LEMMA ArriveOnTime ==
    ASSUME GateInv, OnTime, NEW t \in Tickets, Arrive(t)
    PROVE  Promised
<1> DEFINE d == since[t]
           g == Arrived(gate, t, d)
<1>1. /\ pc[t] = "arriving" /\ Write(g) /\ Spends
      /\ \/ t \in Held(g) /\ Enters(t)
         \/ t \notin Held(g) /\ Go(t, "sleeping") /\ UNCHANGED pulse
  BY WorkSpends DEF Arrive
<1>2. d \in 0..LockWait /\ t \notin Known(gate)
  BY <1>1, StepAge DEF GateInv, Fresh
<1> HIDE DEF d
<1>3. /\ Spares(t, gate, g)
      /\ t \in Held(g) => g.inflight[t] = Lease - d
      /\ t \in Queued(g) => g.meta[t] = [beat |-> d, over |-> FALSE]
  BY <1>2, ArrivedSpares DEF GateInv, OnTime
<1>4. gate' = g
  BY <1>1, WriteMoves
<1> HIDE DEF g
<1>5. /\ LockWait \in Nat /\ Lease \in Nat /\ Delay(faults) \in Nat
      /\ LagAfter \in Int /\ Delay(faults') \in Nat /\ Delay(faults') + LagAfter >= 0
  BY <1>1, Numbers, LagsAfter, SpentDelays
<1>6. WaiterOnTime(t)' /\ HolderOnTime(t)' /\ Aside(t) /\ missed' \in [Tickets -> 0..2]
  <2>1. CASE t \in Held(g)
    <3>1. g.inflight[t] \in Int /\ g.inflight[t] >= Lease - LockWait - Delay(faults)
      BY <1>2, <1>3, <1>5, <2>1
    <3> QED
      BY <1>1, <1>4, <2>1, <3>1, EnteringOnTime
  <2>2. CASE t \notin Held(g)
    <3>1. t \in Queued(g) => /\ g.meta[t].beat <= LockWait + Delay(faults') + LagAfter
                             /\ g.meta[t].beat <= LockWait + 0
      BY <1>2, <1>3, <1>5
    <3> HIDE DEF d
    <3>2. t \in Queued(g) => /\ g.meta[t].beat <= LockWait + Delay(faults') + LagAfter
                             /\ 0 # 2 => g.meta[t].beat <= LockWait + (IF 0 = 0 THEN 0 ELSE Poll + LockWait)
      BY <3>1
    <3>3. 0 \in 0..2 /\ pc[t] \in {"arriving", "polling"}
      BY <1>1
    <3>4. /\ pc' = [pc EXCEPT ![t] = "sleeping"] /\ since' = [since EXCEPT ![t] = 0]
          /\ missed' = [missed EXCEPT ![t] = 0] /\ UNCHANGED pulse
      BY <1>1, <2>2 DEF Go
    <3> QED
      BY <1>1, <1>4, <2>2, <3>2, <3>3, <3>4, SleepingOnTime
  <2> QED
    BY <2>1, <2>2
<1>7. t \in Queued(g) => g.meta[t] \in [beat : Nat, over : BOOLEAN]
  BY <1>2, <1>3, FreshStamp
<1>8. OnTime' /\ (SilenceAllowed => \A s \in Tickets : s # t => Place(s))
  BY <1>1, <1>3, <1>4, <1>5, <1>6, <1>7, WritingOnTime
<1>9. Place(t)
  BY <1>1 DEF Place, Waits
<1> QED
  BY <1>8, <1>9 DEF Promised

LEMMA ArriveFailsOnTime ==
    ASSUME GateInv, OnTime, NEW t \in Tickets, ArriveFails(t)
    PROVE  Promised
<1> DEFINE d == since[t]
<1>1. pc[t] = "arriving" /\ Leaves(t) /\ Spends
  BY FailSpends DEF ArriveFails
<1>2. PICK g \in {gate, Arrived(gate, t, d)} : Write(g)
  BY FailsWrites DEF ArriveFails
<1>3. d \in 0..LockWait /\ t \notin Known(gate)
  BY <1>1, StepAge DEF GateInv, Fresh
<1> HIDE DEF d
<1>4. Spares(t, gate, g) /\ (t \in Queued(g) => g.meta[t] \in [beat : Nat, over : BOOLEAN])
  <2>1. CASE g = gate
    BY <2>1, StayingSpares DEF OnTime, Stamped
  <2>2. CASE g = Arrived(gate, t, d)
    <3>1. /\ Spares(t, gate, Arrived(gate, t, d))
          /\ t \in Queued(Arrived(gate, t, d)) => Arrived(gate, t, d).meta[t] = [beat |-> d, over |-> FALSE]
      BY <1>3, ArrivedSpares DEF GateInv, OnTime
    <3> QED
      BY <1>3, <2>2, <3>1, FreshStamp
  <2> QED
    BY <1>2, <2>1, <2>2
<1>5. gate' = g
  BY <1>2, WriteMoves
<1>7. pc'[t] = "releasing" /\ pulse'[t] = Off /\ Aside(t) /\ missed' \in [Tickets -> 0..2]
  BY <1>1, GoesAlone DEF Leaves
<1>8. WaiterOnTime(t)' /\ HolderOnTime(t)' /\ ~Waits(t)'
  BY <1>7, ElsewhereOnTime DEF Off
<1>9. OnTime' /\ (SilenceAllowed => \A s \in Tickets : s # t => Place(s))
  BY <1>1, <1>4, <1>5, <1>7, <1>8, WritingOnTime
<1> QED
  BY <1>8, <1>9 DEF Promised, Place

\* The gate drops the ticket of a poll only at the end of its wait.
LEMMA PollKeepsPlace ==
    ASSUME GateInv, OnTime, NEW t \in Tickets, pc[t] = "polling", NEW g, gate' = g,
           g = gate \/ (since[t] \in 0..LockWait /\ g = PollOf(gate, t, since[t]).gate)
    PROVE  SilenceAllowed => Place(t)
<1>1. Known(gate') = Known(g) /\ Waits(t)
  BY DEF Waits
<1>2. CASE g = gate
  BY <1>1, <1>2 DEF Place
<1>3. CASE g # gate
  <2>1. t \in Known(gate) \ Known(g) => \/ t \in Held(gate) /\ ~(gate.inflight[t] > 0)
                                        \/ t \in Queued(gate) /\ gate.meta[t].over
    BY <1>3, PolledSpares DEF GateInv, OnTime
  <2> QED
    BY <1>1, <2>1, LivingWaiters DEF Place
<1> QED
  BY <1>2, <1>3

LEMMA PollStepOnTime ==
    ASSUME GateInv, OnTime, NEW t \in Tickets, PollStep(t)
    PROVE  Promised
<1> DEFINE d == since[t]
           told == PollOf(gate, t, d)
           g == told.gate
<1>1. /\ pc[t] = "polling" /\ Write(g) /\ Spends /\ blocked = 0
      /\ \/ told.status = "granted" /\ Enters(t)
         \/ Leaves(t)
         \/ told.status = "queued" /\ Go(t, "sleeping") /\ UNCHANGED pulse
  BY WorkSpends DEF PollStep
<1>2. d \in 0..LockWait
  BY <1>1, StepAge DEF GateInv
<1>3. gate' = g
  BY <1>1, WriteMoves
<1>4. SilenceAllowed => Place(t)
  BY <1>1, <1>2, <1>3, PollKeepsPlace
<1>5. /\ Spares(t, gate, g)
      /\ t \in Queued(g) => g.meta[t].beat = d /\ g.meta[t] \in [beat : Nat, over : BOOLEAN]
      /\ t \in Held(g) => g.inflight[t] = Lease - d \/ (t \in Held(gate) /\ g.inflight[t] = gate.inflight[t])
      /\ told.status = "granted" => t \in Held(g)
      /\ told.status = "queued" => t \notin Held(g)
  BY <1>2, PolledSpares DEF GateInv, OnTime
<1> HIDE DEF told, g
<1>6. /\ LockWait \in Nat /\ Lease \in Nat /\ Poll \in Nat /\ Delay(faults) \in Nat
      /\ LagAfter \in Int /\ Delay(faults') \in Nat /\ Delay(faults') + LagAfter >= 0
  BY <1>1, Numbers, LagsAfter, SpentDelays
<1>7. WaiterOnTime(t)' /\ HolderOnTime(t)' /\ Aside(t) /\ missed' \in [Tickets -> 0..2]
  <2>1. CASE told.status = "granted" /\ Enters(t)
    <3>1. t \in Held(gate) => gate.inflight[t] \in Int /\ gate.inflight[t] >= Lease - d - Delay(faults)
      <4>1. t \in Held(gate) => /\ gate.inflight[t] \in (-LockWait)..Lease
                                /\ gate.inflight[t] >= Lease + Poll - Delay(faults) - (Poll + d)
        BY <1>1 DEF GateInv, Leased, OnTime, WaiterOnTime, Waits, Slept, Lag
      <4> QED
        BY <1>2, <1>6, <4>1
    <3> HIDE DEF d
    <3>2. t \in Held(g) /\ g.inflight[t] \in Int /\ g.inflight[t] >= Lease - LockWait - Delay(faults)
      BY <1>2, <1>5, <1>6, <2>1, <3>1
    <3> QED
      BY <1>1, <1>3, <2>1, <3>2, EnteringOnTime
  <2>2. CASE Leaves(t)
    <3>1. pc'[t] = "releasing" /\ pulse'[t] = Off /\ Aside(t) /\ missed' \in [Tickets -> 0..2]
      BY <2>2, GoesAlone DEF Leaves
    <3> QED
      BY <3>1, ElsewhereOnTime DEF Off
  <2>3. CASE told.status = "queued" /\ Go(t, "sleeping") /\ UNCHANGED pulse
    <3>1. t \in Queued(g) => /\ g.meta[t].beat <= LockWait + Delay(faults') + LagAfter
                             /\ g.meta[t].beat <= LockWait + 0
      BY <1>2, <1>5, <1>6
    <3>2. t \in Queued(g) => /\ g.meta[t].beat <= LockWait + Delay(faults') + LagAfter
                             /\ 0 # 2 => g.meta[t].beat <= LockWait + (IF 0 = 0 THEN 0 ELSE Poll + LockWait)
      BY <3>1
    <3>3. 0 \in 0..2 /\ pc[t] \in {"arriving", "polling"} /\ t \notin Held(g)
      BY <1>1, <1>5, <2>3
    <3>4. /\ pc' = [pc EXCEPT ![t] = "sleeping"] /\ since' = [since EXCEPT ![t] = 0]
          /\ missed' = [missed EXCEPT ![t] = 0] /\ UNCHANGED pulse
      BY <2>3 DEF Go
    <3> QED
      BY <1>1, <1>3, <3>2, <3>3, <3>4, SleepingOnTime
  <2> QED
    BY <1>1, <2>1, <2>2, <2>3
<1>8. OnTime' /\ (SilenceAllowed => \A s \in Tickets : s # t => Place(s))
  BY <1>1, <1>3, <1>5, <1>7, WritingOnTime
<1> QED
  BY <1>4, <1>8 DEF Promised

LEMMA PollFailsOnTime ==
    ASSUME GateInv, OnTime, NEW t \in Tickets, PollFails(t)
    PROVE  Promised
<1> DEFINE d == since[t]
           m == IF missed[t] = 0 THEN 1 ELSE 2
<1>1. /\ pc[t] = "polling" /\ UNCHANGED pulse /\ Fails(PollOf(gate, t, d).gate, d)
      /\ pc' = [pc EXCEPT ![t] = "sleeping"] /\ since' = [since EXCEPT ![t] = 0]
      /\ missed' = [missed EXCEPT ![t] = m]
  BY DEF PollFails, OnTime
<1>2. /\ Spends
      /\ \/ blocked = 0 /\ faults' = faults + 1 /\ \E h \in {gate, PollOf(gate, t, d).gate} : Write(h)
         \/ blocked > 0 /\ blocked' = blocked /\ Write(gate)
  BY <1>1, FailSpends
<1>3. PICK g : /\ Write(g)
               /\ \/ blocked = 0 /\ faults' = faults + 1 /\ g \in {gate, PollOf(gate, t, d).gate}
                  \/ blocked > 0 /\ blocked' = blocked /\ g = gate
  BY <1>2
<1>4. gate' = g /\ d \in 0..LockWait
  BY <1>1, <1>3, WriteMoves, StepAge DEF GateInv
<1>5. SilenceAllowed => Place(t)
  BY <1>1, <1>3, <1>4, PollKeepsPlace
<1>6. /\ LockWait \in Nat /\ Lease \in Nat /\ Poll \in Nat /\ LockTtl \in Nat /\ Delay(faults) \in Nat
      /\ LagAfter \in Int /\ Delay(faults') \in Nat /\ Delay(faults') + LagAfter >= 0 /\ LagAfter >= -LockTtl
      /\ faults' > 0 => Delay(faults') + LagAfter >= Poll + LockWait
      /\ faults' = faults + 1 => Delay(faults') = Delay(faults) + Poll + LockWait + LockTtl
      /\ Delay(faults) <= Delay(faults') /\ faults \in Nat /\ blocked \in Nat
  BY <1>2, Numbers, LagsAfter, SpentDelays, FaultDelays DEF OnTime
<1>7. /\ t \in Held(gate) => /\ gate.inflight[t] \in (-LockWait)..Lease
                             /\ gate.inflight[t] >= Lease + Poll - Delay(faults) - Lag(t)
                             /\ missed[t] # 2 => missed[t] = 1
      /\ t \in Queued(gate) => /\ gate.meta[t] \in [beat : Nat, over : BOOLEAN]
                               /\ gate.meta[t].beat <= LockWait + Delay(faults) + Lag(t)
                               /\ missed[t] = 0 => gate.meta[t].beat <= LockWait + 0 + (Poll + d)
  BY <1>1 DEF GateInv, Leased, OnTime, Stamped, WaiterOnTime, Waits, Slept, Behind
<1>8. Lag(t) = IF blocked > 0 THEN -blocked ELSE Poll + d
  BY <1>1 DEF Lag, Slept
<1>9. /\ m \in 1..2 /\ (m # 2 <=> missed[t] = 0)
  BY DEF OnTime
<1> HIDE DEF d, m
<1>10. ASSUME g = gate
       PROVE  /\ t \in Queued(g) => /\ g.meta[t].beat <= LockWait + Delay(faults') + LagAfter
                                    /\ m # 2 => g.meta[t].beat <= LockWait + (Poll + LockWait)
              /\ t \in Held(g) => g.inflight[t] >= Lease + Poll - Delay(faults') - LagAfter /\ m = 2
  <2>1. Lag(t) \in Int /\ Delay(faults) + Lag(t) <= Delay(faults') + LagAfter
    <3>1. CASE blocked = 0 /\ faults' = faults + 1
      BY <1>4, <1>6, <1>8, <3>1
    <3>2. CASE blocked > 0 /\ blocked' = blocked
      BY <1>4, <1>6, <1>8, <3>2 DEF LagAfter
    <3> QED
      BY <1>3, <3>1, <3>2
  <2>2. ASSUME t \in Queued(gate)
        PROVE  /\ gate.meta[t].beat <= LockWait + Delay(faults') + LagAfter
               /\ m # 2 => gate.meta[t].beat <= LockWait + (Poll + LockWait)
    <3>1. gate.meta[t].beat \in Nat
      BY <1>7, <2>2
    <3> QED
      BY <1>4, <1>6, <1>7, <1>9, <2>1, <2>2, <3>1
  <2>3. ASSUME t \in Held(gate)
        PROVE  gate.inflight[t] >= Lease + Poll - Delay(faults') - LagAfter /\ m = 2
    <3>1. gate.inflight[t] \in Int
      BY <1>6, <1>7, <2>3
    <3>2. m = 2
      BY <1>7, <1>9, <2>3
    <3> QED
      BY <1>6, <1>7, <2>1, <2>3, <3>1, <3>2
  <2> QED
    BY <1>10, <2>2, <2>3
<1>11. /\ Spares(t, gate, g)
       /\ t \in Queued(g) => /\ g.meta[t] \in [beat : Nat, over : BOOLEAN]
                             /\ g.meta[t].beat <= LockWait + Delay(faults') + LagAfter
                             /\ m # 2 => g.meta[t].beat <= LockWait + (Poll + LockWait)
       /\ t \in Held(g) => /\ g.inflight[t] >= Lease + Poll - Delay(faults') - LagAfter
                           /\ m # 2 => g.inflight[t] >= Lease - LockWait
  <2>1. CASE g = gate
    BY <1>7, <1>10, <2>1, StayingSpares
  <2>2. CASE g = PollOf(gate, t, d).gate /\ faults' = faults + 1
    <3>1. /\ Spares(t, gate, g)
          /\ t \in Queued(g) => g.meta[t].beat = d /\ g.meta[t] \in [beat : Nat, over : BOOLEAN]
          /\ t \in Held(g) => g.inflight[t] = Lease - d \/ (t \in Held(gate) /\ g.inflight[t] = gate.inflight[t])
      BY <1>4, <2>2, PolledSpares DEF GateInv, OnTime
    <3>2. t \in Held(gate) => /\ gate.inflight[t] \in Int /\ m = 2
                              /\ gate.inflight[t] >= Lease + Poll - Delay(faults') - LagAfter
      <4>1. t \in Held(gate) => gate.inflight[t] \in Int /\ m = 2 /\ Lag(t) \in Int
        BY <1>4, <1>6, <1>7, <1>8, <1>9
      <4>2. CASE blocked = 0
        BY <1>4, <1>6, <1>7, <1>8, <2>2, <4>1, <4>2
      <4>3. CASE blocked > 0
        BY <1>3, <1>10, <4>1, <4>3
      <4> QED
        BY <1>6, <4>2, <4>3
    <3>3. faults' > 0
      BY <1>6, <2>2
    <3> QED
      BY <1>4, <1>6, <3>1, <3>2, <3>3
  <2> QED
    BY <1>3, <2>1, <2>2
<1>12. WaiterOnTime(t)' /\ HolderOnTime(t)' /\ Aside(t) /\ missed' \in [Tickets -> 0..2]
  <2>1. m \in 0..2 /\ (m # 2 => m = 1) /\ m # 0
    BY <1>9
  <2> QED
    BY <1>1, <1>2, <1>4, <1>11, <2>1, SleepingOnTime
<1>13. OnTime' /\ (SilenceAllowed => \A s \in Tickets : s # t => Place(s))
  BY <1>2, <1>4, <1>11, <1>12, WritingOnTime
<1> QED
  BY <1>5, <1>13 DEF Promised

LEMMA ReleaseOnTime ==
    ASSUME GateInv, OnTime, NEW t \in Tickets, Release(t) \/ ReleaseFails(t)
    PROVE  Promised
<1> DEFINE d == since[t]
<1>1. pc[t] = "releasing" /\ Go(t, "none") /\ UNCHANGED pulse /\ Spends
  BY WorkSpends, FailSpends DEF Release, ReleaseFails
<1>2. PICK g \in {gate, Released(gate, t, d)} : Write(g)
  BY FailsWrites DEF Release, ReleaseFails, Works
<1>3. d \in 0..LockWait
  BY <1>1, StepAge DEF GateInv
<1>4. gate' = g
  BY <1>2, WriteMoves
<1> HIDE DEF d
<1>5. Spares(t, gate, g) /\ (t \in Queued(g) => g.meta[t] \in [beat : Nat, over : BOOLEAN])
  <2>1. CASE g = gate
    BY <2>1, StayingSpares DEF OnTime, Stamped
  <2>2. CASE g = Released(gate, t, d)
    <3>1. Spares(t, gate, g) /\ t \notin Known(g)
      BY <1>3, <2>2, ReleasedSpares DEF GateInv, OnTime
    <3> QED
      BY <3>1 DEF Known, Queued
  <2> QED
    BY <1>2, <2>1, <2>2
<1>6. /\ pc'[t] = "none" /\ pulse'[t] = pulse[t] /\ Aside(t) /\ pulse[t].at \notin {"sleep", "step"}
      /\ missed' \in [Tickets -> 0..2]
  BY <1>1, GoesAlone DEF OnTime, HolderOnTime
<1>7. WaiterOnTime(t)' /\ HolderOnTime(t)' /\ ~Waits(t)'
  BY <1>6, ElsewhereOnTime
<1>8. OnTime' /\ (SilenceAllowed => \A s \in Tickets : s # t => Place(s))
  BY <1>1, <1>4, <1>5, <1>6, <1>7, WritingOnTime
<1> QED
  BY <1>7, <1>8 DEF Promised, Place

LEMMA PulseOnTime ==
    ASSUME GateInv, OnTime, NEW t \in Tickets, PulseStep(t) \/ PulseFails(t)
    PROVE  Promised
<1> DEFINE d == pulse[t].since
           w == Pulsed(gate, t, d)
<1>1. /\ pulse[t].at = "step" /\ UNCHANGED <<pc, since, missed>> /\ Spends
      /\ \/ Write(w) /\ pulse' = [pulse EXCEPT ![t] = Sleeping]
         \/ /\ \E g \in {gate, w} : Write(g)
            /\ pulse' = [pulse EXCEPT ![t] = [at |-> "dead", since |-> 0]]
  BY WorkSpends, FailSpends, FailsWrites DEF PulseStep, PulseFails
<1>2. d \in 0..LockWait
  BY <1>1, StepAge DEF GateInv
<1>3. pc[t] = "running" /\ pc'[t] = "running" /\ ~Waits(t)' /\ Aside(t)
  BY <1>1 DEF OnTime, HolderOnTime, Waits, Aside, GateInv, Clocks
<1> HIDE DEF d
<1>4. /\ LockWait \in Nat /\ Lease \in Nat /\ PulseGap \in Nat \ {0}
      /\ Delay(faults') \in Nat /\ missed' \in [Tickets -> 0..2]
  BY <1>1, Numbers, SpentDelays DEF OnTime
<1>5. /\ Spares(t, gate, w)
      /\ \A s \in Queued(w) : s \in Queued(gate) /\ w.meta[s] = gate.meta[s]
      /\ t \in Held(gate) /\ gate.inflight[t] > 0 => t \in Held(w) /\ w.inflight[t] = Lease - d
  BY <1>2, PulsedSpares DEF GateInv, OnTime
<1> HIDE DEF w
<1>6. PICK g \in {gate, w} : gate' = g /\ (pulse'[t] = Sleeping => g = w)
  <2>1. pulse'[t] = Sleeping \/ pulse'[t] = [at |-> "dead", since |-> 0]
    BY <1>1 DEF GateInv, Clocks
  <2>2. [at |-> "dead", since |-> 0] # Sleeping /\ pulse \in [Tickets -> [at : PulseStates, since : Nat]]
    BY DEF Sleeping, GateInv, Clocks
  <2> QED
    BY <1>1, <2>2, WriteMoves
<1>7. Spares(t, gate, g) /\ (t \in Queued(g) => g.meta[t] \in [beat : Nat, over : BOOLEAN])
  BY <1>5, <1>6, StayingSpares DEF OnTime, Stamped
<1>8. pulse'[t] \in {Sleeping, [at |-> "dead", since |-> 0]}
  BY <1>1 DEF GateInv, Clocks
<1>9. WaiterOnTime(t)' /\ HolderOnTime(t)'
  <2>1. CASE pulse'[t] = Sleeping
    <3>1. LeaseOutlasts => t \in Held(gate) /\ gate.inflight[t] > 0
      BY <1>1, <1>3, LivingHolders
    <3>2. gate' = w /\ (LeaseOutlasts => t \in Held(w) /\ w.inflight[t] = Lease - d)
      BY <1>5, <1>6, <2>1, <3>1
    <3>3. Held(gate)' = Held(w) /\ Delay(faults)' = Delay(faults') /\ Unrenewed(t)' = 0
      BY <2>1, <3>2 DEF Held, Delay, Unrenewed, Sleeping
    <3>4. LeaseOutlasts => w.inflight[t] >= Lease - LockWait - Delay(faults') - 0
      BY <1>2, <1>4, <3>2
    <3> QED
      BY <1>3, <1>4, <2>1, <3>2, <3>3, <3>4 DEF WaiterOnTime, HolderOnTime, Waits, Sleeping
  <2>2. CASE pulse'[t] = [at |-> "dead", since |-> 0]
    BY <1>3, <2>2 DEF WaiterOnTime, HolderOnTime, Waits
  <2> QED
    BY <1>8, <2>1, <2>2
<1>10. OnTime' /\ (SilenceAllowed => \A s \in Tickets : s # t => Place(s))
  BY <1>1, <1>3, <1>4, <1>6, <1>7, <1>9, WritingOnTime
<1> QED
  BY <1>3, <1>10 DEF Promised, Place

LEMMA AloneOnTime ==
    ASSUME GateInv, OnTime, NEW t \in Tickets, Begin(t) \/ Finish(t) \/ Die(t)
    PROVE  Promised
<1>1. /\ gate' = gate /\ Spends /\ missed' \in [Tickets -> 0..2]
      /\ pc'[t] \in {"none", "arriving", "releasing"} /\ Aside(t) /\ pulse'[t].at \notin {"sleep", "step"}
  <2>1. CASE Begin(t)
    <3>1. /\ gate' = gate /\ faults' = faults /\ blocked' = blocked /\ pc[t] = "none"
          /\ Go(t, "arriving") /\ UNCHANGED pulse
      BY <2>1 DEF Begin
    <3>2. pulse[t].at \notin {"sleep", "step"}
      BY <3>1 DEF OnTime, HolderOnTime
    <3> QED
      BY <3>1, <3>2, GoesAlone DEF OnTime, Spends
  <2>2. CASE Finish(t)
    <3>1. gate' = gate /\ Go(t, "releasing") /\ pulse' = [pulse EXCEPT ![t] = Off]
      BY <2>2 DEF Finish, Leaves
    <3>2. pc'[t] = "releasing" /\ Aside(t) /\ pulse'[t] = Off /\ missed' \in [Tickets -> 0..2]
      BY <3>1, GoesAlone
    <3>3. Spends
      <4>1. CASE UNCHANGED <<blocked, faults>>
        BY <4>1 DEF OnTime, Spends
      <4>2. CASE Fault("cut_off") /\ LockLeft
        BY <4>2, FaultSpends
      <4> QED
        BY <2>2, <4>1, <4>2 DEF Finish
    <3> QED
      BY <3>1, <3>2, <3>3 DEF Off
  <2>3. CASE Die(t)
    <3>1. /\ gate' = gate /\ Fault("caller_dies") /\ (UNCHANGED blocked \/ LockLeft)
          /\ Go(t, "none") /\ pulse' = [pulse EXCEPT ![t] = Off]
      BY <2>3 DEF Die
    <3>2. Spends
      BY <3>1, FaultSpends
    <3>3. pc'[t] = "none" /\ Aside(t) /\ pulse'[t] = Off /\ missed' \in [Tickets -> 0..2]
      BY <3>1, GoesAlone
    <3> QED
      BY <3>1, <3>2, <3>3 DEF Off
  <2> QED
    BY <2>1, <2>2, <2>3
<1>2. Spares(t, gate, gate) /\ (t \in Queued(gate) => gate.meta[t] \in [beat : Nat, over : BOOLEAN])
  BY StayingSpares DEF OnTime, Stamped
<1>3. WaiterOnTime(t)' /\ HolderOnTime(t)' /\ ~Waits(t)'
  BY <1>1, ElsewhereOnTime
<1>4. OnTime' /\ (SilenceAllowed => \A s \in Tickets : s # t => Place(s))
  BY <1>1, <1>2, <1>3, WritingOnTime
<1> QED
  BY <1>3, <1>4 DEF Promised, Place

\* Time passes, and everything ages by one at most.
LEMMA TickAges ==
    ASSUME GateInv, OnTime, Tick
    PROVE  /\ Held(gate)' = Held(gate) /\ Queued(gate)' = Queued(gate) /\ Known(gate') = Known(gate)
           /\ Delay(faults)' = Delay(faults) /\ faults' = faults /\ missed' = missed
           /\ blocked' = IF blocked = 0 THEN 0 ELSE blocked - 1
           /\ \A t \in Held(gate) : gate'.inflight[t] >= gate.inflight[t] - 1 /\ gate'.inflight[t] \in Int
           /\ \A t \in Queued(gate) : /\ gate'.meta[t] \in [beat : Nat, over : BOOLEAN]
                                      /\ gate'.meta[t].beat <= gate.meta[t].beat + 1
<1>0. PICK late : gate' = Aged(gate, late)
  BY DEF Tick
<1>1. gate' = Aged(gate, late) /\ faults' = faults
  BY <1>0 DEF Tick
<1>2. /\ WellFormed(gate') /\ Held(gate') = Held(gate) /\ Queued(gate') = Queued(gate) /\ Leased(gate')
  BY <1>1, AgedKeeps DEF GateInv
<1>3. Lease \in Nat /\ LockWait \in Nat /\ Stale \in Nat
  BY Numbers
<1>4. Known(gate') = Known(gate)
  BY <1>2, WhoWaits DEF GateInv, Known, Queued, WellFormed
<1>5. ASSUME NEW t \in Held(gate)
      PROVE  gate'.inflight[t] >= gate.inflight[t] - 1 /\ gate'.inflight[t] \in Int
  <2>1. gate.inflight[t] \in (-LockWait)..Lease
    BY DEF GateInv, Leased
  <2>2. gate'.inflight[t] = IF gate.inflight[t] > -LockWait THEN gate.inflight[t] - 1 ELSE gate.inflight[t]
    BY <1>1, <1>5 DEF Aged
  <2> QED
    BY <1>3, <2>1, <2>2
<1>6. ASSUME NEW t \in Queued(gate)
      PROVE  gate'.meta[t] \in [beat : Nat, over : BOOLEAN] /\ gate'.meta[t].beat <= gate.meta[t].beat + 1
  <2>1. gate.meta[t].beat \in Nat /\ gate.meta[t].over \in BOOLEAN
    BY DEF OnTime, Stamped
  <2>2. gate'.meta[t] = [beat |-> Capped(gate.meta[t].beat, Stale + LockWait + 1),
                         over |-> gate.meta[t].over \/ t \in late]
    BY <1>1, <1>6 DEF Aged, Queued
  <2>3. Capped(gate.meta[t].beat, Stale + LockWait + 1) \in Nat
    BY <1>3, <2>1 DEF Capped
  <2>4. Capped(gate.meta[t].beat, Stale + LockWait + 1) <= gate.meta[t].beat + 1
    BY <1>3, <2>1 DEF Capped
  <2> QED
    BY <2>2, <2>3, <2>4
<1> QED
  BY <1>1, <1>2, <1>4, <1>5, <1>6 DEF Held, Queued, Delay, Tick

LEMMA TickOnTime ==
    ASSUME GateInv, OnTime, Tick
    PROVE  Promised
<1>1. /\ \A t \in Tickets : ~Due(t)
      /\ pc' = [t \in Tickets |-> IF WakesUp(t) THEN "polling" ELSE pc[t]]
      /\ since' = [t \in Tickets |-> IF pc[t] \in {"none", "running"} \/ WakesUp(t) THEN 0 ELSE since[t] + 1]
      /\ pulse' = [t \in Tickets |-> IF PulseWakes(t) THEN [at |-> "step", since |-> 0]
                                     ELSE IF pulse[t].at \in {"off", "dead"} THEN pulse[t]
                                     ELSE [pulse[t] EXCEPT !.since = @ + 1]]
  BY DEF Tick
<1>2. /\ Held(gate)' = Held(gate) /\ Queued(gate)' = Queued(gate) /\ Known(gate') = Known(gate)
      /\ Delay(faults)' = Delay(faults) /\ faults' = faults /\ missed' = missed
      /\ blocked' = IF blocked = 0 THEN 0 ELSE blocked - 1
      /\ \A t \in Held(gate) : gate'.inflight[t] >= gate.inflight[t] - 1 /\ gate'.inflight[t] \in Int
      /\ \A t \in Queued(gate) : /\ gate'.meta[t] \in [beat : Nat, over : BOOLEAN]
                                 /\ gate'.meta[t].beat <= gate.meta[t].beat + 1
  BY TickAges
<1>3. /\ LockWait \in Nat /\ Lease \in Nat /\ Poll \in Nat \ {0} /\ PulseGap \in Nat \ {0} /\ Delay(faults) \in Nat
  BY Numbers, FaultDelays DEF OnTime
<1>4. /\ \A t \in Held(gate) : gate.inflight[t] \in Int
      /\ \A t \in Queued(gate) : gate.meta[t].beat \in Nat /\ gate'.meta[t].beat \in Nat
  <2>1. \A t \in Held(gate) : gate.inflight[t] \in (-LockWait)..Lease
    BY DEF GateInv, Leased
  <2> QED
    BY <1>2, <1>3, <2>1 DEF OnTime, Stamped
<1>5. ASSUME NEW t \in Tickets
      PROVE  WaiterOnTime(t)'
  <2>1. since[t] \in Nat /\ WaiterOnTime(t)
    BY DEF GateInv, Clocks, OnTime
  <2>2. CASE ~Waits(t)
    <3>1. pc'[t] = pc[t]
      BY <1>1, <2>2 DEF WakesUp, Waits
    <3> QED
      BY <2>2, <3>1 DEF WaiterOnTime, Waits
  <2>3. CASE Waits(t)
    <3>1. /\ Slept(t)' = Slept(t) + 1 /\ Slept(t) \in Nat
          /\ pc'[t] = "sleeping" => since'[t] < Poll
      <4>1. CASE WakesUp(t)
        <5>1. pc[t] = "sleeping" /\ since[t] + 1 = Poll /\ pc'[t] = "polling" /\ since'[t] = 0
          BY <1>1, <4>1 DEF WakesUp
        <5> QED
          BY <1>3, <2>1, <5>1 DEF Slept
      <4>2. CASE ~WakesUp(t)
        <5>1. pc'[t] = pc[t] /\ since'[t] = since[t] + 1
          BY <1>1, <2>3, <4>2 DEF Waits
        <5>2. CASE pc[t] = "sleeping"
          <6>1. since[t] < Poll /\ since[t] + 1 # Poll
            BY <2>1, <4>2, <5>2 DEF WaiterOnTime, WakesUp
          <6>2. Slept(t) = since[t] /\ Slept(t)' = since[t] + 1
            BY <5>1, <5>2 DEF Slept
          <6> QED
            BY <1>3, <2>1, <5>1, <6>1, <6>2
        <5>3. CASE pc[t] = "polling"
          <6>1. Slept(t) = Poll + since[t] /\ Slept(t)' = Poll + (since[t] + 1)
            BY <5>1, <5>3 DEF Slept
          <6> QED
            BY <1>3, <2>1, <5>1, <5>3, <6>1
        <5> QED
          BY <2>3, <5>2, <5>3 DEF Waits
      <4> QED
        BY <4>1, <4>2
    <3>2. Lag(t) \in Int /\ Lag(t)' \in Int /\ Lag(t)' >= Lag(t) + 1
      BY <1>2, <1>3, <3>1 DEF Lag, OnTime
    <3>3. Behind(t) \in Nat /\ Behind(t)' = Behind(t) /\ missed'[t] = missed[t]
      BY <1>2, <1>3 DEF Behind
    <3>4. ASSUME t \in Queued(gate)
          PROVE  /\ gate'.meta[t].beat <= LockWait + Delay(faults) + Lag(t)'
                 /\ missed[t] # 2 => gate'.meta[t].beat <= LockWait + Behind(t) + Slept(t)'
      <4>1. /\ gate.meta[t].beat <= LockWait + Delay(faults) + Lag(t)
            /\ missed[t] # 2 => gate.meta[t].beat <= LockWait + Behind(t) + Slept(t)
        BY <2>1, <2>3, <3>4 DEF WaiterOnTime
      <4> QED
        BY <1>2, <1>3, <1>4, <3>1, <3>2, <3>3, <3>4, <4>1
    <3>5. ASSUME t \in Held(gate)
          PROVE  /\ gate'.inflight[t] >= Lease + Poll - Delay(faults) - Lag(t)'
                 /\ missed[t] # 2 => missed[t] = 1 /\ gate'.inflight[t] >= Lease - LockWait - Slept(t)'
      <4>1. /\ gate.inflight[t] >= Lease + Poll - Delay(faults) - Lag(t)
            /\ missed[t] # 2 => missed[t] = 1 /\ gate.inflight[t] >= Lease - LockWait - Slept(t)
        BY <2>1, <2>3, <3>5 DEF WaiterOnTime
      <4> QED
        BY <1>2, <1>3, <1>4, <3>1, <3>2, <3>5, <4>1
    <3> QED
      BY <1>2, <3>1, <3>3, <3>4, <3>5 DEF WaiterOnTime
  <2> QED
    BY <2>2, <2>3
<1>6. ASSUME NEW t \in Tickets
      PROVE  HolderOnTime(t)'
  <2>1. /\ pulse[t].since \in Nat /\ HolderOnTime(t)
        /\ pulse[t] = [at |-> pulse[t].at, since |-> pulse[t].since] /\ pulse[t].at \in PulseStates
    BY DEF GateInv, Clocks, OnTime
  <2>2. pc'[t] = "running" <=> pc[t] = "running"
    BY <1>1 DEF WakesUp
  <2>3. CASE PulseWakes(t)
    <3>1. pulse[t].at = "sleep" /\ pulse[t].since + 1 = PulseGap /\ pulse'[t] = [at |-> "step", since |-> 0]
      BY <1>1, <2>3 DEF PulseWakes
    <3>2. Unrenewed(t)' = Unrenewed(t) + 1 /\ Unrenewed(t) \in Nat
      BY <1>3, <2>1, <3>1 DEF Unrenewed
    <3> QED
      BY <1>2, <1>3, <1>4, <2>1, <2>2, <3>1, <3>2 DEF HolderOnTime
  <2>4. CASE ~PulseWakes(t) /\ pulse[t].at \in {"off", "dead"}
    <3>1. pulse'[t] = pulse[t]
      BY <1>1, <2>4
    <3> QED
      BY <2>1, <2>2, <2>4, <3>1 DEF HolderOnTime
  <2>5. CASE ~PulseWakes(t) /\ pulse[t].at \notin {"off", "dead"}
    <3>1. pulse'[t] = [at |-> pulse[t].at, since |-> pulse[t].since + 1]
      BY <1>1, <2>1, <2>5
    <3>2. /\ Unrenewed(t)' = Unrenewed(t) + 1 /\ Unrenewed(t) \in Nat
          /\ pulse[t].at = "sleep" => pulse[t].since + 1 < PulseGap
      BY <1>3, <2>1, <2>5, <3>1 DEF Unrenewed, PulseWakes, HolderOnTime
    <3> QED
      BY <1>2, <1>3, <1>4, <2>1, <2>2, <3>1, <3>2 DEF HolderOnTime
  <2> QED
    BY <2>3, <2>4, <2>5
<1>7. Stamped(gate)' /\ blocked' \in 0..LockTtl /\ (blocked' > 0 => faults' > 0)
  BY <1>2, Numbers DEF Stamped, OnTime
<1>8. \A t \in Tickets : Place(t)
  BY <1>2 DEF Place
<1> QED
  BY <1>2, <1>5, <1>6, <1>7, <1>8 DEF OnTime, Promised
-----------------------------------------------------------------------------
(* The specification. *)

LEMMA StartsOnTime ==
    ASSUME Init
    PROVE  OnTime
<1>1. /\ gate = fresh_state /\ pc = [t \in Tickets |-> "none"]
      /\ pulse = [t \in Tickets |-> Off] /\ faults = 0 /\ blocked = 0 /\ missed = [t \in Tickets |-> 0]
  BY DEF Init
<1>2. Queued(gate) = {} /\ Held(gate) = {}
  BY <1>1 DEF fresh_state, Queued, Held
<1>3. faults \in 0..MaxFaults /\ blocked \in 0..LockTtl /\ missed \in [Tickets -> 0..2]
  BY <1>1, Numbers
<1> QED
  BY <1>1, <1>2, <1>3 DEF OnTime, Stamped, WaiterOnTime, HolderOnTime, Waits, Off

LEMMA StepOnTime ==
    ASSUME GateInv, OnTime, [Next]_vars
    PROVE  Promised
<1>1. CASE Tick
  BY <1>1, TickOnTime
<1>2. ASSUME NEW t \in Tickets, Step(t)
      PROVE  Promised
  <2>1. CASE Arrive(t)
    BY <2>1, ArriveOnTime
  <2>2. CASE ArriveFails(t)
    BY <2>2, ArriveFailsOnTime
  <2>3. CASE PollStep(t)
    BY <2>3, PollStepOnTime
  <2>4. CASE PollFails(t)
    BY <2>4, PollFailsOnTime
  <2>5. CASE PulseStep(t) \/ PulseFails(t)
    BY <2>5, PulseOnTime
  <2>6. CASE Release(t) \/ ReleaseFails(t)
    BY <2>6, ReleaseOnTime
  <2>7. CASE Begin(t) \/ Finish(t) \/ Die(t)
    BY <2>7, AloneOnTime
  <2> QED
    BY <1>2, <2>1, <2>2, <2>3, <2>4, <2>5, <2>6, <2>7 DEF Step
<1>3. CASE UNCHANGED vars
  <2>1. UNCHANGED <<gate, pc, since, pulse, blocked, missed, faults>>
    BY <1>3 DEF vars
  <2>2. OnTime'
    BY <2>1 DEF OnTime, Stamped, Queued, Held, WaiterOnTime, HolderOnTime, Waits, Slept, Unrenewed, Delay, Lag, Behind
  <2>3. \A s \in Tickets : Place(s)
    BY <2>1 DEF Place
  <2> QED
    BY <2>2, <2>3 DEF Promised
<1> QED
  BY <1>1, <1>2, <1>3 DEF Next

\* If a lease outlasts a pulse's sleep, two waits for the lock and the polls that may
\* fail before a caller learns that it was let in, then every call that runs with a live
\* pulse loop holds a lease that has not run out, and there are never more of them than
\* the model allows.  A caller whose poll failed may have been granted its slot long
\* before it asks again: poll (model_gate.py) finds the lease and does not renew it.
THEOREM PulsedCallsWithinLimit ==
    ASSUME LeaseOutlasts
    PROVE  Spec => []PulsedWithinLimit
<1>1. Init => GateInv /\ Slots /\ OnTime
  <2> SUFFICES ASSUME Init PROVE GateInv /\ Slots /\ OnTime
    OBVIOUS
  <2>1. Held(gate) = {}
    BY DEF Init, fresh_state, Held
  <2> QED
    BY <2>1, StartInv, StartsOnTime, FS_EmptySet, GateAssumption DEF Slots
<1>2. GateInv /\ Slots /\ OnTime /\ [Next]_vars => GateInv' /\ Slots' /\ OnTime'
  BY StepInv, SlotsKept, StepOnTime DEF Promised
<1>3. GateInv /\ Slots /\ OnTime => PulsedWithinLimit
  <2> SUFFICES ASSUME GateInv, Slots, OnTime PROVE PulsedWithinLimit
    OBVIOUS
  <2> DEFINE pulsed == {t \in Tickets : pc[t] = "running" /\ pulse[t].at # "dead"}
  <2>1. \A t \in pulsed : t \in Held(gate) /\ gate.inflight[t] > 0
    BY LivingHolders
  <2>2. pulsed \in SUBSET Held(gate)
    BY <2>1
  <2> HIDE DEF pulsed
  <2>3. IsFiniteSet(pulsed) /\ Cardinality(pulsed) <= Cardinality(Held(gate))
    BY <2>2, FS_Subset DEF Slots
  <2>4. Cardinality(pulsed) <= Limit
    <3>1. Cardinality(pulsed) \in Nat /\ Cardinality(Held(gate)) \in Nat /\ Limit \in Nat
      BY <2>3, FS_CardinalityType, GateAssumption DEF Slots
    <3> QED
      BY <2>3, <3>1 DEF Slots
  <2> QED
    BY <2>1, <2>4 DEF PulsedWithinLimit, pulsed
<1> QED
  BY <1>1, <1>2, <1>3, PTL DEF Spec

\* If the silence allowed to a waiter covers two polls with the waits for the lock, a
\* caller that goes on waiting loses its place only when its wait is over or after two
\* polls in a row that failed: no other caller's purge takes it for a dead one, however
\* often steps fail and locks are left behind, and the lease it was granted by a poll
\* whose answer it never saw is still there when it asks again.
THEOREM LiveWaitersKeepTheirPlace ==
    ASSUME SilenceAllowed
    PROVE  Spec => WaitersKeepTheirPlace
<1>1. Init => GateInv /\ OnTime
  BY StartInv, StartsOnTime
<1>2. GateInv /\ OnTime /\ [Next]_vars => GateInv' /\ OnTime'
  BY StepInv, StepOnTime DEF Promised
<1>3. GateInv /\ OnTime /\ [Next]_vars => \A t \in Tickets : Place(t)
  BY StepOnTime DEF Promised
<1>4. (\A t \in Tickets : Place(t)) =>
        [\A t \in Tickets :
           Waits(t) /\ Waits(t)' /\ t \in Known(gate) \ Known(gate')
           => missed[t] = 2 \/ (t \in Queued(gate) /\ gate.meta[t].over)]_vars
  BY DEF Place
<1> QED
  BY <1>1, <1>2, <1>3, <1>4, PTL DEF Spec, WaitersKeepTheirPlace
=============================================================================
