------------------------- MODULE ModelGateIdleProofs -------------------------
(***************************************************************************)
(* Proofs about ModelGate: how long a free slot can be held up.  While     *)
(* idle counts, the slots stay free for every clock as old as idle         *)
(* (SlotSpared) and the head of the line has been silent for as long       *)
(* (HeadSilent); each poll of a waiter drops a head silent for longer than *)
(* Stale, so idle exceeds Stale only by what the failures made the waiter  *)
(* lack in polls (WaitersHeard).                                           *)
(***************************************************************************)
EXTENDS ModelGateTimingProofs

Lesser(m, n) == IF m < n THEN m ELSE n

\* The leases that a clock of age d still counts.
Counted(g, d) == {t \in Held(g) : g.inflight[t] > -d}

SlotSpared == idle > 0 => Cardinality(Counted(gate, Lesser(idle, LockWait))) < Limit
SomeoneWaits == idle > 0 => FirstInLine(gate) # {}
HeadSilent == \A h \in FirstInLine(gate) : idle <= gate.meta[h].beat \/ gate.meta[h].beat > Stale + LockWait
WaitersHeard ==
    \A t \in Queued(gate) : Waits(t) => idle <= Stale + LockWait + Delay(faults) + Lag(t)

Idles ==
    /\ idle \in 0..IdleBound
    /\ SlotSpared /\ SomeoneWaits /\ HeadSilent /\ WaitersHeard
-----------------------------------------------------------------------------
(* The head of the line. *)

LEMMA OneHead ==
    ASSUME NEW g, WellFormed(g), NEW s \in FirstInLine(g), NEW t \in FirstInLine(g)
    PROVE  s = t /\ t \in Queued(g)
<1>1. IsHead(g, s) /\ IsHead(g, t)
  BY DEF IsHead
<1>2. t \in Queued(g) /\ t = Head(g.queues[UserOf[t]]) /\ UserOf[t] = Head(g.order)
  BY <1>1, HeadOfTheLine, Zenon
<1>3. s = Head(g.queues[UserOf[s]]) /\ UserOf[s] = Head(g.order)
  BY <1>1, HeadOfTheLine, Zenon
<1> QED
  BY <1>2, <1>3

LEMMA FirstOfFirst ==
    ASSUME NEW g, WellFormed(g), NEW u \in Users, g.order # <<>>, u = g.order[1]
    PROVE  g.queues[u] # <<>> /\ FirstInLine(g) = {Head(g.queues[u])}
<1>1. /\ g.order \in Seq(Users) /\ Range(g.order) = Waiters(g) /\ 1 \in DOMAIN g.order
      /\ DOMAIN g.order = 1..Len(g.order) /\ Len(g.order) \in Nat
  BY DEF WellFormed
<1>2. \A i \in DOMAIN g.order : g.queues[g.order[i]] # <<>>
  BY <1>1 DEF Range, Waiters
<1>3. {k \in DOMAIN g.order : /\ g.queues[g.order[k]] # <<>>
                              /\ \A j \in 1..(k - 1) : g.queues[g.order[j]] = <<>>} = {1}
  <2>1. \A k \in DOMAIN g.order : k # 1 => 1 \in 1..(k - 1)
    BY <1>1
  <2>2. \A j : j \notin 1..(1 - 1)
    OBVIOUS
  <2> QED
    BY <1>1, <1>2, <2>1, <2>2
<1> QED
  BY <1>1, <1>2, <1>3 DEF FirstInLine

LEMMA SomeoneFirst ==
    ASSUME NEW g, WellFormed(g), NEW t \in Queued(g)
    PROVE  FirstInLine(g) # {}
<1>1. UserOf[t] \in Range(g.order)
  <2>1. Waiters(g) = {UserOf[s] : s \in Queued(g)} /\ Range(g.order) = Waiters(g)
    BY WhoWaits, Zenon DEF WellFormed
  <2> QED
    BY <2>1
<1>2. g.order # <<>> /\ g.order \in Seq(Users)
  BY <1>1 DEF WellFormed, Range
<1>3. g.order[1] \in Users
  BY <1>2
<1> QED
  BY <1>2, <1>3, FirstOfFirst

\* Who stands at the head stays there while nobody moves in front.
LEMMA HeadStays ==
    ASSUME NEW f, WellFormed(f), NEW g, WellFormed(g), NEW s \in FirstInLine(f), s \in Queued(g),
           \A a, b : Before(g.order, a, b) => Before(f.order, a, b),
           \A u \in Users : \A a, b : Before(g.queues[u], a, b) => Before(f.queues[u], a, b)
    PROVE  s \in FirstInLine(g)
<1> DEFINE u == UserOf[s]
<1>1. /\ u \in Users /\ f.order # <<>> /\ u = Head(f.order)
      /\ f.queues[u] # <<>> /\ s = Head(f.queues[u])
  <2>1. IsHead(f, s)
    BY DEF IsHead
  <2> QED
    BY <2>1, HeadOfTheLine, Zenon
<1> HIDE DEF u
<1>2. /\ f.order \in Seq(Users) /\ IsInjective(f.order) /\ f.queues[u] \in Seq(Tickets) /\ IsInjective(f.queues[u])
      /\ g.order \in Seq(Users) /\ g.queues[u] \in Seq(Tickets)
      /\ Range(g.queues[u]) = {t \in Queued(g) : UserOf[t] = u} /\ Range(g.order) = Waiters(g)
  BY <1>1 DEF WellFormed
<1>3. s \in Range(g.queues[u]) /\ u \in Range(g.order)
  BY <1>2, WhoWaits DEF u
<1>4. ASSUME NEW S, NEW p \in Seq(S), IsInjective(p), p # <<>>, NEW q \in Seq(S), Head(p) \in Range(q),
             \A a, b : Before(q, a, b) => Before(p, a, b)
      PROVE  q # <<>> /\ q[1] = Head(p)
  <2>1. PICK i \in DOMAIN q : q[i] = Head(p)
    BY <1>4 DEF Range
  <2>2. DOMAIN q = 1..Len(q) /\ Len(q) \in Nat /\ 1 \in DOMAIN q /\ q # <<>>
    BY <2>1
  <2>3. i # 1 => Before(q, q[1], q[i])
    BY <2>2 DEF Before
  <2>4. \A a : ~Before(p, a, Head(p))
    BY <1>4, TailKeeps
  <2> QED
    BY <1>4, <2>1, <2>2, <2>3, <2>4
<1>5. g.order # <<>> /\ g.order[1] = u
  BY <1>1, <1>2, <1>3, <1>4
<1>6. g.queues[u] # <<>> /\ g.queues[u][1] = s
  BY <1>1, <1>2, <1>3, <1>4
<1>7. FirstInLine(g) = {Head(g.queues[u])}
  BY <1>1, <1>5, FirstOfFirst
<1> QED
  BY <1>2, <1>6, <1>7

LEMMA HeadOfPurged ==
    ASSUME NEW f, WellFormed(f), NEW d, NEW s \in FirstInLine(f), s \in Queued(Purged(f, d))
    PROVE  s \in FirstInLine(Purged(f, d))
<1> DEFINE silent == {t \in Queued(f) : f.meta[t].beat - d > Stale}
           q == [u \in Users |-> Without(f.queues[u], silent)]
           quiet == {u \in Users : q[u] = <<>>}
           h == Purged(f, d)
<1>1. h.queues = q /\ h.order = Without(f.order, quiet)
  BY DEF Purged, OnlyWaiters
<1>2. WellFormed(h)
  BY PurgedShrinks
<1> HIDE DEF h
<1>3. \A u \in Users : h.queues[u] = Without(f.queues[u], silent)
  BY <1>1
<1> HIDE DEF silent, q, quiet
<1>4. f.order \in Seq(Users) /\ \A u \in Users : f.queues[u] \in Seq(Tickets)
  BY DEF WellFormed
<1>5. \A a, b : Before(h.order, a, b) => Before(f.order, a, b)
  BY <1>1, <1>4, WithoutKeeps
<1>6. \A u \in Users : \A a, b : Before(h.queues[u], a, b) => Before(f.queues[u], a, b)
  BY <1>3, <1>4, WithoutKeeps
<1>7. s \in Queued(h)
  BY DEF h
<1>8. s \in FirstInLine(h)
  BY <1>2, <1>5, <1>6, <1>7, HeadStays
<1> QED
  BY <1>8 DEF h

\* Only the queues and the rotation decide who is at the head.
LEMMA SameLine ==
    ASSUME NEW f, NEW g, g.queues = f.queues, g.order = f.order
    PROVE  FirstInLine(g) = FirstInLine(f)
BY DEF FirstInLine

LEMMA HeadOfSeen ==
    ASSUME NEW f, WellFormed(f), NEW t, NEW d
    PROVE  FirstInLine(Seen(f, t, d)) = FirstInLine(f)
<1>1. f = [inflight |-> f.inflight, order |-> f.order, queues |-> f.queues, meta |-> f.meta]
  BY DEF WellFormed
<1>2. Seen(f, t, d).queues = f.queues /\ Seen(f, t, d).order = f.order
  BY <1>1 DEF Seen
<1> QED
  BY <1>2, SameLine
-----------------------------------------------------------------------------
(* What a step of a call does. *)

Moved(t, g) ==
    /\ gate' = g /\ idle' = IF FirstInLine(g) = FirstInLine(gate) THEN idle ELSE 0
    /\ WellFormed(g) /\ Stamped(g) /\ Spares(t, gate, g) /\ Aside(t)
    /\ Spends

\* No lease is new or renewed that had run out, and the head gives a sign of life only
\* if no slot is free.
Calm(t, g) ==
    FirstInLine(g) = FirstInLine(gate) /\ FirstInLine(g) # {} =>
        /\ \A s \in Held(g) : s \in Held(gate) /\ (g.inflight[s] = gate.inflight[s] \/ gate.inflight[s] > 0)
        /\ t \in FirstInLine(g) => \/ g.meta[t] = gate.meta[t]
                                   \/ \E d \in 0..LockWait : /\ g.meta[t].beat = d
                                                             /\ ~(Cardinality(Counted(gate, d)) < Limit)

\* The caller gave a sign of life and dropped those silent for longer than Stale.
HeardAt(t, g) == \E d \in 0..LockWait : g.meta[t].beat = d /\ \A s \in Queued(g) : g.meta[s].beat <= Stale + d

\* A caller waits on because the gate heard of it, or because its poll failed.
Settled(t, g) ==
    t \in Queued(g) /\ Waits(t)' =>
        /\ pc'[t] = "sleeping" /\ since'[t] = 0
        /\ \/ HeardAt(t, g)
           \/ /\ pc[t] = "polling" /\ t \in Queued(gate)
              /\ \/ blocked = 0 /\ faults' = faults + 1
                 \/ blocked > 0 /\ blocked' = blocked

LEMMA Counting ==
    ASSUME Slots, NEW A \in SUBSET Held(gate), NEW B \in SUBSET A
    PROVE  Cardinality(A) \in Nat /\ Cardinality(B) \in Nat /\ Cardinality(B) <= Cardinality(A)
<1>1. IsFiniteSet(A)
  BY FS_Subset DEF Slots
<1>2. IsFiniteSet(B) /\ Cardinality(B) <= Cardinality(A)
  BY <1>1, FS_Subset
<1> QED
  BY <1>1, <1>2, FS_CardinalityType

LEMMA IdleBounds ==
    IdleBound \in Nat /\ IdleBound = Stale + Poll + 2 * LockWait + Delay(MaxFaults)
<1>1. Stale \in Nat /\ Poll \in Nat /\ LockWait \in Nat /\ Delay(MaxFaults) \in Nat
  BY Delays, Numbers
<1>2. IdleBound = Stale + Poll + 2 * LockWait + Delay(MaxFaults)
  BY DEF IdleBound, Delay
<1> QED
  BY <1>1, <1>2

\* What the failures cost covers what is left of a lock, before and after a step.
LEMMA LagRange ==
    ASSUME GateInv, OnTime, NEW t \in Tickets, Waits(t)
    PROVE  Lag(t) \in Int /\ Lag(t) <= Slept(t) /\ Delay(faults) + Lag(t) >= 0
<1>1. Slept(t) \in 0..(Poll + LockWait) /\ Poll \in Nat /\ LockWait \in Nat /\ LockTtl \in Nat
  BY SleptRange, Numbers
<1>2. /\ blocked \in 0..LockTtl /\ Delay(faults) \in Nat
      /\ blocked > 0 => Delay(faults) >= Poll + LockWait + LockTtl
  BY FaultDelays DEF OnTime
<1> QED
  BY <1>1, <1>2 DEF Lag

LEMMA LagRangeAfter ==
    ASSUME OnTime, Spends, NEW t, Slept(t)' \in Nat
    PROVE  Lag(t)' \in Int /\ Delay(faults') + Lag(t)' >= 0
<1>1. Lag(t)' = IF blocked' > 0 THEN LagAfter ELSE Slept(t)'
  BY DEF Lag, LagAfter
<1>2. Delay(faults') \in Nat /\ LagAfter \in Int /\ Delay(faults') + LagAfter >= 0
  BY LagsAfter
<1> QED
  BY <1>1, <1>2

LEMMA IdleShort ==
    ASSUME GateInv, OnTime, Idles, \A s \in Tickets : ~Due(s), NEW t \in Queued(gate), Waits(t)
    PROVE  idle < IdleBound
<1>1. /\ Stale \in Nat /\ LockWait \in Nat \ {0} /\ Poll \in Nat \ {0} /\ idle \in Nat
      /\ IdleBound \in Nat /\ IdleBound = Stale + Poll + 2 * LockWait + Delay(MaxFaults)
      /\ Delay(faults) \in Nat /\ Delay(MaxFaults) \in Nat /\ Delay(faults) <= Delay(MaxFaults)
  BY Numbers, IdleBounds, FaultDelays DEF OnTime, Idles
<1>2. t \in Tickets /\ since[t] \in Nat
  BY WhoWaits DEF GateInv, Clocks
<1>3. pc[t] = "polling" => since[t] < LockWait
  <2>1. pc[t] = "polling" => ~(since[t] >= LockWaitOf(t))
    BY <1>2 DEF Due
  <2>2. LockWaitOf(t) \in 0..LockWait
    BY <1>1 DEF LockWaitOf
  <2> QED
    BY <1>1, <1>2, <2>1, <2>2
<1>4. pc[t] = "sleeping" => since[t] < Poll
  BY <1>2 DEF OnTime, WaiterOnTime
<1>5. Slept(t) \in Nat /\ Slept(t) < Poll + LockWait
  BY <1>1, <1>2, <1>3, <1>4 DEF Waits, Slept
<1>6. Lag(t) \in Int /\ Lag(t) <= Slept(t) /\ idle <= Stale + LockWait + Delay(faults) + Lag(t)
  BY <1>2, LagRange DEF Idles, WaitersHeard
<1> QED
  BY <1>1, <1>5, <1>6

LEMMA MovedIdles ==
    ASSUME GateInv, OnTime, Slots, Idles, GateInv', NEW t \in Tickets, NEW g, Moved(t, g), Calm(t, g), Settled(t, g)
    PROVE  Idles'
<1>0. Stale \in Nat /\ LockWait \in Nat \ {0} /\ IdleBound \in Nat /\ Limit \in Nat
  BY Numbers, IdleBounds
<1>1. /\ gate' = g /\ idle' \in {0, idle} /\ Held(gate') = Held(g) /\ Queued(gate') = Queued(g)
      /\ FirstInLine(gate') = FirstInLine(g)
      /\ idle' # 0 => idle' = idle /\ FirstInLine(g) = FirstInLine(gate)
  BY DEF Moved
<1>2. /\ \A s \in Queued(g) : g.meta[s].beat \in Nat
      /\ \A s \in Queued(gate) : gate.meta[s].beat \in Nat
      /\ idle \in 0..IdleBound
      /\ FirstInLine(g) \subseteq Queued(g) /\ FirstInLine(gate) \subseteq Queued(gate)
  BY OneHead DEF Moved, OnTime, Stamped, Idles, GateInv
<1>l. ASSUME NEW s \in Queued(g)
      PROVE  /\ s \in Tickets /\ Slept(s)' \in Nat
             /\ Lag(s)' \in Int /\ Delay(faults') \in Nat /\ Delay(faults') + Lag(s)' >= 0
  <2>1. s \in Tickets
    BY WhoWaits DEF Moved
  <2>2. since'[s] \in Nat /\ Poll \in Nat
    BY <2>1, Numbers DEF GateInv, Clocks
  <2>3. Slept(s)' \in Nat
    BY <2>2 DEF Slept
  <2> QED
    BY <2>1, <2>3, LagRangeAfter, SpentDelays DEF Moved
<1>d. Delay(faults)' = Delay(faults')
  BY DEF Delay
<1>3. CASE idle' = 0
  <2>1. SlotSpared' /\ SomeoneWaits'
    BY <1>3 DEF SlotSpared, SomeoneWaits
  <2>2. HeadSilent'
    BY <1>0, <1>1, <1>2, <1>3 DEF HeadSilent, Queued, Held, FirstInLine
  <2>3. \A s \in Queued(g) : 0 <= Stale + LockWait + Delay(faults') + Lag(s)'
    BY <1>0, <1>l
  <2>4. WaitersHeard'
    BY <1>1, <1>3, <1>d, <2>3 DEF WaitersHeard, Queued, Held
  <2> QED
    BY <1>0, <1>3, <2>1, <2>2, <2>4 DEF Idles, IdleBound
<1>4. CASE idle' # 0
  <2>1. idle' = idle /\ idle > 0 /\ FirstInLine(g) = FirstInLine(gate) /\ FirstInLine(g) # {}
    BY <1>0, <1>1, <1>2, <1>4 DEF Idles, SomeoneWaits
  <2>2. /\ \A s \in Held(g) : s \in Held(gate) /\ (g.inflight[s] = gate.inflight[s] \/ gate.inflight[s] > 0)
        /\ t \in FirstInLine(g) => \/ g.meta[t] = gate.meta[t]
                                   \/ \E d \in 0..LockWait : /\ g.meta[t].beat = d
                                                             /\ ~(Cardinality(Counted(gate, d)) < Limit)
    BY <2>1 DEF Calm
  <2> DEFINE m == Lesser(idle, LockWait)
  <2>3. m \in Nat /\ m <= LockWait
    BY <1>0, <1>2 DEF Lesser
  <2>4. \A s \in Held(gate) : gate.inflight[s] \in Int
    <3>1. \A s \in Held(gate) : gate.inflight[s] \in (-LockWait)..Lease
      BY DEF GateInv, Leased
    <3> QED
      BY <1>0, <3>1, Numbers
  <2>5. Counted(gate, m) \in SUBSET Held(gate) /\ Counted(g, m) \in SUBSET Counted(gate, m)
    BY <2>2, <2>3, <2>4 DEF Counted
  <2>6. Cardinality(Counted(gate, m)) < Limit
    BY <2>1 DEF Idles, SlotSpared
  <2> HIDE DEF m
  <2>7. Cardinality(Counted(g, m)) < Limit
    BY <1>0, <2>5, <2>6, Counting
  <2>8. SlotSpared'
    BY <1>1, <2>1, <2>7 DEF SlotSpared, m
  <2>9. \A h \in FirstInLine(g) : idle <= g.meta[h].beat \/ g.meta[h].beat > Stale + LockWait
    <3> TAKE h \in FirstInLine(g)
    <3>1. idle <= gate.meta[h].beat \/ gate.meta[h].beat > Stale + LockWait
      BY <2>1 DEF Idles, HeadSilent
    <3>2. CASE g.meta[h] = gate.meta[h]
      BY <3>1, <3>2
    <3>3. CASE g.meta[h] # gate.meta[h]
      <4>1. h = t
        BY <1>2, <3>3 DEF Moved, Spares
      <4>2. PICK d \in 0..LockWait : g.meta[h].beat = d /\ ~(Cardinality(Counted(gate, d)) < Limit)
        BY <2>2, <3>3, <4>1
      <4>3. idle < d
        <5> SUFFICES ASSUME d <= idle PROVE FALSE
          BY <1>0, <1>2
        <5>1. d <= m
          BY <1>0, <1>2 DEF m, Lesser
        <5>2. Counted(gate, d) \in SUBSET Counted(gate, m)
          BY <1>0, <2>3, <2>4, <5>1 DEF Counted
        <5> QED
          BY <1>0, <2>5, <2>6, <4>2, <5>2, Counting
      <4> QED
        BY <1>0, <1>2, <4>2, <4>3
    <3> QED
      BY <3>2, <3>3
  <2>10. ASSUME NEW s \in Queued(g), Waits(s)'
         PROVE  idle <= Stale + LockWait + Delay(faults') + Lag(s)'
    <3>1. s \in Tickets /\ Lag(s)' \in Int /\ Delay(faults') \in Nat /\ Delay(faults') + Lag(s)' >= 0
      BY <1>l
    <3>2. s \in Queued(gate) /\ Waits(s) => idle <= Stale + LockWait + Delay(faults) + Lag(s)
      BY DEF Idles, WaitersHeard
    <3>3. CASE HeardAt(s, g)
      <4>1. PICK d \in 0..LockWait : g.meta[s].beat = d /\ \A x \in Queued(g) : g.meta[x].beat <= Stale + d
        BY <3>3 DEF HeardAt
      <4>2. PICK h \in FirstInLine(g) : TRUE
        BY <2>1
      <4>3. h \in Queued(g) /\ g.meta[h].beat <= Stale + d /\ (idle <= g.meta[h].beat \/ g.meta[h].beat > Stale + LockWait)
        BY <1>2, <2>9, <4>1
      <4>4. idle <= Stale + LockWait
        BY <1>0, <1>2, <4>1, <4>3
      <4> QED
        BY <1>0, <1>2, <3>1, <4>4
    <3>4. CASE s # t
      <4>1. s \in Queued(gate)
        BY <3>4 DEF Moved, Spares
      <4>2. Waits(s) /\ Slept(s)' = Slept(s)
        BY <2>10, <3>1, <3>4 DEF Moved, Aside, Waits, Slept
      <4>3. Lag(s) \in Int /\ Delay(faults) + Lag(s) <= Delay(faults') + Lag(s)'
        BY <3>1, <4>2, LagGrows DEF Moved
      <4>4. Delay(faults) \in Nat
        BY SpentDelays DEF Moved
      <4> QED
        BY <1>0, <1>2, <3>1, <3>2, <4>1, <4>2, <4>3, <4>4
    <3>5. CASE s = t /\ ~HeardAt(t, g)
      <4>1. /\ pc'[t] = "sleeping" /\ since'[t] = 0 /\ pc[t] = "polling" /\ t \in Queued(gate)
            /\ (blocked = 0 /\ faults' = faults + 1) \/ (blocked > 0 /\ blocked' = blocked)
        BY <2>10, <3>5 DEF Settled
      <4>2. Waits(t) /\ Slept(t)' = 0
        BY <4>1 DEF Waits, Slept
      <4>3. Delay(faults) + Lag(t) <= Delay(faults') + Lag(t)' /\ Lag(t) \in Int /\ Delay(faults) \in Nat
        <5>1. /\ Slept(t) \in 0..(Poll + LockWait) /\ Poll \in Nat /\ LockTtl \in Nat
              /\ Delay(faults) \in Nat /\ Delay(faults') \in Nat /\ Delay(faults) <= Delay(faults')
              /\ faults' = faults + 1 => Delay(faults') = Delay(faults) + Poll + LockWait + LockTtl
              /\ blocked \in 0..LockTtl /\ blocked' \in 0..LockTtl
          BY <4>2, SleptRange, SpentDelays, Numbers DEF Moved, OnTime
        <5>2. CASE blocked = 0 /\ faults' = faults + 1
          <6>1. Lag(t) = Slept(t) /\ Lag(t)' = IF blocked' > 0 THEN -blocked' ELSE Slept(t)'
            BY <5>2 DEF Lag
          <6>2. PICK b \in 0..LockTtl : b = blocked'
            BY <5>1
          <6>3. Lag(t)' = IF b > 0 THEN -b ELSE 0
            BY <4>2, <6>1, <6>2
          <6>4. Lag(t)' >= -LockTtl /\ Lag(t)' \in Int
            BY <5>1, <6>3
          <6> QED
            BY <1>0, <5>1, <5>2, <6>1, <6>4
        <5>3. CASE blocked > 0 /\ blocked' = blocked
          <6>1. Lag(t) = -blocked /\ Lag(t)' = -blocked
            BY <5>3 DEF Lag
          <6> QED
            BY <5>1, <6>1
        <5> QED
          BY <4>1, <5>2, <5>3
      <4> QED
        BY <1>0, <1>2, <3>1, <3>2, <3>5, <4>1, <4>2, <4>3
    <3> QED
      BY <3>3, <3>4, <3>5
  <2>11. HeadSilent' /\ WaitersHeard' /\ SomeoneWaits'
    BY <1>1, <1>d, <2>1, <2>9, <2>10 DEF HeadSilent, WaitersHeard, SomeoneWaits
  <2> QED
    BY <1>2, <2>1, <2>8, <2>11 DEF Idles, IdleBound
<1> QED
  BY <1>3, <1>4

-----------------------------------------------------------------------------
(* What each operation on the record does. *)

LEMMA StayingCalm ==
    ASSUME NEW t
    PROVE  Calm(t, gate)
BY DEF Calm

LEMMA ShrunkCalm ==
    ASSUME NEW t, NEW g, Held(g) \subseteq Held(gate), \A s \in Held(g) : g.inflight[s] = gate.inflight[s],
           t \in FirstInLine(g) => g.meta[t] = gate.meta[t]
    PROVE  Calm(t, g)
BY DEF Calm

LEMMA ReleasedCalm ==
    ASSUME WellFormed(gate), NEW t \in Tickets, NEW d
    PROVE  Calm(t, Released(gate, t, d)) /\ t \notin Queued(Released(gate, t, d))
<1> DEFINE g == Released(gate, t, d)
<1>1. /\ WellFormed(g) /\ Shrunk(gate, g) /\ t \notin Known(g)
      /\ \A s \in Held(g) : g.inflight[s] = gate.inflight[s]
  BY ReleasedShrinks
<1> HIDE DEF g
<1>2. t \notin Queued(g)
  BY <1>1 DEF Known, Queued
<1>3. t \notin FirstInLine(g)
  BY <1>1, <1>2, OneHead
<1> QED
  BY <1>1, <1>2, <1>3, ShrunkCalm DEF Shrunk, g

LEMMA PulsedCalm ==
    ASSUME WellFormed(gate), NEW t \in Tickets, NEW d, t \in Held(gate), gate.inflight[t] > 0
    PROVE  Calm(t, Pulsed(gate, t, d)) /\ t \notin Queued(Pulsed(gate, t, d))
<1> DEFINE g == Pulsed(gate, t, d)
<1>1. /\ WellFormed(g) /\ Shrunk(gate, g)
      /\ \A s \in Held(g) : g.inflight[s] = IF s = t THEN Lease - d ELSE gate.inflight[s]
  BY PulsedShrinks
<1> HIDE DEF g
<1>2. t \notin Queued(g)
  BY <1>1 DEF Shrunk, Queued
<1>3. t \notin FirstInLine(g)
  BY <1>1, <1>2, OneHead
<1>4. Calm(t, g)
  BY <1>1, <1>3 DEF Calm, Shrunk
<1> QED
  BY <1>2, <1>4 DEF g

\* After a purge every waiter has been heard of lately.
LEMMA PurgedHears ==
    ASSUME NEW f, WellFormed(f), Stamped(f), NEW d \in 0..LockWait, NEW s \in Queued(Purged(f, d))
    PROVE  Purged(f, d).meta[s].beat <= Stale + d
<1>1. /\ s \in Queued(f) /\ ~(f.meta[s].beat - d > Stale)
      /\ Purged(f, d).meta[s] = f.meta[s]
  BY PurgedShrinks DEF Queued
<1>2. f.meta[s].beat \in Nat /\ Stale \in Nat /\ LockWait \in Nat
  BY <1>1, Numbers DEF Stamped
<1> QED
  BY <1>1, <1>2

LEMMA ArrivedCalm ==
    ASSUME WellFormed(gate), Leased(gate), Stamped(gate), NEW t \in Tickets, t \notin Known(gate), NEW d \in 0..LockWait
    PROVE  /\ Calm(t, Arrived(gate, t, d))
           /\ t \in Queued(Arrived(gate, t, d)) => HeardAt(t, Arrived(gate, t, d))
<1> DEFINE h == Purged(gate, d)
           g == Arrived(gate, t, d)
<1>1. /\ WellFormed(h) /\ Shrunk(gate, h)
      /\ \A s \in Held(h) : h.inflight[s] = gate.inflight[s]
      /\ \A s \in Queued(h) : h.meta[s].beat <= Stale + d
  BY PurgedShrinks, PurgedHears
<1>2. g = IF Cardinality(Held(h)) < Limit /\ Waiters(h) = {} THEN Entered(h, t, d) ELSE Enqueued(h, t, d)
  BY DEF Arrived
<1> HIDE DEF h, g
<1>3. t \notin Known(h)
  BY <1>1, KnownOfShrunk
<1>4. CASE Waiters(h) = {} /\ g = Entered(h, t, d)
  <2>1. WellFormed(g) /\ Queued(g) = {}
    BY <1>1, <1>3, <1>4, EnteredHolds
  <2>2. FirstInLine(g) = {}
    BY <2>1, OneHead
  <2> QED
    BY <2>1, <2>2 DEF Calm, g
<1>5. CASE g = Enqueued(h, t, d)
  <2> DEFINE e == Enqueued(h, t, d)
  <2>1. e.meta[t] = [beat |-> d, over |-> FALSE]
    BY EnqueuedStamps
  <2> HIDE DEF e
  <2>2. /\ Held(e) = Held(h) /\ Queued(e) = Queued(h) \cup {t} /\ e.inflight = h.inflight
        /\ \A s \in DOMAIN h.meta : e.meta[s] = h.meta[s]
    <3>1. WellFormed(h) /\ t \notin Known(h)
      BY <1>1, <1>3
    <3> QED
      BY <3>1, EnqueuedWaits, Zenon DEF e
  <2>3. g = e
    BY <1>5 DEF e
  <2>4. \A s \in Queued(g) : g.meta[s].beat <= Stale + d
    <3>1. d <= Stale + d
      BY Numbers
    <3>2. \A s \in Queued(h) : g.meta[s] = h.meta[s]
      BY <2>2, <2>3 DEF Queued
    <3> QED
      BY <1>1, <2>1, <2>2, <2>3, <3>1, <3>2
  <2>5. HeardAt(t, g)
    BY <2>1, <2>3, <2>4 DEF HeardAt
  <2>6. t \notin FirstInLine(gate)
    BY OneHead DEF Queued, Known
  <2>7. Calm(t, g)
    BY <1>1, <2>2, <2>3, <2>6 DEF Calm, Shrunk
  <2> QED
    BY <2>5, <2>7 DEF g
<1> QED
  BY <1>2, <1>4, <1>5

LEMMA PolledCalm ==
    ASSUME WellFormed(gate), Leased(gate), Stamped(gate), NEW t \in Tickets, NEW d \in 0..LockWait,
           NEW g, g = PollOf(gate, t, d).gate
    PROVE  /\ Calm(t, g)
           /\ t \in Queued(g) => PollOf(gate, t, d).status = "queued" /\ HeardAt(t, g)
<1> DEFINE seen == Seen(gate, t, d)
           h == Judged(gate, t, d)
           told == PollOf(gate, t, d)
<1>1. /\ WellFormed(seen) /\ Held(seen) = Held(gate) /\ Queued(seen) = Queued(gate) /\ seen.inflight = gate.inflight
      /\ \A s \in DOMAIN seen.meta : s # t => seen.meta[s] = gate.meta[s]
  <2> HIDE DEF seen
  <2>1. /\ WellFormed(Seen(gate, t, d)) /\ Held(Seen(gate, t, d)) = Held(gate) /\ Queued(Seen(gate, t, d)) = Queued(gate)
        /\ Seen(gate, t, d).inflight = gate.inflight
        /\ \A s \in DOMAIN Seen(gate, t, d).meta : s # t => Seen(gate, t, d).meta[s] = gate.meta[s]
    BY SeenShrinks
  <2> QED
    BY <2>1 DEF seen
<1>2. t \in Queued(gate) => seen.meta[t].beat = d /\ seen.meta[t] \in [beat : Nat, over : BOOLEAN]
  BY SeenStamps, Numbers DEF Stamped
<1>3. FirstInLine(seen) = FirstInLine(gate)
  BY HeadOfSeen
<1>4. \/ t \in Held(h) /\ told = [status |-> "granted", gate |-> h]
      \/ t \notin Known(h) /\ told = [status |-> "missing", gate |-> h]
      \/ /\ t \in Queued(h) /\ h.meta[t].over
         /\ told = [status |-> "timeout", gate |-> Released(h, t, d)]
      \/ t \in Queued(h) /\ IsHead(h, t) /\ told = [status |-> "granted", gate |-> Granted(h, t, d)]
      \/ /\ t \in Queued(h) /\ ~(Cardinality(Held(h)) < Limit /\ IsHead(h, t))
         /\ told = [status |-> "queued", gate |-> h]
  <2> HIDE DEF h, seen
  <2>1. h = Judged(gate, t, d)
    BY DEF h
  <2> QED
    BY <2>1, PollCases, SMTT(20)
<1>5. h = Purged(seen, d)
  BY DEF Judged
<1>6. g = told.gate
  OBVIOUS
<1> HIDE DEF seen, h, told
<1>7. Stamped(seen)
  BY <1>1, <1>2 DEF Stamped, Queued
<1>8. /\ WellFormed(h) /\ Held(h) = {s \in Held(seen) : ~(seen.inflight[s] + d <= 0)}
      /\ Queued(h) = {s \in Queued(seen) : ~(seen.meta[s].beat - d > Stale)}
      /\ \A s \in Held(h) : h.inflight[s] = seen.inflight[s]
      /\ \A s \in DOMAIN h.meta : h.meta[s] = seen.meta[s]
      /\ \A s \in Queued(h) : h.meta[s].beat <= Stale + d
  BY <1>1, <1>5, <1>7, PurgedShrinks, PurgedHears
<1>9. Held(h) \subseteq Held(gate) /\ \A s \in Held(h) : h.inflight[s] = gate.inflight[s]
  BY <1>1, <1>8
<1>10. CASE t \notin Queued(h) /\ g = h
  <2>1. t \notin FirstInLine(g)
    BY <1>8, <1>10, OneHead
  <2> QED
    BY <1>9, <1>10, <2>1, ShrunkCalm
<1>11. CASE g = Released(h, t, d)
  <2>1. /\ WellFormed(g) /\ t \notin Known(g) /\ Shrunk(h, g)
        /\ \A s \in Held(g) : g.inflight[s] = h.inflight[s]
    BY <1>8, <1>11, ReleasedShrinks
  <2>2. t \notin Queued(g)
    BY <2>1 DEF Known, Queued
  <2>3. t \notin FirstInLine(g)
    BY <2>1, <2>2, OneHead
  <2> QED
    BY <1>9, <2>1, <2>2, <2>3, ShrunkCalm DEF Shrunk
<1>12. CASE IsHead(h, t) /\ g = Granted(h, t, d)
  <2>1. WellFormed(g) /\ Queued(g) = Queued(h) \ {t}
    BY <1>8, <1>12, GrantedServes
  <2>2. ASSUME NEW s \in FirstInLine(gate), s \in FirstInLine(g)
        PROVE  FALSE
    <3>1. s \in Queued(h) /\ s # t
      BY <2>1, <2>2, OneHead
    <3>2. s \in FirstInLine(h)
      BY <1>1, <1>3, <1>5, <2>2, <3>1, HeadOfPurged
    <3> QED
      BY <1>8, <1>12, <3>1, <3>2, OneHead DEF IsHead
  <2> QED
    BY <2>1, <2>2 DEF Calm
<1>13. CASE /\ t \in Queued(h) /\ ~(Cardinality(Held(h)) < Limit /\ IsHead(h, t))
            /\ told = [status |-> "queued", gate |-> h]
  <2>1. g = h /\ told.status = "queued"
    BY <1>6, <1>13
  <2>2. h.meta[t].beat = d
    BY <1>1, <1>2, <1>8, <1>13 DEF Queued
  <2>3. HeardAt(t, g)
    BY <1>8, <2>1, <2>2 DEF HeardAt
  <2>4. Held(h) = Counted(gate, d)
    <3>1. \A s \in Held(gate) : gate.inflight[s] \in (-LockWait)..Lease
      BY DEF Leased
    <3>2. \A s \in Held(gate) : ~(gate.inflight[s] + d <= 0) <=> gate.inflight[s] > -d
      BY <3>1, Numbers
    <3> QED
      BY <1>1, <1>8, <3>2 DEF Counted
  <2>5. t \in FirstInLine(g) => ~(Cardinality(Counted(gate, d)) < Limit)
    BY <1>13, <2>1, <2>4 DEF IsHead
  <2>6. Calm(t, g)
    BY <1>9, <2>1, <2>2, <2>5 DEF Calm
  <2> QED
    BY <2>1, <2>3, <2>6 DEF told
<1>14. /\ t \in Held(h) => t \notin Queued(h)
       /\ t \notin Known(h) => t \notin Queued(h)
  BY DEF Queued, Known
<1> QED
  BY <1>4, <1>6, <1>10, <1>11, <1>12, <1>13, <1>14
-----------------------------------------------------------------------------
(* The steps. *)

Timely == GateInv /\ Slots /\ OnTime /\ Idles

LEMMA WriteMovesIdle ==
    ASSUME NEW g, Write(g)
    PROVE  gate' = g /\ idle' = IF FirstInLine(g) = FirstInLine(gate) THEN idle ELSE 0
BY DEF Write

\* A step of t that takes the record to g keeps everything, given what g is like.
LEMMA KeptBy ==
    ASSUME Timely, GateInv', OnTime', NEW t \in Tickets, NEW g, gate' = g,
           idle' = IF FirstInLine(g) = FirstInLine(gate) THEN idle ELSE 0,
           Spares(t, gate, g), Aside(t), Spends, Calm(t, g), Settled(t, g)
    PROVE  Idles'
<1>1. WellFormed(g)
  BY DEF GateInv, WellFormed, Held, Queued, Waiters
<1>2. Stamped(g)
  BY DEF OnTime, Stamped, Queued, Held
<1>3. Moved(t, g)
  BY <1>1, <1>2 DEF Moved
<1> QED
  BY <1>3, MovedIdles DEF Timely

LEMMA AloneKeeps ==
    ASSUME Timely, GateInv', OnTime', NEW t \in Tickets, Begin(t) \/ Finish(t) \/ Die(t)
    PROVE  Idles'
<1>1. /\ gate' = gate /\ idle' = idle /\ Spends /\ Aside(t)
      /\ pc'[t] \in {"none", "arriving", "releasing"}
  <2>1. CASE Begin(t)
    <3>1. Go(t, "arriving") /\ UNCHANGED <<gate, pulse, blocked, idle, faults>>
      BY <2>1 DEF Begin
    <3>2. pc'[t] = "arriving" /\ Aside(t)
      BY <3>1, GoesAlone DEF Timely
    <3> QED
      BY <3>1, <3>2 DEF Spends, Timely, OnTime
  <2>2. CASE Finish(t)
    <3>1. Go(t, "releasing") /\ pulse' = [pulse EXCEPT ![t] = Off] /\ gate' = gate /\ idle' = idle
      BY <2>2 DEF Finish, Leaves
    <3>2. pc'[t] = "releasing" /\ Aside(t)
      BY <3>1, GoesAlone DEF Timely
    <3>3. CASE UNCHANGED <<blocked, faults>>
      BY <3>1, <3>2, <3>3 DEF Spends, Timely, OnTime
    <3>4. CASE Fault("cut_off") /\ LockLeft
      BY <3>1, <3>2, <3>4, FaultSpends DEF Timely
    <3> QED
      BY <2>2, <3>3, <3>4 DEF Finish
  <2>3. CASE Die(t)
    <3>1. /\ Go(t, "none") /\ pulse' = [pulse EXCEPT ![t] = Off] /\ gate' = gate /\ idle' = idle
          /\ Fault("caller_dies") /\ (UNCHANGED blocked \/ LockLeft)
      BY <2>3 DEF Die
    <3>2. pc'[t] = "none" /\ Aside(t)
      BY <3>1, GoesAlone DEF Timely
    <3> QED
      BY <3>1, <3>2, FaultSpends DEF Timely
  <2> QED
    BY <2>1, <2>2, <2>3
<1>2. Settled(t, gate)
  BY <1>1 DEF Settled, Waits
<1> QED
  BY <1>1, <1>2, StayingCalm, StayingSpares, KeptBy

LEMMA ArriveKeeps ==
    ASSUME Timely, GateInv', OnTime', NEW t \in Tickets, Arrive(t) \/ ArriveFails(t)
    PROVE  Idles'
<1> DEFINE d == since[t]
           w == Arrived(gate, t, d)
<1>1. pc[t] = "arriving"
  BY DEF Arrive, ArriveFails
<1>2. d \in 0..LockWait /\ t \notin Known(gate)
  BY <1>1, StepAge DEF Timely, GateInv, Fresh
<1>3. PICK g \in {gate, w} : /\ Write(g) /\ Spends
                             /\ \/ t \in Held(g) /\ Enters(t)
                                \/ g = w /\ Go(t, "sleeping") /\ UNCHANGED pulse
                                \/ Leaves(t)
  <2>1. CASE Arrive(t)
    BY <2>1, WorkSpends DEF Arrive, Timely
  <2>2. CASE ArriveFails(t)
    BY <2>2, FailsWrites, FailSpends DEF ArriveFails, Timely
  <2> QED
    BY <2>1, <2>2
<1> HIDE DEF d
<1>4. /\ Calm(t, g) /\ Spares(t, gate, g)
      /\ t \in Queued(g) => HeardAt(t, g)
  <2>1. CASE g = gate
    BY <1>2, <2>1, StayingCalm, StayingSpares DEF Known, Queued
  <2>2. CASE g = w
    BY <1>2, <2>2, ArrivedCalm, ArrivedSpares DEF Timely, GateInv, OnTime
  <2> QED
    BY <2>1, <2>2
<1> HIDE DEF w
<1>5. gate' = g /\ idle' = IF FirstInLine(g) = FirstInLine(gate) THEN idle ELSE 0
  BY <1>3, WriteMovesIdle
<1>6. Aside(t) /\ Settled(t, g)
  <2>1. CASE t \in Held(g) /\ Enters(t)
    BY <2>1, GoesAlone DEF Enters, Timely, Settled, Queued
  <2>2. CASE Go(t, "sleeping") /\ UNCHANGED pulse
    <3>1. pc'[t] = "sleeping" /\ since'[t] = 0 /\ Aside(t)
      BY <2>2, GoesAlone DEF Timely
    <3> QED
      BY <1>4, <3>1 DEF Settled
  <2>3. CASE Leaves(t)
    <3>1. pc'[t] = "releasing" /\ Aside(t)
      BY <2>3, GoesAlone DEF Leaves, Timely
    <3> QED
      BY <3>1 DEF Settled, Waits
  <2> QED
    BY <1>3, <2>1, <2>2, <2>3
<1> QED
  BY <1>3, <1>4, <1>5, <1>6, KeptBy

LEMMA PollKeeps ==
    ASSUME Timely, GateInv', OnTime', NEW t \in Tickets, PollStep(t) \/ PollFails(t)
    PROVE  Idles'
<1> DEFINE d == since[t]
           told == PollOf(gate, t, d)
<1>1. pc[t] = "polling"
  BY DEF PollStep, PollFails
<1>2. d \in 0..LockWait
  BY <1>1, StepAge DEF Timely, GateInv
<1>3. PICK g \in {gate, told.gate} :
         /\ Write(g) /\ Spends
         /\ \/ Enters(t) \/ Leaves(t)
            \/ /\ pc' = [pc EXCEPT ![t] = "sleeping"] /\ since' = [since EXCEPT ![t] = 0] /\ UNCHANGED pulse
               /\ \A s \in Tickets : s # t => missed'[s] = missed[s]
               /\ \/ g = told.gate
                  \/ blocked = 0 /\ faults' = faults + 1
                  \/ blocked > 0 /\ blocked' = blocked
  <2>m. missed \in [Tickets -> 0..2] /\ OnTime
    BY DEF Timely, OnTime
  <2>1. CASE PollStep(t)
    <3>1. Write(told.gate) /\ Spends
      BY <2>1, <2>m, WorkSpends DEF PollStep
    <3> QED
      BY <2>1, <2>m, <3>1 DEF PollStep, Go
  <2>2. CASE PollFails(t)
    <3>1. /\ Spends
          /\ \/ blocked = 0 /\ faults' = faults + 1 /\ \E h \in {gate, told.gate} : Write(h)
             \/ blocked > 0 /\ blocked' = blocked /\ Write(gate)
      BY <2>2, <2>m, FailSpends DEF PollFails
    <3>2. /\ pc' = [pc EXCEPT ![t] = "sleeping"] /\ since' = [since EXCEPT ![t] = 0] /\ UNCHANGED pulse
          /\ \A s \in Tickets : s # t => missed'[s] = missed[s]
      BY <2>2, <2>m DEF PollFails
    <3> HIDE DEF told
    <3> QED
      BY <3>1, <3>2
  <2> QED
    BY <2>1, <2>2
<1> HIDE DEF d
<1>4. /\ Calm(t, told.gate) /\ Spares(t, gate, told.gate)
      /\ t \in Queued(told.gate) => told.status = "queued" /\ HeardAt(t, told.gate)
  BY <1>2, PolledCalm, PolledSpares DEF Timely, GateInv, OnTime
<1> HIDE DEF told
<1>5. Calm(t, g) /\ Spares(t, gate, g)
  BY <1>3, <1>4, StayingCalm, StayingSpares
<1>6. gate' = g /\ idle' = IF FirstInLine(g) = FirstInLine(gate) THEN idle ELSE 0
  BY <1>3, WriteMovesIdle
<1>7. Aside(t) /\ Settled(t, g)
  <2>1. CASE Enters(t) \/ Leaves(t)
    BY <2>1, GoesAlone DEF Enters, Leaves, Timely, Settled, Waits
  <2>2. CASE /\ pc' = [pc EXCEPT ![t] = "sleeping"] /\ since' = [since EXCEPT ![t] = 0] /\ UNCHANGED pulse
             /\ \A s \in Tickets : s # t => missed'[s] = missed[s]
             /\ \/ g = told.gate
                \/ blocked = 0 /\ faults' = faults + 1
                \/ blocked > 0 /\ blocked' = blocked
    <3>1. pc'[t] = "sleeping" /\ since'[t] = 0 /\ Aside(t)
      BY <2>2 DEF Timely, GateInv, Clocks, Aside
    <3>2. t \in Queued(g) => \/ HeardAt(t, g)
                             \/ /\ pc[t] = "polling" /\ t \in Queued(gate)
                                /\ \/ blocked = 0 /\ faults' = faults + 1
                                   \/ blocked > 0 /\ blocked' = blocked
      BY <1>1, <1>3, <1>4, <2>2
    <3> QED
      BY <3>1, <3>2 DEF Settled
  <2> QED
    BY <1>3, <2>1, <2>2
<1> QED
  BY <1>3, <1>5, <1>6, <1>7, KeptBy

LEMMA ReleaseKeeps ==
    ASSUME Timely, GateInv', OnTime', NEW t \in Tickets, Release(t) \/ ReleaseFails(t)
    PROVE  Idles'
<1> DEFINE d == since[t]
           w == Released(gate, t, d)
<1>1. pc[t] = "releasing" /\ Go(t, "none") /\ UNCHANGED pulse
  BY DEF Release, ReleaseFails
<1>2. d \in 0..LockWait
  BY <1>1, StepAge DEF Timely, GateInv
<1>3. PICK g \in {gate, w} : Write(g) /\ Spends
  <2>1. CASE Release(t)
    BY <2>1, WorkSpends DEF Release, Timely
  <2>2. CASE ReleaseFails(t)
    BY <2>2, FailsWrites, FailSpends DEF ReleaseFails, Timely
  <2> QED
    BY <2>1, <2>2
<1> HIDE DEF d
<1>4. Calm(t, w) /\ Spares(t, gate, w) /\ t \notin Queued(w)
  BY <1>2, ReleasedCalm, ReleasedSpares DEF Timely, GateInv, OnTime
<1> HIDE DEF w
<1>5. Calm(t, g) /\ Spares(t, gate, g)
  BY <1>3, <1>4, StayingCalm, StayingSpares
<1>6. gate' = g /\ idle' = IF FirstInLine(g) = FirstInLine(gate) THEN idle ELSE 0
  BY <1>3, WriteMovesIdle
<1>7. pc'[t] = "none" /\ Aside(t)
  BY <1>1, GoesAlone DEF Timely
<1>8. Settled(t, g)
  BY <1>7 DEF Settled, Waits
<1> QED
  BY <1>3, <1>5, <1>6, <1>7, <1>8, KeptBy

LEMMA PulseKeeps ==
    ASSUME Timely, GateInv', OnTime', LeaseOutlasts, NEW t \in Tickets, PulseStep(t) \/ PulseFails(t)
    PROVE  Idles'
<1> DEFINE d == pulse[t].since
           w == Pulsed(gate, t, d)
<1>1. pulse[t].at = "step" /\ UNCHANGED <<pc, since>>
  BY DEF PulseStep, PulseFails
<1>2. d \in 0..LockWait /\ pc[t] = "running"
  BY <1>1, StepAge DEF Timely, GateInv, OnTime, HolderOnTime
<1>3. PICK g \in {gate, w} : Write(g) /\ Spends
  <2>1. CASE PulseStep(t)
    BY <2>1, WorkSpends DEF PulseStep, Timely
  <2>2. CASE PulseFails(t)
    BY <2>2, FailsWrites, FailSpends DEF PulseFails, Timely
  <2> QED
    BY <2>1, <2>2
<1>4. t \in Held(gate) /\ gate.inflight[t] > 0
  BY <1>1, <1>2, LivingHolders DEF Timely
<1>5. Aside(t)
  BY <1>1 DEF PulseStep, PulseFails, Aside, Timely, GateInv, Clocks
<1> HIDE DEF d
<1>6. Calm(t, w) /\ Spares(t, gate, w) /\ t \notin Queued(w)
  BY <1>2, <1>4, PulsedCalm, PulsedSpares DEF Timely, GateInv, OnTime
<1> HIDE DEF w
<1>7. Calm(t, g) /\ Spares(t, gate, g) /\ t \notin Queued(g)
  BY <1>3, <1>4, <1>6, StayingCalm, StayingSpares DEF Queued
<1>8. gate' = g /\ idle' = IF FirstInLine(g) = FirstInLine(gate) THEN idle ELSE 0
  BY <1>3, WriteMovesIdle
<1>9. Settled(t, g)
  BY <1>7 DEF Settled
<1> QED
  BY <1>3, <1>5, <1>7, <1>8, <1>9, KeptBy

\* Time passes: who waits goes on waiting, and every sleep and step is one older.
LEMMA TickClocks ==
    ASSUME Timely, Tick, NEW t \in Tickets
    PROVE  /\ Waits(t)' <=> Waits(t)
           /\ Waits(t) => Slept(t) \in Nat /\ Slept(t)' = Slept(t) + 1
           /\ Waits(t) => Lag(t) \in Int /\ Lag(t)' \in Int /\ Lag(t)' >= Lag(t) + 1 /\ Delay(faults) + Lag(t)' >= 0
<1>1. /\ pc' = [s \in Tickets |-> IF WakesUp(s) THEN "polling" ELSE pc[s]]
      /\ since' = [s \in Tickets |-> IF pc[s] \in {"none", "running"} \/ WakesUp(s) THEN 0 ELSE since[s] + 1]
  BY DEF Tick
<1>2. since[t] \in Nat /\ Poll \in Nat
  BY Numbers DEF Timely, GateInv, Clocks
<1>3. Waits(t)' <=> Waits(t)
  BY <1>1, <1>2 DEF WakesUp, Waits
<1>4. Waits(t) => Slept(t) \in Nat /\ Slept(t)' = Slept(t) + 1
  <2>1. CASE WakesUp(t)
    <3>1. pc[t] = "sleeping" /\ since[t] + 1 = Poll /\ pc'[t] = "polling" /\ since'[t] = 0
      BY <1>1, <2>1 DEF WakesUp
    <3> QED
      BY <1>2, <3>1 DEF Slept
  <2>2. CASE ~WakesUp(t)
    <3>1. pc'[t] = pc[t] /\ (pc[t] \notin {"none", "running"} => since'[t] = since[t] + 1)
      BY <1>1, <2>2
    <3> QED
      BY <1>2, <3>1 DEF Waits, Slept
  <2> QED
    BY <2>1, <2>2
<1>5. /\ blocked \in 0..LockTtl /\ LockTtl \in Nat /\ Delay(faults) \in Nat /\ Poll \in Nat /\ LockWait \in Nat
      /\ blocked' = IF blocked = 0 THEN 0 ELSE blocked - 1
      /\ blocked > 0 => Delay(faults) >= Poll + LockWait + LockTtl
  BY Numbers, FaultDelays DEF Tick, Timely, OnTime
<1>6. Waits(t) => Lag(t) \in Int /\ Lag(t)' \in Int /\ Lag(t)' >= Lag(t) + 1 /\ Delay(faults) + Lag(t)' >= 0
  BY <1>4, <1>5 DEF Lag
<1> QED
  BY <1>3, <1>4, <1>6

LEMMA TickKeeps ==
    ASSUME Timely, Tick
    PROVE  Idles'
<1>0. /\ Stale \in Nat /\ LockWait \in Nat \ {0} /\ Poll \in Nat /\ IdleBound \in Nat /\ Limit \in Nat
      /\ faults \in Nat /\ Delay(faults) \in Nat /\ Lease \in Nat
  BY Numbers, IdleBounds, FaultDelays DEF Timely, OnTime
<1>a. PICK late : gate' = Aged(gate, late)
  BY DEF Tick
<1>1. /\ gate' = Aged(gate, late) /\ \A s \in Tickets : ~Due(s)
      /\ idle' = IF SlotFree /\ (\E t \in Queued(gate) : Waits(t)) THEN Capped(idle, IdleBound + 1) ELSE 0
  BY <1>a DEF Tick
<1>2. /\ Held(gate') = Held(gate) /\ Queued(gate') = Queued(gate)
      /\ faults' = faults /\ \A n : Delay(n)' = Delay(n)
      /\ \A t \in Queued(gate) : gate'.meta[t].beat \in Nat /\ gate'.meta[t].beat <= gate.meta[t].beat + 1
  BY <1>1, AgedKeeps, TickAges DEF Timely, GateInv, Delay
<1>3. FirstInLine(gate') = FirstInLine(gate)
  <2>1. gate'.queues = gate.queues /\ gate'.order = gate.order
    BY <1>1 DEF Aged
  <2> QED
    BY <2>1, SameLine
<1>4. \A t \in Queued(gate) : /\ t \in Tickets /\ gate.meta[t].beat \in Nat
                              /\ gate'.meta[t].beat = Capped(gate.meta[t].beat, Stale + LockWait + 1)
  <2>1. \A t \in Queued(gate) : t \in Tickets
    BY WhoWaits, Zenon DEF Timely, GateInv
  <2>2. \A t \in Queued(gate) : gate.meta[t].beat \in Nat
    BY DEF Timely, OnTime, Stamped
  <2>3. \A t \in Queued(gate) : gate'.meta[t].beat = Capped(gate.meta[t].beat, Stale + LockWait + 1)
    BY <1>1 DEF Aged, Queued
  <2> QED
    BY <2>1, <2>2, <2>3
<1>5. idle \in Nat /\ idle <= IdleBound
  BY <1>0 DEF Timely, Idles
<1>7. CASE idle' = 0
  <2>1. HeadSilent' /\ WaitersHeard'
    <3>1. \A h \in FirstInLine(gate) : 0 <= gate'.meta[h].beat
      BY <1>2, OneHead DEF Timely, GateInv
    <3>2. HeadSilent'
      BY <1>3, <1>7, <3>1 DEF HeadSilent
    <3>3. ASSUME NEW s \in Queued(gate), Waits(s)'
          PROVE  0 <= Stale + LockWait + Delay(faults) + Lag(s)'
      BY <1>0, <1>4, <3>3, TickClocks
    <3>4. Queued(gate)' = Queued(gate)
      BY <1>2 DEF Queued, Held
    <3>5. WaitersHeard'
      BY <1>2, <1>7, <3>3, <3>4 DEF WaitersHeard
    <3> QED
      BY <3>2, <3>5
  <2> QED
    BY <1>0, <1>7, <2>1 DEF Idles, SlotSpared, SomeoneWaits, IdleBound
<1>8. CASE idle' # 0
  <2>1. PICK t \in Queued(gate) : Waits(t)
    BY <1>1, <1>8
  <2>2. idle < IdleBound /\ SlotFree
    BY <1>1, <1>8, <2>1, IdleShort DEF Timely
  <2>3. idle' = idle + 1
    BY <1>0, <1>1, <1>5, <2>1, <2>2 DEF Capped
  <2>4. SomeoneWaits'
    <3>1. FirstInLine(gate') # {}
      BY <1>3, SomeoneFirst DEF Timely, GateInv
    <3> QED
      BY <3>1 DEF SomeoneWaits
  <2>5. HeadSilent'
    <3>1. ASSUME NEW h \in FirstInLine(gate)
          PROVE  idle' <= gate'.meta[h].beat \/ gate'.meta[h].beat > Stale + LockWait
      <4>1. h \in Queued(gate) /\ (idle <= gate.meta[h].beat \/ gate.meta[h].beat > Stale + LockWait)
        BY OneHead DEF Timely, GateInv, Idles, HeadSilent
      <4> QED
        BY <1>0, <1>4, <1>5, <2>3, <4>1 DEF Capped
    <3> QED
      BY <1>3, <3>1 DEF HeadSilent
  <2>6. WaitersHeard'
    <3>1. ASSUME NEW s \in Queued(gate), Waits(s)'
          PROVE  idle' <= Stale + LockWait + Delay(faults) + Lag(s)'
      <4>1. Waits(s) /\ Lag(s) \in Int /\ Lag(s)' \in Int /\ Lag(s)' >= Lag(s) + 1
        BY <1>4, <3>1, TickClocks
      <4>2. idle <= Stale + LockWait + Delay(faults) + Lag(s)
        BY <4>1 DEF Timely, Idles, WaitersHeard
      <4> QED
        BY <1>0, <1>5, <2>3, <4>1, <4>2
    <3>2. Queued(gate)' = Queued(gate)
      BY <1>2 DEF Queued, Held
    <3> QED
      BY <1>2, <3>1, <3>2 DEF WaitersHeard
  <2>7. SlotSpared'
    <3> DEFINE m == Lesser(idle', LockWait)
               n == Lesser(idle, LockWait)
               free == {s \in Held(gate) : gate.inflight[s] > 0}
    <3>1. m \in Nat /\ m <= LockWait /\ n \in Nat /\ (m = n + 1 \/ (m = n /\ n = LockWait))
      BY <1>0, <1>5, <2>3 DEF Lesser
    <3>2. \A s \in Held(gate) : /\ gate.inflight[s] \in Int
                                /\ gate'.inflight[s] = IF gate.inflight[s] > -LockWait THEN gate.inflight[s] - 1 ELSE gate.inflight[s]
      <4>1. \A s \in Held(gate) : gate.inflight[s] \in (-LockWait)..Lease
        BY DEF Timely, GateInv, Leased
      <4>2. \A s \in Held(gate) : gate.inflight[s] \in Int
        BY <1>0, <4>1
      <4> QED
        BY <1>1, <4>2 DEF Aged
    <3>3. Cardinality(Counted(gate, n)) < Limit
      <4>1. CASE idle = 0
        <5>1. n = 0 /\ Counted(gate, n) = {s \in Held(gate) : gate.inflight[s] > 0}
          BY <1>0, <4>1 DEF Lesser, Counted
        <5> QED
          BY <2>2, <5>1 DEF SlotFree
      <4>2. CASE idle > 0
        BY <4>2 DEF Timely, Idles, SlotSpared
      <4> QED
        BY <1>5, <4>1, <4>2
    <3> HIDE DEF m, n
    <3>4. Counted(gate, n) \in SUBSET Held(gate) /\ Counted(gate', m) \in SUBSET Counted(gate, n)
      <4>1. ASSUME NEW s \in Held(gate), gate'.inflight[s] > -m
            PROVE  gate.inflight[s] > -n
        BY <1>0, <3>1, <3>2, <4>1
      <4> QED
        BY <1>2, <4>1 DEF Counted
    <3>5. Cardinality(Counted(gate', m)) < Limit
      BY <1>0, <3>3, <3>4, Counting DEF Timely
    <3> QED
      BY <3>5 DEF SlotSpared, m
  <2>8. idle' \in 0..IdleBound
    BY <1>0, <1>5, <2>2, <2>3
  <2> QED
    BY <2>4, <2>5, <2>6, <2>7, <2>8 DEF Idles, IdleBound
<1> QED
  BY <1>7, <1>8

-----------------------------------------------------------------------------
(* The specification. *)

LEMMA StartsTimely ==
    ASSUME Init
    PROVE  Timely
<1>1. gate = fresh_state /\ idle = 0
  BY DEF Init
<1>2. Held(gate) = {} /\ Queued(gate) = {}
  BY <1>1 DEF fresh_state, Held, Queued
<1>3. GateInv /\ OnTime
  BY StartInv, StartsOnTime
<1>4. FirstInLine(gate) = {}
  BY <1>2, <1>3, OneHead DEF GateInv
<1>5. Slots
  BY <1>2, FS_EmptySet, GateAssumption DEF Slots
<1>6. Idles
  BY <1>1, <1>2, <1>4, IdleBounds DEF Idles, SlotSpared, SomeoneWaits, HeadSilent, WaitersHeard
<1> QED
  BY <1>3, <1>5, <1>6 DEF Timely

LEMMA StepTimely ==
    ASSUME Timely, LeaseOutlasts, [Next]_vars
    PROVE  Timely'
<1>1. GateInv' /\ Slots' /\ OnTime'
  BY StepInv, SlotsKept, StepOnTime DEF Timely, Promised
<1>2. CASE Tick
  BY <1>1, <1>2, TickKeeps DEF Timely
<1>3. ASSUME NEW t \in Tickets, Step(t)
      PROVE  Idles'
  <2>1. CASE Begin(t) \/ Finish(t) \/ Die(t)
    BY <1>1, <2>1, AloneKeeps
  <2>2. CASE Arrive(t) \/ ArriveFails(t)
    BY <1>1, <2>2, ArriveKeeps
  <2>3. CASE PollStep(t) \/ PollFails(t)
    BY <1>1, <2>3, PollKeeps
  <2>4. CASE PulseStep(t) \/ PulseFails(t)
    BY <1>1, <2>4, PulseKeeps
  <2>5. CASE Release(t) \/ ReleaseFails(t)
    BY <1>1, <2>5, ReleaseKeeps
  <2> QED
    BY <1>3, <2>1, <2>2, <2>3, <2>4, <2>5 DEF Step
<1>4. CASE UNCHANGED vars
  <2>1. Idles'
    BY <1>4 DEF vars, Timely, Idles, SlotSpared, SomeoneWaits, HeadSilent, WaitersHeard, Counted,
                Slept, Lag, Waits, Delay, IdleBound, FirstInLine, Queued, Held
  <2> QED
    BY <1>1, <2>1 DEF Timely
<1> QED
  BY <1>1, <1>2, <1>3, <1>4 DEF Next, Timely

\* If a lease outlasts what the failures cost, a slot that no lease takes stays unused
\* while a live caller waits for IdleBound at most: whoever keeps it free falls silent,
\* and is dropped by the first poll of that caller that gets through.  _purge
\* (model_gate.py) is the only cure for a caller that died at the head.
THEOREM SlotsDoNotIdle ==
    ASSUME LeaseOutlasts
    PROVE  Spec => []SlotNeverIdles
<1>1. Init => Timely
  BY StartsTimely
<1>2. Timely /\ [Next]_vars => Timely'
  BY StepTimely
<1>3. Timely => SlotNeverIdles
  BY IdleBounds DEF Timely, Idles, SlotNeverIdles
<1> QED
  BY <1>1, <1>2, <1>3, PTL DEF Spec
=============================================================================
