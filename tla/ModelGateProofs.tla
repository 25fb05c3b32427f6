--------------------------- MODULE ModelGateProofs ---------------------------
(***************************************************************************)
(* Proofs about ModelGate that hold whatever the times are.  GateInv says  *)
(* that the record is well formed, that a user served ahead of a waiting   *)
(* one stands behind it in the rotation (InTurn), and how old the clocks   *)
(* of the steps under way can be; every operation on the record keeps it,  *)
(* and every step of the gate is a step of SlotPool or a stutter.  What    *)
(* depends on the times is in ModelGateTimingProofs and                    *)
(* ModelGateIdleProofs.                                                    *)
(***************************************************************************)
EXTENDS ModelGate, FiniteSetTheorems, SequenceTheorems, TLAPS

(* Sequences and what remains of them. *)

Rank(K, i) == Cardinality({j \in K : j <= i})

\* Counting the members of a finite set of numbers up to each of them numbers them.
LEMMA Ranks ==
    ASSUME NEW K \in SUBSET Nat, IsFiniteSet(K)
    PROVE  /\ Cardinality(K) \in Nat
           /\ \A i \in K : Rank(K, i) \in 1..Cardinality(K)
           /\ \A i \in K, j \in K : i < j => Rank(K, i) < Rank(K, j)
           /\ \A n \in 1..Cardinality(K) : \E i \in K : Rank(K, i) = n
<1> DEFINE upTo(i) == {j \in K : j <= i}
<1>1. Cardinality(K) \in Nat
  BY FS_CardinalityType
<1>2. ASSUME NEW i \in K
      PROVE  IsFiniteSet(upTo(i)) /\ Rank(K, i) = Cardinality(upTo(i)) /\ Rank(K, i) \in 1..Cardinality(K)
  <2>1. upTo(i) \in SUBSET K /\ i \in upTo(i)
    OBVIOUS
  <2> HIDE DEF upTo
  <2>2. IsFiniteSet(upTo(i)) /\ Cardinality(upTo(i)) <= Cardinality(K)
    BY <2>1, FS_Subset
  <2>3. Cardinality(upTo(i)) \in Nat /\ Cardinality(upTo(i)) # 0
    BY <2>1, <2>2, FS_CardinalityType, FS_EmptySet
  <2>4. Rank(K, i) = Cardinality(upTo(i))
    BY DEF Rank, upTo
  <2> QED
    BY <1>1, <2>2, <2>3, <2>4
<1>3. ASSUME NEW i \in K, NEW j \in K, i < j
      PROVE  Rank(K, i) < Rank(K, j)
  <2>1. upTo(i) \in SUBSET upTo(j) /\ j \in upTo(j) /\ j \notin upTo(i)
    <3>1. /\ j <= j /\ ~(j <= i)
          /\ \A x \in K : x <= i => x <= j
      BY <1>3
    <3>2. \A x : (x \in upTo(i) <=> x \in K /\ x <= i) /\ (x \in upTo(j) <=> x \in K /\ x <= j)
      OBVIOUS
    <3> HIDE DEF upTo
    <3> QED
      BY <3>1, <3>2
  <2> HIDE DEF upTo
  <2>2. IsFiniteSet(upTo(j)) /\ IsFiniteSet(upTo(i))
    BY <1>2
  <2>3. Cardinality(upTo(i)) <= Cardinality(upTo(j)) /\ Cardinality(upTo(i)) # Cardinality(upTo(j))
    BY <2>1, <2>2, FS_Subset
  <2> QED
    BY <1>1, <1>2, <2>3
<1>4. \A n \in 1..Cardinality(K) : \E i \in K : Rank(K, i) = n
  <2> DEFINE T == 1..Cardinality(K)
             f == [i \in K |-> Rank(K, i)]
  <2>1. f \in [K -> T]
    BY <1>2
  <2>2. \A i, j \in K : f[i] = f[j] => i = j
    <3> SUFFICES ASSUME NEW i \in K, NEW j \in K, f[i] = f[j], i # j PROVE FALSE
      OBVIOUS
    <3>1. i < j \/ j < i
      OBVIOUS
    <3>2. Rank(K, i) \in 1..Cardinality(K) /\ Rank(K, j) \in 1..Cardinality(K)
      BY <1>2
    <3> QED
      BY <1>1, <1>3, <3>1, <3>2
  <2>3. f \in Injection(K, T)
    BY <2>1, <2>2 DEF Injection, IsInjective
  <2>4. IsFiniteSet(T) /\ Cardinality(T) = Cardinality(K)
    BY <1>1, FS_Interval
  <2> HIDE DEF f
  <2>5. f \in Surjection(K, T)
    BY <2>3, <2>4, FS_Injection
  <2> QED
    BY <2>5 DEF Surjection, f
<1> QED
  BY <1>1, <1>2, <1>3, <1>4

\* rest takes from s the places given by at: all whose members are not gone, in their order.
Places(s, gone, rest, at) ==
    /\ \A n \in 1..Len(rest) : at[n] \in 1..Len(s) /\ s[at[n]] \notin gone /\ rest[n] = s[at[n]]
    /\ \A n, m \in 1..Len(rest) : n < m => at[n] < at[m]
    /\ \A i \in 1..Len(s) : s[i] \notin gone => \E n \in 1..Len(rest) : at[n] = i

LEMMA WithoutPlaces ==
    ASSUME NEW S, NEW s \in Seq(S), NEW gone
    PROVE  Without(s, gone) \in Seq(S) /\ \E at : Places(s, gone, Without(s, gone), at)
<1> DEFINE kept == {i \in DOMAIN s : s[i] \notin gone}
           nth(n) == CHOOSE i \in kept : Rank(kept, i) = n
           rest == Without(s, gone)
           at == [n \in 1..Cardinality(kept) |-> nth(n)]
<1>1. kept \in SUBSET Nat /\ IsFiniteSet(kept)
  <2>1. kept \in SUBSET (1..Len(s)) /\ Len(s) \in Nat
    OBVIOUS
  <2> HIDE DEF kept
  <2>2. IsFiniteSet(1..Len(s)) /\ 1..Len(s) \in SUBSET Nat
    BY <2>1, FS_Interval
  <2> QED
    BY <2>1, <2>2, FS_Subset
<1>2. rest = [n \in 1..Cardinality(kept) |-> s[nth(n)]]
  BY DEF Without, Rank
<1> HIDE DEF kept
<1>3. /\ Cardinality(kept) \in Nat
      /\ \A i \in kept : Rank(kept, i) \in 1..Cardinality(kept)
      /\ \A i \in kept, j \in kept : i < j => Rank(kept, i) < Rank(kept, j)
      /\ \A n \in 1..Cardinality(kept) : \E i \in kept : Rank(kept, i) = n
  BY <1>1, Ranks
<1>4. \A n \in 1..Cardinality(kept) : nth(n) \in kept /\ Rank(kept, nth(n)) = n
  BY <1>3
<1>5. \A i \in kept : i \in 1..Len(s) /\ s[i] \notin gone /\ s[i] \in S
  BY DEF kept
<1>6. rest \in Seq(S) /\ Len(rest) = Cardinality(kept)
  <2>1. \A n \in 1..Cardinality(kept) : s[nth(n)] \in S
    BY <1>4, <1>5
  <2>2. rest \in [1..Cardinality(kept) -> S]
    BY <1>2, <2>1
  <2> QED
    BY <1>3, <2>2
<1>7. \A n \in 1..Len(rest) : at[n] = nth(n) /\ at[n] \in 1..Len(s) /\ s[at[n]] \notin gone /\ rest[n] = s[at[n]]
  BY <1>2, <1>4, <1>5, <1>6
<1>8. \A n, m \in 1..Len(rest) : n < m => at[n] < at[m]
  <2> SUFFICES ASSUME NEW n \in 1..Len(rest), NEW m \in 1..Len(rest), n < m PROVE nth(n) < nth(m)
    BY <1>7
  <2>1. nth(n) \in kept /\ nth(m) \in kept /\ Rank(kept, nth(n)) = n /\ Rank(kept, nth(m)) = m
    BY <1>4, <1>6
  <2> HIDE DEF nth
  <2>2. nth(n) \in Nat /\ nth(m) \in Nat
    BY <1>1, <2>1
  <2>3. ~(nth(m) < nth(n)) /\ nth(m) # nth(n)
    BY <1>3, <2>1
  <2> QED
    BY <2>2, <2>3
<1>9. \A i \in 1..Len(s) : s[i] \notin gone => \E n \in 1..Len(rest) : at[n] = i
  <2> SUFFICES ASSUME NEW i \in kept PROVE \E n \in 1..Len(rest) : nth(n) = i
    <3> HIDE DEF at, nth, rest
    <3> QED
      BY <1>7 DEF kept
  <2> DEFINE n == Rank(kept, i)
  <2>1. n \in 1..Len(rest)
    BY <1>3, <1>6
  <2>2. nth(n) \in kept /\ Rank(kept, nth(n)) = n
    BY <1>4, <1>6, <2>1
  <2>3. nth(n) = i
    <3> HIDE DEF nth
    <3>1. nth(n) \in Nat /\ i \in Nat
      BY <1>1, <2>2
    <3>2. n \in Nat /\ ~(nth(n) < i) /\ ~(i < nth(n))
      BY <1>3, <1>6, <2>1, <2>2
    <3> QED
      BY <3>1, <3>2
  <2> QED
    BY <2>1, <2>3
<1> HIDE DEF at, rest
<1>10. Places(s, gone, rest, at)
  BY <1>7, <1>8, <1>9 DEF Places
<1> QED
  BY <1>6, <1>10 DEF rest

\* a stands before b in the sequence.
Before(s, a, b) == \E i, j \in DOMAIN s : i < j /\ s[i] = a /\ s[j] = b

\* What is left of a sequence, and in which order.
LEMMA WithoutKeeps ==
    ASSUME NEW S, NEW s \in Seq(S), NEW gone
    PROVE  /\ Without(s, gone) \in Seq(S)
           /\ Range(Without(s, gone)) = Range(s) \ gone
           /\ IsInjective(s) => IsInjective(Without(s, gone))
           /\ \A a, b : a \notin gone /\ b \notin gone /\ Before(s, a, b) => Before(Without(s, gone), a, b)
           /\ \A a, b : Before(Without(s, gone), a, b) => Before(s, a, b)
<1> DEFINE rest == Without(s, gone)
<1>0. rest \in Seq(S) /\ DOMAIN rest = 1..Len(rest) /\ DOMAIN s = 1..Len(s) /\ Len(rest) \in Nat /\ Len(s) \in Nat
  BY WithoutPlaces
<1>1. PICK at : Places(s, gone, rest, at)
  BY WithoutPlaces
<1> HIDE DEF rest
<1>at. /\ \A n \in 1..Len(rest) : at[n] \in 1..Len(s) /\ s[at[n]] \notin gone /\ rest[n] = s[at[n]]
       /\ \A n, m \in 1..Len(rest) : n < m => at[n] < at[m]
  BY <1>1 DEF Places
<1>all. \A i \in 1..Len(s) : s[i] \notin gone => \E n \in 1..Len(rest) : at[n] = i
  BY <1>1 DEF Places
<1>2. Range(rest) = Range(s) \ gone
  <2>1. \A x \in Range(rest) : x \in Range(s) \ gone
    BY <1>0, <1>at DEF Range
  <2>2. \A x \in Range(s) \ gone : x \in Range(rest)
    <3> TAKE x \in Range(s) \ gone
    <3>1. PICK i \in 1..Len(s) : s[i] = x
      BY <1>0 DEF Range
    <3>2. PICK n \in 1..Len(rest) : at[n] = i
      BY <1>all, <3>1
    <3> QED
      BY <1>0, <1>at, <3>1, <3>2 DEF Range
  <2> QED
    BY <2>1, <2>2
<1>3. ASSUME NEW n \in 1..Len(rest), NEW m \in 1..Len(rest), at[n] < at[m]
      PROVE  n < m
  <2>1. n \in Nat /\ m \in Nat /\ at[n] \in Nat /\ at[m] \in Nat
    BY <1>0, <1>at
  <2>2. n # m /\ ~(m < n)
    BY <1>at, <1>3, <2>1
  <2> QED
    BY <2>1, <2>2
<1>4. IsInjective(s) => IsInjective(rest)
  <2> SUFFICES ASSUME IsInjective(s), NEW n \in 1..Len(rest), NEW m \in 1..Len(rest), rest[n] = rest[m], n # m
               PROVE  FALSE
    BY <1>0 DEF IsInjective
  <2>1. at[n] = at[m]
    BY <1>0, <1>at DEF IsInjective
  <2>2. n < m \/ m < n
    BY <1>0
  <2>3. at[n] \in Nat
    BY <1>0, <1>at
  <2> QED
    BY <1>at, <2>1, <2>2, <2>3
<1>5. ASSUME NEW a, NEW b, a \notin gone, b \notin gone, Before(s, a, b)
      PROVE  Before(rest, a, b)
  <2>1. PICK i \in 1..Len(s), j \in 1..Len(s) : i < j /\ s[i] = a /\ s[j] = b
    BY <1>0, <1>5 DEF Before
  <2>2. PICK n \in 1..Len(rest), m \in 1..Len(rest) : at[n] = i /\ at[m] = j
    BY <1>all, <1>5, <2>1
  <2>3. n < m /\ rest[n] = a /\ rest[m] = b
    BY <1>at, <1>3, <2>1, <2>2
  <2> QED
    BY <1>0, <2>3 DEF Before
<1>6. ASSUME NEW a, NEW b, Before(rest, a, b)
      PROVE  Before(s, a, b)
  <2>1. PICK n \in 1..Len(rest), m \in 1..Len(rest) : n < m /\ rest[n] = a /\ rest[m] = b
    BY <1>0, <1>6 DEF Before
  <2> QED
    BY <1>0, <1>at, <2>1 DEF Before
<1> QED
  BY <1>0, <1>2, <1>4, <1>5, <1>6 DEF rest

LEMMA NothingInside ==
    ASSUME NEW S, NEW s \in Seq(S)
    PROVE  s = <<>> <=> Range(s) = {}
<1>1. DOMAIN s = 1..Len(s) /\ Len(s) \in Nat /\ (s = <<>> <=> Len(s) = 0)
  OBVIOUS
<1>2. s = <<>> => DOMAIN s = {}
  BY <1>1
<1>3. s # <<>> => 1 \in DOMAIN s
  BY <1>1
<1> QED
  BY <1>2, <1>3 DEF Range

\* A new last member.
LEMMA AppendKeeps ==
    ASSUME NEW S, NEW s \in Seq(S), NEW e \in S, e \notin Range(s)
    PROVE  /\ Append(s, e) \in Seq(S) /\ Append(s, e) # <<>>
           /\ Range(Append(s, e)) = Range(s) \cup {e}
           /\ IsInjective(s) => IsInjective(Append(s, e))
           /\ \A a, b : Before(s, a, b) => Before(Append(s, e), a, b)
           /\ \A a \in Range(s) : Before(Append(s, e), a, e)
<1> DEFINE long == Append(s, e)
<1>1. /\ DOMAIN s = 1..Len(s) /\ Len(s) \in Nat
      /\ long \in Seq(S) /\ long # <<>> /\ DOMAIN long = 1..(Len(s) + 1)
      /\ \A i \in 1..Len(s) : long[i] = s[i]
      /\ long[Len(s) + 1] = e
  OBVIOUS
<1> HIDE DEF long
<1>2. \A i \in 1..(Len(s) + 1) : i \in 1..Len(s) \/ i = Len(s) + 1
  BY <1>1
<1>3. Range(long) = Range(s) \cup {e}
  <2>1. \A x \in Range(long) : x \in Range(s) \cup {e}
    BY <1>1, <1>2 DEF Range
  <2>2. \A x \in Range(s) : x \in Range(long)
    <3> TAKE x \in Range(s)
    <3>1. PICK i \in 1..Len(s) : s[i] = x
      BY <1>1 DEF Range
    <3>2. i \in DOMAIN long /\ long[i] = x
      BY <1>1, <3>1
    <3> QED
      BY <3>2 DEF Range
  <2>3. e \in Range(long)
    <3>1. Len(s) + 1 \in DOMAIN long
      BY <1>1
    <3> QED
      BY <1>1, <3>1 DEF Range
  <2> QED
    BY <2>1, <2>2, <2>3
<1>4. IsInjective(s) => IsInjective(long)
  <2> SUFFICES ASSUME IsInjective(s), NEW i \in 1..(Len(s) + 1), NEW j \in 1..(Len(s) + 1), long[i] = long[j]
               PROVE  i = j
    BY <1>1 DEF IsInjective
  <2>1. CASE i \in 1..Len(s) /\ j \in 1..Len(s)
    BY <1>1, <2>1 DEF IsInjective
  <2>2. CASE i = Len(s) + 1 /\ j \in 1..Len(s)
    BY <1>1, <2>2 DEF Range
  <2>3. CASE j = Len(s) + 1 /\ i \in 1..Len(s)
    BY <1>1, <2>3 DEF Range
  <2> QED
    BY <1>2, <2>1, <2>2, <2>3
<1>5. ASSUME NEW a, NEW b, Before(s, a, b)
      PROVE  Before(long, a, b)
  <2>1. PICK i \in 1..Len(s), j \in 1..Len(s) : i < j /\ s[i] = a /\ s[j] = b
    BY <1>1, <1>5 DEF Before
  <2>2. i \in DOMAIN long /\ j \in DOMAIN long /\ long[i] = a /\ long[j] = b
    BY <1>1, <2>1
  <2> QED
    BY <2>1, <2>2 DEF Before
<1>6. ASSUME NEW a \in Range(s)
      PROVE  Before(long, a, e)
  <2>1. PICK i \in 1..Len(s) : s[i] = a
    BY <1>1 DEF Range
  <2>2. i \in DOMAIN long /\ Len(s) + 1 \in DOMAIN long /\ i < Len(s) + 1
    BY <1>1
  <2> QED
    BY <1>1, <2>1, <2>2 DEF Before
<1> QED
  BY <1>1, <1>3, <1>4, <1>5, <1>6 DEF long

\* The first member goes.
LEMMA TailKeeps ==
    ASSUME NEW S, NEW s \in Seq(S), s # <<>>, IsInjective(s)
    PROVE  /\ Tail(s) \in Seq(S)
           /\ Head(s) \in Range(s) /\ Range(Tail(s)) = Range(s) \ {Head(s)}
           /\ IsInjective(Tail(s))
           /\ \A a, b : a # Head(s) /\ Before(s, a, b) => Before(Tail(s), a, b)
           /\ \A a : ~Before(s, a, Head(s))
<1> DEFINE rest == Tail(s)
           top == Head(s)
<1>1. /\ DOMAIN s = 1..Len(s) /\ Len(s) \in Nat \ {0}
      /\ rest \in Seq(S) /\ DOMAIN rest = 1..(Len(s) - 1)
      /\ \A i \in 1..(Len(s) - 1) : rest[i] = s[i + 1]
      /\ top = s[1]
  OBVIOUS
<1> HIDE DEF rest, top
<1>2. \A i \in 1..Len(s) : i = 1 \/ (i - 1 \in 1..(Len(s) - 1) /\ rest[i - 1] = s[i])
  <2> TAKE i \in 1..Len(s)
  <2>1. i # 1 => i - 1 \in 1..(Len(s) - 1) /\ (i - 1) + 1 = i
    BY <1>1
  <2> QED
    BY <1>1, <2>1
<1>3. \A i \in 1..(Len(s) - 1) : i + 1 \in 1..Len(s) /\ i + 1 # 1
  BY <1>1
<1>4. top \in Range(s)
  BY <1>1 DEF Range
<1>5. Range(rest) = Range(s) \ {top}
  <2>1. \A x \in Range(rest) : x \in Range(s) /\ x # top
    <3> TAKE x \in Range(rest)
    <3>1. PICK i \in 1..(Len(s) - 1) : rest[i] = x
      BY <1>1 DEF Range
    <3>2. i + 1 \in DOMAIN s /\ 1 \in DOMAIN s /\ s[i + 1] = x /\ i + 1 # 1
      BY <1>1, <1>3, <3>1
    <3> QED
      BY <1>1, <3>2 DEF Range, IsInjective
  <2>2. \A x \in Range(s) : x # top => x \in Range(rest)
    <3> TAKE x \in Range(s)
    <3>1. PICK i \in 1..Len(s) : s[i] = x
      BY <1>1 DEF Range
    <3> QED
      BY <1>1, <1>2, <3>1 DEF Range
  <2> QED
    BY <2>1, <2>2
<1>6. IsInjective(rest)
  <2> SUFFICES ASSUME NEW i \in 1..(Len(s) - 1), NEW j \in 1..(Len(s) - 1), rest[i] = rest[j]
               PROVE  i = j
    BY <1>1 DEF IsInjective
  <2>1. i + 1 = j + 1
    BY <1>1, <1>3 DEF IsInjective
  <2> QED
    BY <2>1
<1>7. ASSUME NEW a, NEW b, a # top, Before(s, a, b)
      PROVE  Before(rest, a, b)
  <2>1. PICK i \in 1..Len(s), j \in 1..Len(s) : i < j /\ s[i] = a /\ s[j] = b
    BY <1>1, <1>7 DEF Before
  <2>2. i # 1 /\ j # 1
    BY <1>1, <1>7, <2>1
  <2>3. i - 1 \in DOMAIN rest /\ j - 1 \in DOMAIN rest /\ i - 1 < j - 1 /\ rest[i - 1] = a /\ rest[j - 1] = b
    BY <1>1, <1>2, <2>1, <2>2
  <2> QED
    BY <2>3 DEF Before
<1>8. ASSUME NEW a, Before(s, a, top)
      PROVE  FALSE
  <2>1. PICK i \in 1..Len(s), j \in 1..Len(s) : i < j /\ s[j] = top
    BY <1>1, <1>8 DEF Before
  <2>2. j = 1
    BY <1>1, <2>1 DEF IsInjective
  <2> QED
    BY <1>1, <2>1, <2>2
<1> QED
  BY <1>1, <1>4, <1>5, <1>6, <1>7, <1>8 DEF rest, top
-----------------------------------------------------------------------------
(* The record. *)

WellFormed(g) ==
    /\ g = [inflight |-> g.inflight, order |-> g.order, queues |-> g.queues, meta |-> g.meta]
    /\ g.inflight = [t \in Held(g) |-> g.inflight[t]] /\ g.meta = [t \in DOMAIN g.meta |-> g.meta[t]]
    /\ Held(g) \subseteq DOMAIN g.meta /\ DOMAIN g.meta \subseteq Tickets
    /\ g.queues \in [Users -> Seq(Tickets)] /\ g.order \in Seq(Users)
    /\ \A u \in Users : /\ IsInjective(g.queues[u])
                        /\ Range(g.queues[u]) = {t \in Queued(g) : UserOf[t] = u}
    /\ IsInjective(g.order) /\ Range(g.order) = Waiters(g)

Leased(g) == \A t \in Held(g) : g.inflight[t] \in (-LockWait)..Lease

\* h is g without some tickets: those that stay hold or wait as before, in the same turn.
Shrunk(g, h) ==
    /\ Held(h) \subseteq Held(g) /\ Queued(h) \subseteq Queued(g)
    /\ \A u, v \in Waiters(h) : Before(g.order, u, v) => Before(h.order, u, v)

LEMMA WhoWaits ==
    ASSUME NEW g, WellFormed(g)
    PROVE  /\ Waiters(g) = {UserOf[t] : t \in Queued(g)}
           /\ \A t \in Queued(g) : t \in Tickets /\ UserOf[t] \in Users
           /\ Known(g) = DOMAIN g.meta
<1>1. /\ \A u \in Users : g.queues[u] \in Seq(Tickets) /\ Range(g.queues[u]) = {t \in Queued(g) : UserOf[t] = u}
      /\ Held(g) \subseteq DOMAIN g.meta /\ DOMAIN g.meta \subseteq Tickets
  BY DEF WellFormed
<1>2. \A u \in Users : g.queues[u] # <<>> <=> \E t \in Queued(g) : UserOf[t] = u
  <2> TAKE u \in Users
  <2>1. g.queues[u] = <<>> <=> Range(g.queues[u]) = {}
    BY <1>1, NothingInside
  <2> QED
    BY <1>1, <2>1
<1>3. \A t \in Queued(g) : t \in Tickets /\ UserOf[t] \in Users
  BY <1>1, GateAssumption DEF Queued
<1>4. Waiters(g) = {UserOf[t] : t \in Queued(g)}
  BY <1>2, <1>3 DEF Waiters
<1> QED
  BY <1>1, <1>3, <1>4 DEF Known

\* Tickets go from the record, their queues and the rotation.
Dropping(g, gone, q) ==
    [inflight |-> Forget(g.inflight, gone), meta |-> Forget(g.meta, gone),
     queues |-> q, order |-> OnlyWaiters(q, g.order)]

LEMMA DroppingShrinks ==
    ASSUME NEW g, WellFormed(g), NEW gone, NEW q \in [Users -> Seq(Tickets)],
           \A u \in Users : IsInjective(q[u]) /\ Range(q[u]) = Range(g.queues[u]) \ gone
    PROVE  /\ WellFormed(Dropping(g, gone, q)) /\ Shrunk(g, Dropping(g, gone, q))
           /\ Held(Dropping(g, gone, q)) = Held(g) \ gone
           /\ Queued(Dropping(g, gone, q)) = Queued(g) \ gone
           /\ DOMAIN Dropping(g, gone, q).meta = DOMAIN g.meta \ gone
           /\ \A t \in Held(Dropping(g, gone, q)) : Dropping(g, gone, q).inflight[t] = g.inflight[t]
           /\ \A t \in DOMAIN Dropping(g, gone, q).meta : Dropping(g, gone, q).meta[t] = g.meta[t]
<1> DEFINE quiet == {u \in Users : q[u] = <<>>}
           h == Dropping(g, gone, q)
<1>1. /\ h.inflight = Forget(g.inflight, gone) /\ h.meta = Forget(g.meta, gone) /\ h.queues = q
      /\ h.order = Without(g.order, quiet)
      /\ h = [inflight |-> h.inflight, order |-> h.order, queues |-> h.queues, meta |-> h.meta]
  BY DEF OnlyWaiters, Dropping
<1> HIDE DEF h
<1>2. /\ Held(h) = Held(g) \ gone /\ DOMAIN h.meta = DOMAIN g.meta \ gone
      /\ \A t \in Held(h) : h.inflight[t] = g.inflight[t]
      /\ \A t \in DOMAIN h.meta : h.meta[t] = g.meta[t]
      /\ h.inflight = [t \in Held(h) |-> h.inflight[t]] /\ h.meta = [t \in DOMAIN h.meta |-> h.meta[t]]
  BY <1>1 DEF Forget, Restrict, Held
<1>3. Queued(h) = Queued(g) \ gone
  BY <1>2 DEF Queued
<1>4. Held(h) \subseteq DOMAIN h.meta /\ DOMAIN h.meta \subseteq Tickets
  BY <1>2 DEF WellFormed
<1>5. \A u \in Users : /\ IsInjective(h.queues[u])
                       /\ Range(h.queues[u]) = {t \in Queued(h) : UserOf[t] = u}
  BY <1>1, <1>3 DEF WellFormed
<1>6. /\ g.order \in Seq(Users) /\ IsInjective(g.order) /\ Range(g.order) = Waiters(g)
  BY DEF WellFormed
<1>7. /\ h.order \in Seq(Users) /\ IsInjective(h.order) /\ Range(h.order) = Waiters(g) \ quiet
      /\ \A a, b : a \notin quiet /\ b \notin quiet /\ Before(g.order, a, b) => Before(h.order, a, b)
  <2> HIDE DEF quiet
  <2> QED
    BY <1>1, <1>6, WithoutKeeps
<1>8. Waiters(h) = Waiters(g) \ quiet
  <2>1. \A u \in Users : q[u] # <<>> => g.queues[u] # <<>>
    <3> TAKE u \in Users
    <3>1. q[u] \in Seq(Tickets) /\ g.queues[u] \in Seq(Tickets)
      BY DEF WellFormed
    <3>2. (q[u] = <<>> <=> Range(q[u]) = {}) /\ (g.queues[u] = <<>> <=> Range(g.queues[u]) = {})
      BY <3>1, NothingInside
    <3> QED
      BY <3>2
  <2> QED
    BY <1>1, <2>1 DEF Waiters
<1>9. WellFormed(h)
  BY <1>1, <1>2, <1>4, <1>5, <1>7, <1>8 DEF WellFormed
<1>10. Shrunk(g, h)
  BY <1>2, <1>3, <1>7, <1>8 DEF Shrunk
<1> QED
  BY <1>2, <1>3, <1>9, <1>10 DEF h

LEMMA PurgedShrinks ==
    ASSUME NEW g, WellFormed(g), NEW d
    PROVE  /\ WellFormed(Purged(g, d)) /\ Shrunk(g, Purged(g, d))
           /\ Held(Purged(g, d)) = {t \in Held(g) : ~(g.inflight[t] + d <= 0)}
           /\ Queued(Purged(g, d)) = {t \in Queued(g) : ~(g.meta[t].beat - d > Stale)}
           /\ \A t \in Held(Purged(g, d)) : Purged(g, d).inflight[t] = g.inflight[t]
           /\ \A t \in DOMAIN Purged(g, d).meta : Purged(g, d).meta[t] = g.meta[t]
<1> DEFINE expired == {t \in Held(g) : g.inflight[t] + d <= 0}
           silent == {t \in Queued(g) : g.meta[t].beat - d > Stale}
           gone == expired \cup silent
           q == [u \in Users |-> Without(g.queues[u], silent)]
           h == Purged(g, d)
<1>1. h = [inflight |-> Forget(g.inflight, expired), meta |-> Forget(g.meta, gone),
           queues |-> q, order |-> OnlyWaiters(q, g.order)]
  BY DEF Purged
<1>2. expired \subseteq Held(g) /\ silent \subseteq Queued(g) /\ Held(g) \cap Queued(g) = {}
  BY DEF Queued
<1>3. Forget(g.inflight, expired) = Forget(g.inflight, gone)
  <2> HIDE DEF expired, silent
  <2> QED
    BY <1>2 DEF Forget, Held
<1>4. ASSUME NEW u \in Users
      PROVE  q[u] \in Seq(Tickets) /\ IsInjective(q[u]) /\ Range(q[u]) = Range(g.queues[u]) \ gone
  <2>1. g.queues[u] \in Seq(Tickets) /\ IsInjective(g.queues[u]) /\ Range(g.queues[u]) \subseteq Queued(g)
    BY DEF WellFormed
  <2>2. q[u] = Without(g.queues[u], silent)
    OBVIOUS
  <2> HIDE DEF expired, silent, q
  <2>3. q[u] \in Seq(Tickets) /\ IsInjective(q[u]) /\ Range(q[u]) = Range(g.queues[u]) \ silent
    BY <2>1, <2>2, WithoutKeeps
  <2> QED
    BY <1>2, <2>1, <2>3
<1>5. q \in [Users -> Seq(Tickets)]
  BY <1>4
<1> HIDE DEF q, h, gone
<1>6. /\ WellFormed(h) /\ Shrunk(g, h)
      /\ Held(h) = Held(g) \ gone /\ Queued(h) = Queued(g) \ gone
      /\ \A t \in Held(h) : h.inflight[t] = g.inflight[t]
      /\ \A t \in DOMAIN h.meta : h.meta[t] = g.meta[t]
  <2> HIDE DEF expired, silent
  <2>1. h = Dropping(g, gone, q)
    BY <1>1, <1>3 DEF Dropping
  <2> QED
    BY <1>4, <1>5, <2>1, DroppingShrinks
<1>7. Held(g) \ gone = {t \in Held(g) : ~(g.inflight[t] + d <= 0)}
  BY <1>2 DEF gone
<1>8. Queued(g) \ gone = {t \in Queued(g) : ~(g.meta[t].beat - d > Stale)}
  BY <1>2 DEF gone
<1> QED
  BY <1>6, <1>7, <1>8 DEF h

LEMMA ShrunkTwice ==
    ASSUME NEW f, NEW g, NEW h, WellFormed(g), WellFormed(h), Shrunk(f, g), Shrunk(g, h)
    PROVE  Shrunk(f, h)
<1>1. Waiters(h) \subseteq Waiters(g)
  BY WhoWaits DEF Shrunk
<1> QED
  BY <1>1 DEF Shrunk

LEMMA ReleasedShrinks ==
    ASSUME NEW g, WellFormed(g), NEW t \in Tickets, NEW d
    PROVE  /\ WellFormed(Released(g, t, d)) /\ Shrunk(g, Released(g, t, d))
           /\ t \notin Known(Released(g, t, d))
           /\ Held(Released(g, t, d)) = Held(Purged(g, d)) \ {t}
           /\ Queued(Released(g, t, d)) = Queued(Purged(g, d)) \ {t}
           /\ \A s \in Held(Released(g, t, d)) : Released(g, t, d).inflight[s] = g.inflight[s]
           /\ \A s \in DOMAIN Released(g, t, d).meta : Released(g, t, d).meta[s] = g.meta[s]
<1> DEFINE h == Purged(g, d)
           k == Released(g, t, d)
           u == UserOf[t]
           q == [h.queues EXCEPT ![u] = Without(@, {t})]
<1>1. /\ WellFormed(h) /\ Shrunk(g, h)
      /\ \A s \in Held(h) : h.inflight[s] = g.inflight[s]
      /\ \A s \in DOMAIN h.meta : h.meta[s] = g.meta[s]
  BY PurgedShrinks
<1>2. k = [inflight |-> Forget(h.inflight, {t}), meta |-> Forget(h.meta, {t}),
           queues |-> q, order |-> OnlyWaiters(q, h.order)]
  BY DEF Released
<1> HIDE DEF h, k
<1>3. u \in Users /\ h.queues \in [Users -> Seq(Tickets)]
  BY <1>1, GateAssumption DEF WellFormed
<1>4. ASSUME NEW v \in Users
      PROVE  q[v] \in Seq(Tickets) /\ IsInjective(q[v]) /\ Range(q[v]) = Range(h.queues[v]) \ {t}
  <2>1. /\ h.queues[v] \in Seq(Tickets) /\ IsInjective(h.queues[v])
        /\ Range(h.queues[v]) = {s \in Queued(h) : UserOf[s] = v}
    BY <1>1 DEF WellFormed
  <2>2. CASE v = u
    <3>1. q[v] = Without(h.queues[v], {t})
      BY <1>3, <2>2
    <3> QED
      BY <2>1, <3>1, WithoutKeeps
  <2>3. CASE v # u
    <3>1. q[v] = h.queues[v]
      BY <1>3, <2>3
    <3> QED
      BY <2>1, <2>3, <3>1
  <2> QED
    BY <2>2, <2>3
<1>5. q \in [Users -> Seq(Tickets)]
  <2>1. q = [v \in Users |-> q[v]]
    BY <1>3
  <2> QED
    BY <1>4, <2>1
<1> HIDE DEF q
<1>6. /\ WellFormed(k) /\ Shrunk(h, k)
      /\ Held(k) = Held(h) \ {t} /\ Queued(k) = Queued(h) \ {t}
      /\ \A s \in Held(k) : k.inflight[s] = h.inflight[s]
      /\ \A s \in DOMAIN k.meta : k.meta[s] = h.meta[s]
  <2>1. k = Dropping(h, {t}, q)
    BY <1>2 DEF Dropping
  <2> QED
    BY <1>1, <1>4, <1>5, <2>1, DroppingShrinks
<1>7. Shrunk(g, k)
  BY <1>1, <1>6, ShrunkTwice
<1>8. t \notin Known(k) /\ Held(k) \subseteq Held(h) /\ DOMAIN k.meta \subseteq DOMAIN h.meta
  <2>1. DOMAIN k.meta = DOMAIN h.meta \ {t}
    BY <1>2 DEF Forget, Restrict
  <2> QED
    BY <1>6, <2>1 DEF Known
<1> QED
  BY <1>1, <1>6, <1>7, <1>8 DEF h, k

\* Only times change: who holds and who waits in which turn stays.
LEMMA TimesShrink ==
    ASSUME NEW g, WellFormed(g), NEW h,
           h = [inflight |-> h.inflight, order |-> g.order, queues |-> g.queues, meta |-> h.meta],
           h.inflight = [t \in Held(g) |-> h.inflight[t]], h.meta = [t \in DOMAIN g.meta |-> h.meta[t]]
    PROVE  WellFormed(h) /\ Shrunk(g, h) /\ Held(h) = Held(g) /\ Queued(h) = Queued(g)
<1>1. DOMAIN h.inflight = DOMAIN g.inflight /\ DOMAIN h.meta = DOMAIN g.meta /\ h.queues = g.queues /\ h.order = g.order
  BY DEF Held
<1>2. Held(h) = Held(g) /\ Queued(h) = Queued(g) /\ Waiters(h) = Waiters(g)
  BY <1>1 DEF Held, Queued, Waiters
<1>3. WellFormed(h)
  BY <1>1, <1>2 DEF WellFormed
<1> QED
  BY <1>1, <1>2, <1>3 DEF Shrunk

LEMMA PulsedShrinks ==
    ASSUME NEW g, WellFormed(g), NEW t, NEW d
    PROVE  /\ WellFormed(Pulsed(g, t, d)) /\ Shrunk(g, Pulsed(g, t, d))
           /\ Held(Pulsed(g, t, d)) = Held(Purged(g, d)) /\ Queued(Pulsed(g, t, d)) = Queued(Purged(g, d))
           /\ \A s \in Held(Pulsed(g, t, d)) :
                 Pulsed(g, t, d).inflight[s] = IF s = t THEN Lease - d ELSE g.inflight[s]
           /\ \A s \in DOMAIN Pulsed(g, t, d).meta : Pulsed(g, t, d).meta[s] = g.meta[s]
<1> DEFINE h == Purged(g, d)
           k == Pulsed(g, t, d)
<1>1. /\ WellFormed(h) /\ Shrunk(g, h)
      /\ \A s \in Held(h) : h.inflight[s] = g.inflight[s]
      /\ \A s \in DOMAIN h.meta : h.meta[s] = g.meta[s]
  BY PurgedShrinks
<1>2. k = IF t \in Held(h) THEN [h EXCEPT !.inflight[t] = Lease - d] ELSE h
  BY DEF Pulsed
<1> HIDE DEF h, k
<1>3. CASE t \notin Held(h)
  <2>1. k = h
    BY <1>2, <1>3
  <2> QED
    BY <1>1, <1>3, <2>1 DEF h, k
<1>4. CASE t \in Held(h)
  <2>1. h = [inflight |-> h.inflight, order |-> h.order, queues |-> h.queues, meta |-> h.meta]
    BY <1>1 DEF WellFormed
  <2>2. k = [inflight |-> [h.inflight EXCEPT ![t] = Lease - d], order |-> h.order, queues |-> h.queues, meta |-> h.meta]
    BY <1>2, <1>4, <2>1
  <2>3. /\ k.inflight = [h.inflight EXCEPT ![t] = Lease - d] /\ k.meta = h.meta
        /\ k = [inflight |-> k.inflight, order |-> h.order, queues |-> h.queues, meta |-> k.meta]
    BY <2>2
  <2>4. h.inflight = [s \in Held(h) |-> h.inflight[s]] /\ h.meta = [s \in DOMAIN h.meta |-> h.meta[s]]
    BY <1>1 DEF WellFormed
  <2>5. k.inflight = [s \in Held(h) |-> k.inflight[s]] /\ k.meta = [s \in DOMAIN h.meta |-> k.meta[s]]
    BY <2>3, <2>4
  <2>6. WellFormed(k) /\ Shrunk(h, k) /\ Held(k) = Held(h) /\ Queued(k) = Queued(h)
    BY <1>1, <2>3, <2>5, TimesShrink
  <2>7. \A s \in Held(h) : k.inflight[s] = IF s = t THEN Lease - d ELSE h.inflight[s]
    BY <1>4, <2>3, <2>4
  <2>8. Shrunk(g, k)
    BY <1>1, <2>6, ShrunkTwice
  <2> QED
    BY <1>1, <2>3, <2>6, <2>7, <2>8 DEF h, k
<1> QED
  BY <1>3, <1>4

LEMMA SeenShrinks ==
    ASSUME NEW g, WellFormed(g), NEW t, NEW d
    PROVE  /\ WellFormed(Seen(g, t, d)) /\ Shrunk(g, Seen(g, t, d))
           /\ Held(Seen(g, t, d)) = Held(g) /\ Queued(Seen(g, t, d)) = Queued(g)
           /\ Seen(g, t, d).inflight = g.inflight
           /\ \A s \in DOMAIN Seen(g, t, d).meta : s # t => Seen(g, t, d).meta[s] = g.meta[s]
<1> DEFINE k == Seen(g, t, d)
<1>0. k = IF t \in Queued(g) THEN [g EXCEPT !.meta[t].beat = d] ELSE g
  BY DEF Seen
<1> HIDE DEF k
<1>1. CASE t \notin Queued(g)
  <2>1. k = g
    BY <1>0, <1>1
  <2>2. Shrunk(g, g)
    BY DEF Shrunk
  <2> QED
    BY <1>1, <2>1, <2>2 DEF k
<1>2. CASE t \in Queued(g)
  <2>0. t \in DOMAIN g.meta
    BY <1>2 DEF Queued
  <2>1. g = [inflight |-> g.inflight, order |-> g.order, queues |-> g.queues, meta |-> g.meta]
    BY DEF WellFormed
  <2>2. k = [inflight |-> g.inflight, order |-> g.order, queues |-> g.queues,
             meta |-> [g.meta EXCEPT ![t] = [@ EXCEPT !.beat = d]]]
    BY <1>0, <1>2, <2>1
  <2>3. /\ k.inflight = g.inflight /\ k.meta = [g.meta EXCEPT ![t] = [@ EXCEPT !.beat = d]]
        /\ k = [inflight |-> k.inflight, order |-> g.order, queues |-> g.queues, meta |-> k.meta]
    BY <2>2
  <2>4. g.inflight = [s \in Held(g) |-> g.inflight[s]] /\ g.meta = [s \in DOMAIN g.meta |-> g.meta[s]]
    BY DEF WellFormed
  <2>5. k.inflight = [s \in Held(g) |-> k.inflight[s]] /\ k.meta = [s \in DOMAIN g.meta |-> k.meta[s]]
    BY <2>3, <2>4
  <2>6. WellFormed(k) /\ Shrunk(g, k) /\ Held(k) = Held(g) /\ Queued(k) = Queued(g)
    BY <2>3, <2>5, TimesShrink
  <2>7. \A s \in DOMAIN k.meta : s # t => k.meta[s] = g.meta[s]
    BY <2>0, <2>3, <2>4
  <2> QED
    BY <2>3, <2>6, <2>7 DEF k
<1> QED
  BY <1>1, <1>2

LEMMA EnteredHolds ==
    ASSUME NEW g, WellFormed(g), NEW t \in Tickets, t \notin Known(g), Waiters(g) = {}, NEW d
    PROVE  /\ WellFormed(Entered(g, t, d))
           /\ Held(Entered(g, t, d)) = Held(g) \cup {t}
           /\ Queued(Entered(g, t, d)) = {} /\ Queued(g) = {}
           /\ Entered(g, t, d).inflight[t] = Lease - d
           /\ \A s \in Held(g) : Entered(g, t, d).inflight[s] = g.inflight[s]
           /\ \A s \in DOMAIN g.meta : Entered(g, t, d).meta[s] = g.meta[s]
<1> DEFINE k == Entered(g, t, d)
<1>1. g = [inflight |-> g.inflight, order |-> g.order, queues |-> g.queues, meta |-> g.meta]
  BY DEF WellFormed
<1>2. k = [inflight |-> With(g.inflight, t, Lease - d), order |-> g.order, queues |-> g.queues,
           meta |-> With(g.meta, t, Holder)]
  BY DEF Entered
<1> HIDE DEF k
<1>3. /\ k.inflight = With(g.inflight, t, Lease - d) /\ k.meta = With(g.meta, t, Holder)
      /\ k.order = g.order /\ k.queues = g.queues
      /\ k = [inflight |-> k.inflight, order |-> k.order, queues |-> k.queues, meta |-> k.meta]
  BY <1>2
<1>4. t \notin Held(g) /\ t \notin DOMAIN g.meta /\ Held(g) \subseteq DOMAIN g.meta /\ DOMAIN g.meta \subseteq Tickets
  BY DEF Known, WellFormed
<1>5. Queued(g) = {}
  BY WhoWaits
<1>6. /\ Held(k) = Held(g) \cup {t} /\ DOMAIN k.meta = DOMAIN g.meta \cup {t}
      /\ k.inflight = [s \in Held(k) |-> k.inflight[s]] /\ k.meta = [s \in DOMAIN k.meta |-> k.meta[s]]
      /\ k.inflight[t] = Lease - d
      /\ \A s \in Held(g) : k.inflight[s] = g.inflight[s]
      /\ \A s \in DOMAIN g.meta : k.meta[s] = g.meta[s]
  BY <1>3, <1>4 DEF With, Held
<1>7. Queued(k) = {} /\ Waiters(k) = {}
  BY <1>3, <1>4, <1>5, <1>6 DEF Queued, Waiters
<1>8. WellFormed(k)
  BY <1>3, <1>4, <1>5, <1>6, <1>7 DEF WellFormed
<1> QED
  BY <1>5, <1>6, <1>7, <1>8 DEF k

LEMMA EnqueuedWaits ==
    ASSUME NEW g, WellFormed(g), NEW t \in Tickets, t \notin Known(g), NEW d
    PROVE  /\ WellFormed(Enqueued(g, t, d))
           /\ Held(Enqueued(g, t, d)) = Held(g) /\ Queued(Enqueued(g, t, d)) = Queued(g) \cup {t}
           /\ Enqueued(g, t, d).inflight = g.inflight
           /\ \A s \in DOMAIN g.meta : Enqueued(g, t, d).meta[s] = g.meta[s]
           /\ \A u, v \in Users : Before(g.order, u, v) => Before(Enqueued(g, t, d).order, u, v)
           /\ UserOf[t] \notin Waiters(g) =>
                 \A v \in Waiters(g) : Before(Enqueued(g, t, d).order, v, UserOf[t])
<1> DEFINE k == Enqueued(g, t, d)
           u == UserOf[t]
           new == [beat |-> d, over |-> FALSE]
<1>1. /\ g = [inflight |-> g.inflight, order |-> g.order, queues |-> g.queues, meta |-> g.meta]
      /\ g.queues \in [Users -> Seq(Tickets)] /\ u \in Users
  BY GateAssumption DEF WellFormed
<1>2. k = [inflight |-> g.inflight, meta |-> With(g.meta, t, new),
           queues |-> [g.queues EXCEPT ![u] = Append(@, t)],
           order |-> IF u \in Range(g.order) THEN g.order ELSE Append(g.order, u)]
  BY DEF Enqueued
<1> HIDE DEF k, new
<1>3. /\ k.inflight = g.inflight /\ k.meta = With(g.meta, t, new)
      /\ k.queues = [g.queues EXCEPT ![u] = Append(@, t)]
      /\ k.order = IF u \in Range(g.order) THEN g.order ELSE Append(g.order, u)
      /\ k = [inflight |-> k.inflight, order |-> k.order, queues |-> k.queues, meta |-> k.meta]
  BY <1>2
<1>4. t \notin Held(g) /\ t \notin DOMAIN g.meta /\ Held(g) \subseteq DOMAIN g.meta /\ DOMAIN g.meta \subseteq Tickets
  BY DEF Known, WellFormed
<1>5. /\ Held(k) = Held(g) /\ DOMAIN k.meta = DOMAIN g.meta \cup {t} /\ Queued(k) = Queued(g) \cup {t}
      /\ k.inflight = [s \in Held(k) |-> k.inflight[s]] /\ k.meta = [s \in DOMAIN k.meta |-> k.meta[s]]
      /\ \A s \in DOMAIN g.meta : k.meta[s] = g.meta[s]
      /\ k.meta[t] = new
  <2>1. Held(k) = Held(g) /\ g.inflight = [s \in Held(g) |-> g.inflight[s]]
    BY <1>3 DEF Held, WellFormed
  <2>2. /\ DOMAIN k.meta = DOMAIN g.meta \cup {t} /\ k.meta = [s \in DOMAIN k.meta |-> k.meta[s]]
        /\ \A s \in DOMAIN g.meta : k.meta[s] = g.meta[s]
        /\ k.meta[t] = new
    BY <1>3, <1>4 DEF With
  <2> QED
    BY <1>3, <1>4, <2>1, <2>2 DEF Queued
<1>6. ASSUME NEW v \in Users
      PROVE  /\ k.queues[v] \in Seq(Tickets) /\ IsInjective(k.queues[v])
             /\ Range(k.queues[v]) = {s \in Queued(k) : UserOf[s] = v}
             /\ k.queues[v] # <<>> <=> v = u \/ g.queues[v] # <<>>
  <2>1. /\ g.queues[v] \in Seq(Tickets) /\ IsInjective(g.queues[v])
        /\ Range(g.queues[v]) = {s \in Queued(g) : UserOf[s] = v}
    BY DEF WellFormed
  <2>2. t \notin Range(g.queues[v])
    BY <1>4, <2>1 DEF Queued
  <2>3. CASE v = u
    <3>1. k.queues[v] = Append(g.queues[v], t)
      BY <1>1, <1>3, <2>3
    <3>2. /\ k.queues[v] \in Seq(Tickets) /\ IsInjective(k.queues[v]) /\ k.queues[v] # <<>>
          /\ Range(k.queues[v]) = Range(g.queues[v]) \cup {t}
      BY <2>1, <2>2, <3>1, AppendKeeps
    <3> QED
      BY <1>5, <2>1, <2>3, <3>2
  <2>4. CASE v # u
    <3>1. k.queues[v] = g.queues[v]
      BY <1>1, <1>3, <2>4
    <3> QED
      BY <1>5, <2>1, <2>4, <3>1
  <2> QED
    BY <2>3, <2>4
<1>7. k.queues \in [Users -> Seq(Tickets)]
  BY <1>1, <1>3, <1>6
<1>8. Waiters(k) = Waiters(g) \cup {u}
  BY <1>1, <1>6 DEF Waiters
<1>9. g.order \in Seq(Users) /\ IsInjective(g.order) /\ Range(g.order) = Waiters(g)
  BY DEF WellFormed
<1>10. /\ k.order \in Seq(Users) /\ IsInjective(k.order) /\ Range(k.order) = Waiters(k)
       /\ \A a, b \in Users : Before(g.order, a, b) => Before(k.order, a, b)
       /\ u \notin Waiters(g) => \A v \in Waiters(g) : Before(k.order, v, u)
  <2>1. CASE u \in Range(g.order)
    BY <1>3, <1>8, <1>9, <2>1
  <2>2. CASE u \notin Range(g.order)
    <3>1. k.order = Append(g.order, u)
      BY <1>3, <2>2
    <3>2. /\ k.order \in Seq(Users) /\ IsInjective(k.order) /\ Range(k.order) = Range(g.order) \cup {u}
          /\ \A a, b : Before(g.order, a, b) => Before(k.order, a, b)
          /\ \A a \in Range(g.order) : Before(k.order, a, u)
      BY <1>1, <1>9, <2>2, <3>1, AppendKeeps
    <3> QED
      BY <1>8, <1>9, <3>2
  <2> QED
    BY <2>1, <2>2
<1>11. WellFormed(k)
  BY <1>3, <1>4, <1>5, <1>6, <1>7, <1>10 DEF WellFormed
<1> QED
  BY <1>3, <1>5, <1>10, <1>11 DEF k, new

LEMMA HeadOfTheLine ==
    ASSUME NEW g, WellFormed(g), NEW t, IsHead(g, t)
    PROVE  /\ t \in Queued(g) /\ t \in Tickets /\ UserOf[t] \in Users /\ g.order # <<>> /\ UserOf[t] = Head(g.order)
           /\ g.queues[UserOf[t]] # <<>> /\ t = Head(g.queues[UserOf[t]])
<1>1. /\ g.queues \in [Users -> Seq(Tickets)] /\ g.order \in Seq(Users)
      /\ \A u \in Users : IsInjective(g.queues[u]) /\ Range(g.queues[u]) = {s \in Queued(g) : UserOf[s] = u}
      /\ Range(g.order) = Waiters(g) /\ DOMAIN g.meta \subseteq Tickets
  BY DEF WellFormed
<1>2. PICK i \in DOMAIN g.order : /\ g.queues[g.order[i]] # <<>>
                                  /\ \A j \in 1..(i - 1) : g.queues[g.order[j]] = <<>>
                                  /\ t = Head(g.queues[g.order[i]])
  BY DEF IsHead, FirstInLine
<1>3. DOMAIN g.order = 1..Len(g.order) /\ Len(g.order) \in Nat /\ g.order # <<>>
  BY <1>1, <1>2
<1>4. \A j \in DOMAIN g.order : g.order[j] \in Users /\ g.queues[g.order[j]] # <<>>
  BY <1>1 DEF Range, Waiters
<1>5. i = 1
  <2>1. i # 1 => 1 \in 1..(i - 1) /\ 1 \in DOMAIN g.order
    BY <1>3
  <2> QED
    BY <1>2, <1>4, <2>1
<1> DEFINE w == g.order[1]
<1>6. w \in Users /\ w = Head(g.order) /\ g.queues[w] # <<>> /\ t = Head(g.queues[w])
  BY <1>1, <1>2, <1>3, <1>4, <1>5
<1> HIDE DEF w
<1>7. t \in Range(g.queues[w])
  BY <1>1, <1>6, TailKeeps
<1> QED
  BY <1>1, <1>3, <1>6, <1>7 DEF Queued

LEMMA GrantedServes ==
    ASSUME NEW g, WellFormed(g), NEW t, IsHead(g, t), NEW d
    PROVE  /\ WellFormed(Granted(g, t, d))
           /\ Held(Granted(g, t, d)) = Held(g) \cup {t} /\ Queued(Granted(g, t, d)) = Queued(g) \ {t}
           /\ t \in Queued(g) /\ UserOf[t] \in Waiters(g)
           /\ Granted(g, t, d).inflight[t] = Lease - d
           /\ \A s \in Held(g) : Granted(g, t, d).inflight[s] = g.inflight[s]
           /\ \A s \in DOMAIN g.meta : s # t => Granted(g, t, d).meta[s] = g.meta[s]
           /\ \A v : ~Before(g.order, v, UserOf[t])
           /\ \A a, b : a # UserOf[t] /\ Before(g.order, a, b) => Before(Granted(g, t, d).order, a, b)
           /\ \A v \in Waiters(Granted(g, t, d)) : v # UserOf[t] /\ UserOf[t] \in Waiters(Granted(g, t, d)) =>
                 Before(Granted(g, t, d).order, v, UserOf[t])
<1> DEFINE k == Granted(g, t, d)
           u == UserOf[t]
           rest == Tail(g.queues[u])
<1>1. /\ t \in Queued(g) /\ t \in Tickets /\ u \in Users /\ g.order # <<>> /\ u = Head(g.order)
      /\ g.queues[u] # <<>> /\ t = Head(g.queues[u])
  BY HeadOfTheLine
<1>2. /\ g.queues \in [Users -> Seq(Tickets)] /\ g.order \in Seq(Users) /\ IsInjective(g.order)
      /\ \A v \in Users : IsInjective(g.queues[v]) /\ Range(g.queues[v]) = {s \in Queued(g) : UserOf[s] = v}
      /\ Range(g.order) = Waiters(g) /\ Held(g) \subseteq DOMAIN g.meta /\ DOMAIN g.meta \subseteq Tickets
  BY DEF WellFormed
<1>3. k = [inflight |-> With(g.inflight, t, Lease - d), meta |-> With(g.meta, t, Holder),
           queues |-> [g.queues EXCEPT ![u] = rest],
           order |-> Tail(g.order) \o (IF rest = <<>> THEN <<>> ELSE <<u>>)]
  BY DEF Granted
<1> HIDE DEF k, rest
<1>4. /\ k.inflight = With(g.inflight, t, Lease - d) /\ k.meta = With(g.meta, t, Holder)
      /\ k.queues = [g.queues EXCEPT ![u] = rest]
      /\ k.order = Tail(g.order) \o (IF rest = <<>> THEN <<>> ELSE <<u>>)
      /\ k = [inflight |-> k.inflight, order |-> k.order, queues |-> k.queues, meta |-> k.meta]
  BY <1>3
<1>5. t \notin Held(g) /\ t \in DOMAIN g.meta
  BY <1>1 DEF Queued
<1>6. /\ Held(k) = Held(g) \cup {t} /\ DOMAIN k.meta = DOMAIN g.meta
      /\ k.inflight = [s \in Held(k) |-> k.inflight[s]] /\ k.meta = [s \in DOMAIN k.meta |-> k.meta[s]]
      /\ k.inflight[t] = Lease - d
      /\ \A s \in Held(g) : k.inflight[s] = g.inflight[s]
      /\ \A s \in DOMAIN g.meta : s # t => k.meta[s] = g.meta[s]
  BY <1>4, <1>5 DEF With, Held
<1>7. Queued(k) = Queued(g) \ {t}
  BY <1>6 DEF Queued
<1>8. rest \in Seq(Tickets) /\ IsInjective(rest) /\ Range(rest) = Range(g.queues[u]) \ {t}
  BY <1>1, <1>2, TailKeeps DEF rest
<1>9. ASSUME NEW v \in Users
      PROVE  /\ k.queues[v] \in Seq(Tickets) /\ IsInjective(k.queues[v])
             /\ Range(k.queues[v]) = {s \in Queued(k) : UserOf[s] = v}
             /\ k.queues[v] # <<>> <=> IF v = u THEN rest # <<>> ELSE g.queues[v] # <<>>
  <2>1. CASE v = u
    <3>1. k.queues[v] = rest
      BY <1>1, <1>2, <1>4, <2>1
    <3> QED
      BY <1>1, <1>2, <1>7, <1>8, <2>1, <3>1
  <2>2. CASE v # u
    <3>1. k.queues[v] = g.queues[v]
      BY <1>1, <1>2, <1>4, <2>2
    <3> QED
      BY <1>1, <1>2, <1>7, <2>2, <3>1
  <2> QED
    BY <2>1, <2>2
<1>10. k.queues \in [Users -> Seq(Tickets)]
  BY <1>2, <1>4, <1>9
<1>11. Waiters(k) = IF rest = <<>> THEN Waiters(g) \ {u} ELSE Waiters(g)
  BY <1>1, <1>9 DEF Waiters
<1> DEFINE line == Tail(g.order)
<1>12. /\ line \in Seq(Users) /\ IsInjective(line) /\ Range(line) = Waiters(g) \ {u}
       /\ \A a, b : a # u /\ Before(g.order, a, b) => Before(line, a, b)
       /\ \A a : ~Before(g.order, a, u)
  <2> DEFINE top == Head(g.order)
  <2>1. /\ line \in Seq(Users) /\ IsInjective(line) /\ Range(line) = Range(g.order) \ {top}
        /\ \A a, b : a # top /\ Before(g.order, a, b) => Before(line, a, b)
        /\ \A a : ~Before(g.order, a, top)
    BY <1>1, <1>2, TailKeeps, Zenon
  <2> HIDE DEF line, top, u
  <2>2. top = u
    BY <1>1 DEF top
  <2> QED
    BY <1>2, <2>1, <2>2
<1> HIDE DEF line
<1>13. /\ k.order \in Seq(Users) /\ IsInjective(k.order) /\ Range(k.order) = Waiters(k)
       /\ \A a, b : a # u /\ Before(g.order, a, b) => Before(k.order, a, b)
       /\ \A v \in Waiters(k) : v # u /\ u \in Waiters(k) => Before(k.order, v, u)
  <2>1. CASE rest = <<>>
    <3>1. k.order = line
      BY <1>4, <1>12, <2>1 DEF line
    <3> QED
      BY <1>11, <1>12, <2>1, <3>1
  <2>2. CASE rest # <<>>
    <3>1. k.order = Append(line, u)
      BY <1>1, <1>4, <1>12, <2>2 DEF line
    <3>2. u \notin Range(line)
      BY <1>12
    <3>3. /\ k.order \in Seq(Users) /\ IsInjective(k.order) /\ Range(k.order) = Range(line) \cup {u}
          /\ \A a, b : Before(line, a, b) => Before(k.order, a, b)
          /\ \A a \in Range(line) : Before(k.order, a, u)
      BY <1>1, <1>12, <3>1, <3>2, AppendKeeps
    <3>4. u \in Waiters(g)
      BY <1>1 DEF Waiters
    <3> QED
      BY <1>11, <1>12, <2>2, <3>3, <3>4
  <2> QED
    BY <2>1, <2>2
<1>14. WellFormed(k)
  <2>1. Held(k) \subseteq DOMAIN k.meta /\ DOMAIN k.meta \subseteq Tickets
    BY <1>2, <1>5, <1>6
  <2> QED
    BY <1>4, <1>6, <1>9, <1>10, <1>13, <2>1 DEF WellFormed
<1>15. u \in Waiters(g)
  BY <1>1 DEF Waiters
<1> QED
  BY <1>1, <1>6, <1>7, <1>12, <1>13, <1>14, <1>15 DEF k
-----------------------------------------------------------------------------
(* The promise of the pool. *)

\* Whoever was served ahead of a waiting user stands behind that user in the rotation.
InTurn ==
    /\ ahead \subseteq Users \X Users
    /\ \A p \in ahead : /\ p[2] \in Waiters(gate)
                        /\ p[1] \in Waiters(gate) => Before(gate.order, p[2], p[1])

ServedBy(g) == {UserOf[t] : t \in Held(g) \cap Queued(gate)}
StillWaiting(g) == {UserOf[t] : t \in Queued(g) \cap Queued(gate)}

LEMMA WriteMoves ==
    ASSUME NEW g, Write(g)
    PROVE  /\ gate' = g
           /\ ahead' = {p \in ahead \cup (ServedBy(g) \X Users) : p[2] \in StillWaiting(g) \ ServedBy(g)}
BY DEF Write, ServedBy, StillWaiting

\* The tickets that are in g and not in h.
Gone(g, h) == Known(g) \ Known(h)

LEMMA WhoIsGone ==
    ASSUME NEW g, WellFormed(g), NEW h, WellFormed(h), Shrunk(g, h)
    PROVE  /\ Held(g) \ Gone(g, h) = Held(h) /\ Queued(g) \ Gone(g, h) = Queued(h)
           /\ Gone(g, h) \in SUBSET (Held(g) \cup Queued(g))
           /\ (Held(g) \cup Queued(g)) \ Gone(g, h) = Known(h)
           /\ Waiters(h) \subseteq Waiters(g)
<1>1. Held(g) \subseteq DOMAIN g.meta /\ Held(h) \subseteq DOMAIN h.meta
  BY DEF WellFormed
<1>2. Held(h) \subseteq Held(g) /\ Queued(h) \subseteq Queued(g)
  BY DEF Shrunk
<1>3. Waiters(h) \subseteq Waiters(g)
  BY <1>2, WhoWaits
<1> QED
  BY <1>1, <1>2, <1>3 DEF Gone, Known, Queued

LEMMA LeavingKeepsPromise ==
    ASSUME NEW g, WellFormed(gate), WellFormed(g), Shrunk(gate, g), InTurn, Write(g)
    PROVE  InTurn' /\ Pool!PoolNext
<1>1. gate' = g /\ ahead' = {p \in ahead \cup (ServedBy(g) \X Users) : p[2] \in StillWaiting(g) \ ServedBy(g)}
  BY WriteMoves
<1>2. ServedBy(g) = {} /\ StillWaiting(g) = Waiters(g)
  <2>1. Held(g) \subseteq Held(gate) /\ Queued(g) \subseteq Queued(gate)
    BY DEF Shrunk
  <2>2. Held(g) \cap Queued(gate) = {} /\ Queued(g) \cap Queued(gate) = Queued(g)
    BY <2>1 DEF Queued
  <2> QED
    BY <2>2, WhoWaits DEF ServedBy, StillWaiting
<1>3. ahead' = {p \in ahead : p[2] \in Waiters(g)}
  BY <1>1, <1>2
<1>4. InTurn'
  BY <1>1, <1>3, WhoIsGone DEF InTurn, Shrunk
<1>5. Pool!Leave(Gone(gate, g))
  <2>1. Pool!WaitingUsers(Queued(g)) = Waiters(g)
    BY WhoWaits DEF Pool!WaitingUsers
  <2>2. Pool!AheadAfter(Queued(g), {}) = {p \in ahead : p[2] \in Waiters(g)}
    BY <2>1 DEF Pool!AheadAfter
  <2>3. Held(g) = Held(gate) \ Gone(gate, g) /\ Queued(g) = Queued(gate) \ Gone(gate, g)
    BY WhoIsGone
  <2>4. Held(gate)' = Held(g) /\ Queued(gate)' = Queued(g)
    BY <1>1 DEF Held, Queued
  <2> QED
    BY <1>3, <2>2, <2>3, <2>4 DEF Pool!Leave
<1> QED
  BY <1>4, <1>5, WhoIsGone DEF Pool!PoolNext

\* The two modules count alike.
LEMMA SameCount ==
    ASSUME NEW S
    PROVE  Pool!Cardinality(S) = Cardinality(S)
BY Zenon DEF Cardinality, Pool!Cardinality

LEMMA EnteringKeepsPromise ==
    ASSUME WellFormed(gate), NEW h, WellFormed(h), Shrunk(gate, h), InTurn,
           NEW t \in Tickets, t \notin Known(h), t \notin Queued(gate), Waiters(h) = {},
           Cardinality(Held(h)) < Limit, NEW d, Write(Entered(h, t, d))
    PROVE  InTurn' /\ Pool!PoolNext
<1> DEFINE g == Entered(h, t, d)
<1>1. gate' = g /\ ahead' = {p \in ahead \cup (ServedBy(g) \X Users) : p[2] \in StillWaiting(g) \ ServedBy(g)}
  BY WriteMoves
<1>2. Held(g) = Held(h) \cup {t} /\ Queued(g) = {} /\ Queued(h) = {}
  BY EnteredHolds
<1> HIDE DEF g
<1>3. StillWaiting(g) = {}
  BY <1>2 DEF StillWaiting
<1>4. ahead' = {}
  BY <1>1, <1>3
<1>5. InTurn'
  BY <1>4 DEF InTurn
<1>6. Pool!Enter(Gone(gate, h), t)
  <2>1. /\ Held(h) = Held(gate) \ Gone(gate, h) /\ Queued(h) = Queued(gate) \ Gone(gate, h)
        /\ (Held(gate) \cup Queued(gate)) \ Gone(gate, h) = Known(h)
    BY WhoIsGone
  <2>2. Held(gate)' = Held(g) /\ Queued(gate)' = Queued(g)
    BY <1>1 DEF Held, Queued
  <2>3. Pool!Cardinality(Held(gate) \ Gone(gate, h)) < Limit
    BY <2>1, SameCount
  <2>4. /\ t \notin (Held(gate) \cup Queued(gate)) \ Gone(gate, h)
        /\ Queued(gate) \ Gone(gate, h) = {}
        /\ Held(gate)' = (Held(gate) \ Gone(gate, h)) \cup {t}
        /\ Queued(gate)' = {}
    BY <1>2, <2>1, <2>2
  <2> QED
    BY <1>4, <2>3, <2>4 DEF Pool!Enter
<1> QED
  BY <1>5, <1>6, WhoIsGone DEF Pool!PoolNext

LEMMA JoiningKeepsPromise ==
    ASSUME WellFormed(gate), NEW h, WellFormed(h), Shrunk(gate, h), InTurn,
           NEW t \in Tickets, t \notin Known(h), t \notin Queued(gate), NEW d, Write(Enqueued(h, t, d))
    PROVE  InTurn' /\ Pool!PoolNext
<1> DEFINE g == Enqueued(h, t, d)
<1>1. gate' = g /\ ahead' = {p \in ahead \cup (ServedBy(g) \X Users) : p[2] \in StillWaiting(g) \ ServedBy(g)}
  BY WriteMoves
<1>2. /\ Held(g) = Held(h) /\ Queued(g) = Queued(h) \cup {t} /\ WellFormed(g)
      /\ \A u, v \in Users : Before(h.order, u, v) => Before(g.order, u, v)
      /\ UserOf[t] \notin Waiters(h) => \A v \in Waiters(h) : Before(g.order, v, UserOf[t])
  BY EnqueuedWaits
<1> HIDE DEF g
<1>3. /\ Held(h) \subseteq Held(gate) /\ Queued(h) \subseteq Queued(gate) /\ Waiters(h) \subseteq Waiters(gate)
      /\ Waiters(h) = {UserOf[s] : s \in Queued(h)}
      /\ Waiters(g) = {UserOf[s] : s \in Queued(g)}
      /\ Waiters(h) \subseteq Users
  BY <1>2, WhoIsGone, WhoWaits DEF Shrunk, Waiters
<1>4. ServedBy(g) = {} /\ StillWaiting(g) = Waiters(h)
  <2>1. Held(g) \cap Queued(gate) = {} /\ Queued(g) \cap Queued(gate) = Queued(h)
    BY <1>2, <1>3 DEF Queued
  <2> QED
    BY <1>3, <2>1 DEF ServedBy, StillWaiting
<1>5. ahead' = {p \in ahead : p[2] \in Waiters(h)}
  BY <1>1, <1>4
<1>6. Waiters(g) = Waiters(h) \cup {UserOf[t]}
  BY <1>2, <1>3
<1>7. InTurn'
  <2> SUFFICES ASSUME NEW p \in ahead, p[2] \in Waiters(h)
               PROVE  /\ p \in Users \X Users /\ p[2] \in Waiters(g)
                      /\ p[1] \in Waiters(g) => Before(g.order, p[2], p[1])
    BY <1>1, <1>5 DEF InTurn
  <2>1. p \in Users \X Users /\ p[2] \in Waiters(g)
    BY <1>6 DEF InTurn
  <2>2. CASE p[1] \in Waiters(h)
    <3>1. Before(gate.order, p[2], p[1])
      BY <1>3, <2>2 DEF InTurn
    <3>2. Before(h.order, p[2], p[1])
      BY <2>2, <3>1 DEF Shrunk
    <3> QED
      BY <1>2, <1>3, <2>1, <2>2, <3>2
  <2>3. CASE p[1] \notin Waiters(h)
    BY <1>2, <1>6, <2>1, <2>3
  <2> QED
    BY <2>1, <2>2, <2>3
<1>8. Pool!Join(Gone(gate, h), t)
  <2>1. /\ Held(h) = Held(gate) \ Gone(gate, h) /\ Queued(h) = Queued(gate) \ Gone(gate, h)
        /\ (Held(gate) \cup Queued(gate)) \ Gone(gate, h) = Known(h)
    BY WhoIsGone
  <2>2. Held(gate)' = Held(g) /\ Queued(gate)' = Queued(g)
    BY <1>1 DEF Held, Queued
  <2>3. Pool!AheadAfter(Queued(h), {}) = {p \in ahead : p[2] \in Waiters(h)}
    BY <1>3 DEF Pool!AheadAfter, Pool!WaitingUsers
  <2> QED
    BY <1>2, <1>5, <2>1, <2>2, <2>3 DEF Pool!Join
<1> QED
  BY <1>7, <1>8, WhoIsGone DEF Pool!PoolNext

LEMMA ServingKeepsPromise ==
    ASSUME WellFormed(gate), NEW h, WellFormed(h), Shrunk(gate, h), InTurn,
           NEW t, IsHead(h, t), Cardinality(Held(h)) < Limit, NEW d, Write(Granted(h, t, d))
    PROVE  InTurn' /\ Pool!PoolNext
<1> DEFINE g == Granted(h, t, d)
           w == UserOf[t]
<1>1. gate' = g /\ ahead' = {p \in ahead \cup (ServedBy(g) \X Users) : p[2] \in StillWaiting(g) \ ServedBy(g)}
  BY WriteMoves
<1>2. /\ Held(g) = Held(h) \cup {t} /\ Queued(g) = Queued(h) \ {t} /\ WellFormed(g)
      /\ t \in Queued(h) /\ w \in Waiters(h)
      /\ \A v : ~Before(h.order, v, w)
      /\ \A a, b : a # w /\ Before(h.order, a, b) => Before(g.order, a, b)
      /\ \A v \in Waiters(g) : v # w /\ w \in Waiters(g) => Before(g.order, v, w)
  BY GrantedServes
<1> HIDE DEF g
<1>3. /\ Held(h) \subseteq Held(gate) /\ Queued(h) \subseteq Queued(gate) /\ Waiters(h) \subseteq Waiters(gate)
      /\ Waiters(h) = {UserOf[s] : s \in Queued(h)}
      /\ Waiters(g) = {UserOf[s] : s \in Queued(g)}
      /\ Waiters(h) \subseteq Users /\ t \in Tickets
  BY <1>2, WhoIsGone, WhoWaits DEF Shrunk, Waiters
<1>4. ServedBy(g) = {w} /\ StillWaiting(g) = Waiters(g)
  <2>1. Held(g) \cap Queued(gate) = {t} /\ Queued(g) \cap Queued(gate) = Queued(g)
    BY <1>2, <1>3 DEF Queued
  <2> QED
    BY <1>3, <2>1 DEF ServedBy, StillWaiting
<1>5. ahead' = {p \in ahead \cup ({w} \X Users) : p[2] \in Waiters(g) \ {w}}
  BY <1>1, <1>4
<1>6. Waiters(g) \subseteq Waiters(h)
  BY <1>2, <1>3
<1>7. InTurn'
  <2> SUFFICES ASSUME NEW p \in ahead \cup ({w} \X Users), p[2] \in Waiters(g), p[2] # w
               PROVE  /\ p \in Users \X Users
                      /\ p[1] \in Waiters(g) => Before(g.order, p[2], p[1])
    BY <1>1, <1>5 DEF InTurn
  <2>1. p \in Users \X Users
    BY <1>2, <1>3 DEF InTurn
  <2>2. CASE p[1] = w
    BY <1>2, <2>1, <2>2
  <2>3. CASE p[1] # w /\ p[1] \in Waiters(g)
    <3>1. p \in ahead
      BY <2>3
    <3>2. Before(gate.order, p[2], p[1])
      BY <1>3, <1>6, <2>3, <3>1 DEF InTurn
    <3>3. Before(h.order, p[2], p[1])
      BY <1>6, <2>3, <3>2 DEF Shrunk
    <3> QED
      BY <1>2, <2>1, <3>3
  <2> QED
    BY <2>1, <2>2, <2>3
<1>8. \A v \in Waiters(h) : <<w, v>> \notin ahead
  <2> SUFFICES ASSUME NEW v \in Waiters(h), <<w, v>> \in ahead PROVE FALSE
    OBVIOUS
  <2>1. Before(gate.order, v, w)
    BY <1>2, <1>3 DEF InTurn
  <2>2. Before(h.order, v, w)
    BY <1>2, <2>1 DEF Shrunk
  <2> QED
    BY <1>2, <2>2
<1>9. Pool!Serve(Gone(gate, h), t)
  <2>1. Held(h) = Held(gate) \ Gone(gate, h) /\ Queued(h) = Queued(gate) \ Gone(gate, h)
    BY WhoIsGone
  <2>2. Held(gate)' = Held(g) /\ Queued(gate)' = Queued(g)
    BY <1>1 DEF Held, Queued
  <2>3. Pool!AheadAfter(Queued(g), {w}) = {p \in ahead \cup ({w} \X Users) : p[2] \in Waiters(g) \ {w}}
    BY <1>3 DEF Pool!AheadAfter, Pool!WaitingUsers
  <2>4. Queued(g) = Queued(gate) \ (Gone(gate, h) \cup {t})
    BY <1>2, <2>1
  <2>5. Pool!WaitingUsers(Queued(h)) = Waiters(h)
    BY <1>3 DEF Pool!WaitingUsers
  <2>6. Pool!Cardinality(Held(gate) \ Gone(gate, h)) < Limit
    BY <2>1, SameCount
  <2>7. /\ t \in Queued(gate) \ Gone(gate, h)
        /\ Held(gate)' = (Held(gate) \ Gone(gate, h)) \cup {t}
        /\ Queued(gate)' = Queued(gate) \ (Gone(gate, h) \cup {t})
    BY <1>2, <2>1, <2>2, <2>4
  <2>8. \A v \in Pool!WaitingUsers(Queued(gate) \ Gone(gate, h)) : <<w, v>> \notin ahead
    BY <1>8, <2>1, <2>5
  <2>9. ahead' = Pool!AheadAfter(Queued(gate)', {w})
    BY <1>5, <2>2, <2>3
  <2> QED
    BY <2>6, <2>7, <2>8, <2>9 DEF Pool!Serve
<1>10. Gone(gate, h) \in SUBSET (Held(gate) \cup Queued(gate)) /\ t \in Tickets
  BY <1>3, WhoIsGone
<1> QED
  BY <1>7, <1>9, <1>10 DEF Pool!PoolNext
-----------------------------------------------------------------------------
(* The operations: what each makes of a well-formed record, and that writing it down *)
(* keeps the promise. *)

\* g may be written over the gate's record by a caller with the ticket t.
Turns(t, g) ==
    /\ WellFormed(g) /\ Leased(g)
    /\ Known(g) \subseteq Known(gate) \cup {t}
    /\ Write(g) => InTurn' /\ Pool!PoolNext

LEMMA LeaseRange ==
    ASSUME NEW d \in 0..LockWait
    PROVE  Lease - d \in (-LockWait)..Lease /\ LockWait \in Nat
<1>1. Lease \in Nat \ {0} /\ LockWait \in Nat \ {0}
  BY GateAssumption
<1> QED
  BY <1>1

LEMMA StayingTurns ==
    ASSUME WellFormed(gate), Leased(gate), InTurn, NEW t
    PROVE  Turns(t, gate)
<1>1. Shrunk(gate, gate)
  BY DEF Shrunk
<1> QED
  BY <1>1, LeavingKeepsPromise DEF Turns

LEMMA KnownOfShrunk ==
    ASSUME NEW g, WellFormed(g), NEW h, WellFormed(h), Shrunk(g, h)
    PROVE  Known(h) \subseteq Known(g)
BY DEF Known, Shrunk, Queued

LEMMA ArrivedTurns ==
    ASSUME WellFormed(gate), Leased(gate), InTurn, NEW t \in Tickets, t \notin Known(gate), NEW d \in 0..LockWait
    PROVE  Turns(t, Arrived(gate, t, d))
<1> DEFINE h == Purged(gate, d)
           g == Arrived(gate, t, d)
<1>1. /\ WellFormed(h) /\ Shrunk(gate, h)
      /\ \A s \in Held(h) : s \in Held(gate) /\ h.inflight[s] = gate.inflight[s]
  BY PurgedShrinks DEF Shrunk
<1>2. g = IF Cardinality(Held(h)) < Limit /\ Waiters(h) = {} THEN Entered(h, t, d) ELSE Enqueued(h, t, d)
  BY DEF Arrived
<1> HIDE DEF h, g
<1>3. t \notin Known(h) /\ t \notin Queued(gate) /\ Known(h) \subseteq Known(gate)
  BY <1>1, KnownOfShrunk DEF Known, Queued
<1>4. CASE Cardinality(Held(h)) < Limit /\ Waiters(h) = {}
  <2>1. g = Entered(h, t, d)
    BY <1>2, <1>4
  <2>2. /\ WellFormed(g) /\ Held(g) = Held(h) \cup {t} /\ Queued(g) = {}
        /\ g.inflight[t] = Lease - d
        /\ \A s \in Held(h) : g.inflight[s] = h.inflight[s]
    BY <1>1, <1>3, <1>4, <2>1, EnteredHolds
  <2>3. Leased(g)
    BY <1>1, <2>2, LeaseRange DEF Leased
  <2>4. Known(g) \subseteq Known(gate) \cup {t}
    BY <1>3, <2>2 DEF Known, Queued
  <2>5. Write(g) => InTurn' /\ Pool!PoolNext
    BY <1>1, <1>3, <1>4, <2>1, EnteringKeepsPromise
  <2> QED
    BY <2>2, <2>3, <2>4, <2>5 DEF Turns, g
<1>5. CASE ~(Cardinality(Held(h)) < Limit /\ Waiters(h) = {})
  <2>1. g = Enqueued(h, t, d)
    BY <1>2, <1>5
  <2>2. /\ WellFormed(g) /\ Held(g) = Held(h) /\ Queued(g) = Queued(h) \cup {t} /\ g.inflight = h.inflight
    <3>1. /\ WellFormed(Enqueued(h, t, d)) /\ Held(Enqueued(h, t, d)) = Held(h)
          /\ Queued(Enqueued(h, t, d)) = Queued(h) \cup {t} /\ Enqueued(h, t, d).inflight = h.inflight
      <4>1. WellFormed(h) /\ t \notin Known(h)
        BY <1>1, <1>3
      <4> QED
        BY <4>1, EnqueuedWaits, Zenon
    <3> QED
      BY <2>1, <3>1
  <2>3. Leased(g)
    BY <1>1, <2>2 DEF Leased
  <2>4. Known(g) \subseteq Known(gate) \cup {t}
    BY <1>3, <2>2 DEF Known, Queued
  <2>5. Write(g) => InTurn' /\ Pool!PoolNext
    BY <1>1, <1>3, <2>1, JoiningKeepsPromise
  <2> QED
    BY <2>2, <2>3, <2>4, <2>5 DEF Turns, g
<1> QED
  BY <1>4, <1>5

LEMMA ShrinkingTurns ==
    ASSUME WellFormed(gate), Leased(gate), InTurn, NEW t, NEW g, WellFormed(g), Shrunk(gate, g),
           \A s \in Held(g) : g.inflight[s] = gate.inflight[s] \/ g.inflight[s] \in (-LockWait)..Lease
    PROVE  Turns(t, g)
<1>1. Leased(g)
  BY DEF Leased, Shrunk
<1> QED
  BY <1>1, KnownOfShrunk, LeavingKeepsPromise DEF Turns

LEMMA ReleasedTurns ==
    ASSUME WellFormed(gate), Leased(gate), InTurn, NEW t \in Tickets, NEW d
    PROVE  Turns(t, Released(gate, t, d))
BY ReleasedShrinks, ShrinkingTurns

LEMMA PulsedTurns ==
    ASSUME WellFormed(gate), Leased(gate), InTurn, NEW t \in Tickets, NEW d \in 0..LockWait
    PROVE  Turns(t, Pulsed(gate, t, d))
BY PulsedShrinks, ShrinkingTurns, LeaseRange

\* What a poll judges: the record with the sign of life noted and purged.
Judged(f, t, d) == Purged(Seen(f, t, d), d)

LEMMA PollCases ==
    ASSUME NEW f, NEW t, NEW d, NEW h, h = Judged(f, t, d)
    PROVE  \/ t \in Held(h) /\ PollOf(f, t, d) = [status |-> "granted", gate |-> h]
           \/ t \notin Known(h) /\ PollOf(f, t, d) = [status |-> "missing", gate |-> h]
           \/ /\ t \in Queued(h) /\ h.meta[t].over
              /\ PollOf(f, t, d) = [status |-> "timeout", gate |-> Released(h, t, d)]
           \/ /\ t \in Queued(h) /\ Cardinality(Held(h)) < Limit /\ IsHead(h, t)
              /\ PollOf(f, t, d) = [status |-> "granted", gate |-> Granted(h, t, d)]
           \/ /\ t \in Queued(h) /\ ~(Cardinality(Held(h)) < Limit /\ IsHead(h, t))
              /\ PollOf(f, t, d) = [status |-> "queued", gate |-> h]
<1> DEFINE told == PollOf(f, t, d)
           over == h.meta[t].over
<1>1. told = CASE t \in Held(h) -> [status |-> "granted", gate |-> h]
               [] t \notin Known(h) -> [status |-> "missing", gate |-> h]
               [] t \in Queued(h) /\ over -> [status |-> "timeout", gate |-> Released(h, t, d)]
               [] t \in Queued(h) /\ ~over ->
                    IF Cardinality(Held(h)) < Limit /\ IsHead(h, t)
                    THEN [status |-> "granted", gate |-> Granted(h, t, d)]
                    ELSE [status |-> "queued", gate |-> h]
  BY Zenon DEF PollOf, Judged
<1>2. over <=> h.meta[t].over
  OBVIOUS
<1> HIDE DEF told, over
<1>3. /\ t \in Held(h) => t \in Known(h) /\ t \notin Queued(h)
      /\ t \in Queued(h) => t \in Known(h) /\ t \notin Held(h)
      /\ t \in Held(h) \/ t \notin Known(h) \/ t \in Queued(h)
  BY DEF Queued, Known
<1>4. CASE t \in Held(h)
  BY <1>1, <1>3, <1>4 DEF told
<1>5. CASE t \notin Known(h)
  BY <1>1, <1>3, <1>5 DEF told
<1>6. CASE t \in Queued(h)
  BY <1>1, <1>2, <1>3, <1>6 DEF told
<1> QED
  BY <1>3, <1>4, <1>5, <1>6

LEMMA PolledTurns ==
    ASSUME WellFormed(gate), Leased(gate), InTurn, NEW t \in Tickets, NEW d \in 0..LockWait
    PROVE  Turns(t, PollOf(gate, t, d).gate)
<1> DEFINE seen == Seen(gate, t, d)
           h == Purged(seen, d)
           g == PollOf(gate, t, d).gate
<1>1. /\ WellFormed(seen) /\ Shrunk(gate, seen) /\ Held(seen) = Held(gate) /\ seen.inflight = gate.inflight
  <2> HIDE DEF seen
  <2>1. /\ WellFormed(Seen(gate, t, d)) /\ Shrunk(gate, Seen(gate, t, d))
        /\ Held(Seen(gate, t, d)) = Held(gate) /\ Seen(gate, t, d).inflight = gate.inflight
    BY SeenShrinks
  <2> QED
    BY <2>1 DEF seen
<1>2. h = Judged(gate, t, d)
  BY DEF Judged
<1> HIDE DEF seen, g
<1>3. /\ WellFormed(h) /\ Shrunk(seen, h)
      /\ \A s \in Held(h) : h.inflight[s] = seen.inflight[s]
  BY <1>1, PurgedShrinks
<1> HIDE DEF h
<1>4. /\ Shrunk(gate, h)
      /\ \A s \in Held(h) : s \in Held(gate) /\ h.inflight[s] = gate.inflight[s]
  BY <1>1, <1>3, ShrunkTwice DEF Shrunk
<1>5. \/ g = h
      \/ t \in Queued(h) /\ g = Released(h, t, d)
      \/ t \in Queued(h) /\ Cardinality(Held(h)) < Limit /\ IsHead(h, t) /\ g = Granted(h, t, d)
  <2> DEFINE told == PollOf(gate, t, d)
  <2>1. \/ told = [status |-> "granted", gate |-> h] \/ told = [status |-> "missing", gate |-> h]
        \/ told = [status |-> "queued", gate |-> h]
        \/ t \in Queued(h) /\ told = [status |-> "timeout", gate |-> Released(h, t, d)]
        \/ /\ t \in Queued(h) /\ Cardinality(Held(h)) < Limit /\ IsHead(h, t)
           /\ told = [status |-> "granted", gate |-> Granted(h, t, d)]
    BY <1>2, PollCases, Zenon
  <2>2. g = told.gate
    BY DEF g
  <2> HIDE DEF told
  <2> QED
    BY <2>1, <2>2
<1>6. CASE g = h
  BY <1>3, <1>4, <1>6, ShrinkingTurns DEF g
<1>7. CASE t \in Queued(h) /\ g = Released(h, t, d)
  <2>1. WellFormed(g) /\ Shrunk(h, g) /\ \A s \in Held(g) : g.inflight[s] = h.inflight[s]
    BY <1>3, <1>7, ReleasedShrinks
  <2>2. Shrunk(gate, g) /\ \A s \in Held(g) : g.inflight[s] = gate.inflight[s]
    BY <1>3, <1>4, <2>1, ShrunkTwice DEF Shrunk
  <2> QED
    BY <2>1, <2>2, ShrinkingTurns DEF g
<1>8. CASE t \in Queued(h) /\ Cardinality(Held(h)) < Limit /\ IsHead(h, t) /\ g = Granted(h, t, d)
  <2>1. /\ WellFormed(g) /\ Held(g) = Held(h) \cup {t} /\ Queued(g) = Queued(h) \ {t}
        /\ g.inflight[t] = Lease - d
        /\ \A s \in Held(h) : g.inflight[s] = h.inflight[s]
    BY <1>3, <1>8, GrantedServes
  <2>2. Leased(g)
    BY <1>4, <2>1, LeaseRange DEF Leased
  <2>3. Known(g) \subseteq Known(gate) \cup {t}
    BY <1>3, <1>4, <2>1, KnownOfShrunk DEF Known, Queued
  <2>4. Write(g) => InTurn' /\ Pool!PoolNext
    BY <1>3, <1>4, <1>8, ServingKeepsPromise
  <2> QED
    BY <2>1, <2>2, <2>3, <2>4 DEF Turns, g
<1> QED
  BY <1>5, <1>6, <1>7, <1>8
-----------------------------------------------------------------------------
(* The invariant. *)

CallStates == {"none", "arriving", "sleeping", "polling", "running", "releasing"}
PulseStates == {"off", "sleep", "step", "dead"}

\* A step under way is no older than the wait for the lock.
Clocks ==
    /\ pc \in [Tickets -> CallStates] /\ since \in [Tickets -> Nat]
    /\ pulse \in [Tickets -> [at : PulseStates, since : Nat]]
    /\ \A t \in Tickets :
          /\ pc[t] \in {"arriving", "polling", "releasing"} => since[t] <= LockWait
          /\ pulse[t].at = "step" => pulse[t].since <= LockWait

\* A call that arrives has a ticket the gate does not know.
Fresh == \A t \in Tickets : pc[t] = "arriving" => t \notin Known(gate)

GateInv == WellFormed(gate) /\ Leased(gate) /\ InTurn /\ Clocks /\ Fresh

LEMMA StepAge ==
    ASSUME Clocks, NEW t \in Tickets
    PROVE  /\ LockWaitOf(t) \in 0..LockWait
           /\ pc[t] \in {"arriving", "polling", "releasing"} => since[t] \in 0..LockWait
           /\ pulse[t].at = "step" => pulse[t].since \in 0..LockWait
<1>1. LockWait \in Nat
  BY GateAssumption
<1>2. LockWaitOf(t) \in 0..LockWait
  BY <1>1 DEF LockWaitOf
<1>3. since[t] \in Nat /\ pulse[t].since \in Nat
  BY DEF Clocks
<1> QED
  BY <1>1, <1>2, <1>3 DEF Clocks

\* A call that goes on to its next step starts a new clock.
LEMMA GoingKeepsClocks ==
    ASSUME Clocks, NEW t \in Tickets, NEW at \in CallStates,
           pc' = [pc EXCEPT ![t] = at], since' = [since EXCEPT ![t] = 0],
           pulse' \in [Tickets -> [at : PulseStates, since : Nat]],
           \A s \in Tickets : pulse'[s].at = "step" => pulse'[s] = pulse[s]
    PROVE  Clocks' /\ pc'[t] = at /\ \A s \in Tickets : s # t => pc'[s] = pc[s]
<1>1. /\ pc' = [pc EXCEPT ![t] = at] /\ since' = [since EXCEPT ![t] = 0]
      /\ pc \in [Tickets -> CallStates] /\ since \in [Tickets -> Nat]
  BY DEF Clocks
<1>2. /\ pc' \in [Tickets -> CallStates] /\ since' \in [Tickets -> Nat]
      /\ pc'[t] = at /\ since'[t] = 0 /\ \A s \in Tickets : s # t => pc'[s] = pc[s] /\ since'[s] = since[s]
  BY <1>1
<1>3. LockWait \in Nat
  BY GateAssumption
<1>4. ASSUME NEW s \in Tickets
      PROVE  /\ pc'[s] \in {"arriving", "polling", "releasing"} => since'[s] <= LockWait
             /\ pulse'[s].at = "step" => pulse'[s].since <= LockWait
  BY <1>2, <1>3 DEF Clocks
<1> QED
  BY <1>2, <1>3, <1>4 DEF Clocks

LEMMA PulseKept ==
    ASSUME Clocks, UNCHANGED pulse
    PROVE  /\ pulse' \in [Tickets -> [at : PulseStates, since : Nat]]
           /\ \A s \in Tickets : pulse'[s].at = "step" => pulse'[s] = pulse[s]
BY DEF Clocks

LEMMA PulseSet ==
    ASSUME Clocks, NEW t \in Tickets, NEW p, p \in {Off, Sleeping, [at |-> "dead", since |-> 0]},
           pulse' = [pulse EXCEPT ![t] = p]
    PROVE  /\ pulse' \in [Tickets -> [at : PulseStates, since : Nat]]
           /\ \A s \in Tickets : pulse'[s].at = "step" => pulse'[s] = pulse[s]
<1>1. p \in [at : PulseStates, since : Nat] /\ p.at # "step"
  BY DEF Off, Sleeping, PulseStates
<1>2. pulse \in [Tickets -> [at : PulseStates, since : Nat]]
  BY DEF Clocks
<1> QED
  BY <1>1, <1>2

LEMMA EnteringKeepsClocks ==
    ASSUME Clocks, NEW t \in Tickets, Enters(t)
    PROVE  Clocks' /\ pc'[t] = "running" /\ \A s \in Tickets : s # t => pc'[s] = pc[s]
<1>1. Go(t, "running") /\ pulse' = [pulse EXCEPT ![t] = Sleeping]
  BY DEF Enters
<1> QED
  BY <1>1, PulseSet, GoingKeepsClocks DEF CallStates, Go

LEMMA LeavingKeepsClocks ==
    ASSUME Clocks, NEW t \in Tickets, Leaves(t)
    PROVE  Clocks' /\ pc'[t] = "releasing" /\ \A s \in Tickets : s # t => pc'[s] = pc[s]
<1>1. Go(t, "releasing") /\ pulse' = [pulse EXCEPT ![t] = Off]
  BY DEF Leaves
<1> QED
  BY <1>1, PulseSet, GoingKeepsClocks DEF CallStates, Go

\* What a call writes down keeps the invariant, if it is not a call that goes on arriving.
LEMMA WritingKeepsInv ==
    ASSUME GateInv, NEW t \in Tickets, NEW g, Turns(t, g), Write(g), Clocks',
           pc'[t] # "arriving" \/ Known(g) \subseteq Known(gate),
           \A s \in Tickets : s # t => pc'[s] = pc[s], pc'[t] = "arriving" => pc[t] = "arriving"
    PROVE  GateInv' /\ Pool!PoolNext
<1>1. /\ WellFormed(g) /\ Leased(g) /\ Known(g) \subseteq Known(gate) \cup {t}
      /\ InTurn' /\ Pool!PoolNext
  BY DEF Turns
<1>2. gate' = g
  BY WriteMoves
<1>3. WellFormed(gate)' /\ Leased(gate)' /\ Known(gate)' = Known(g)
  <2>1. Held(gate)' = Held(g) /\ Queued(gate)' = Queued(g) /\ Waiters(gate)' = Waiters(g)
    BY <1>2 DEF Held, Queued, Waiters
  <2> QED
    BY <1>1, <1>2, <2>1 DEF WellFormed, Leased, Known
<1>4. Fresh'
  BY <1>1, <1>3 DEF Fresh, GateInv
<1> QED
  BY <1>1, <1>3, <1>4 DEF GateInv

\* So does what leaves the record alone.
LEMMA LeavingAlone ==
    ASSUME GateInv, UNCHANGED <<gate, ahead>>, Clocks',
           \A s \in Tickets : pc'[s] = "arriving" => pc[s] = "arriving" \/ s \notin Known(gate)
    PROVE  GateInv' /\ UNCHANGED Pool!poolVars
<1>1. /\ Held(gate)' = Held(gate) /\ Queued(gate)' = Queued(gate) /\ Waiters(gate)' = Waiters(gate)
      /\ Known(gate)' = Known(gate)
  BY DEF Held, Queued, Waiters, Known
<1>2. WellFormed(gate)' /\ Leased(gate)'
  BY <1>1 DEF GateInv, WellFormed, Leased
<1>3. InTurn'
  BY <1>1 DEF GateInv, InTurn
<1>4. Fresh'
  BY <1>1 DEF GateInv, Fresh
<1> QED
  BY <1>1, <1>2, <1>3, <1>4 DEF GateInv, Pool!poolVars

\* The steps of a call.
LEMMA BeginStep ==
    ASSUME GateInv, NEW t \in Tickets, Begin(t)
    PROVE  GateInv' /\ UNCHANGED Pool!poolVars
<1>1. Go(t, "arriving") /\ t \notin Known(gate) /\ UNCHANGED <<gate, ahead>> /\ UNCHANGED pulse
  BY DEF Begin
<1>2. Clocks' /\ \A s \in Tickets : s # t => pc'[s] = pc[s]
  BY <1>1, PulseKept, GoingKeepsClocks DEF CallStates, Go, GateInv
<1> QED
  BY <1>1, <1>2, LeavingAlone

LEMMA FailsWrites ==
    ASSUME NEW g, NEW age, Fails(g, age)
    PROVE  \E h \in {gate, g} : Write(h)
BY DEF Fails

LEMMA ArriveStep ==
    ASSUME GateInv, NEW t \in Tickets, Arrive(t)
    PROVE  GateInv' /\ Pool!PoolNext
<1> DEFINE g == Arrived(gate, t, since[t])
<1>1. pc[t] = "arriving" /\ Write(g) /\ (Enters(t) \/ (Go(t, "sleeping") /\ UNCHANGED pulse))
  BY DEF Arrive, Works
<1>2. since[t] \in 0..LockWait /\ t \notin Known(gate)
  BY <1>1, StepAge DEF GateInv, Fresh
<1> HIDE DEF g
<1>3. Turns(t, g)
  BY <1>2, ArrivedTurns DEF GateInv, g
<1>4. Clocks' /\ pc'[t] # "arriving" /\ \A s \in Tickets : s # t => pc'[s] = pc[s]
  BY <1>1, PulseKept, GoingKeepsClocks, EnteringKeepsClocks DEF CallStates, Go, GateInv
<1> QED
  BY <1>1, <1>3, <1>4, WritingKeepsInv

LEMMA ArriveFailsStep ==
    ASSUME GateInv, NEW t \in Tickets, ArriveFails(t)
    PROVE  GateInv' /\ Pool!PoolNext
<1>1. pc[t] = "arriving" /\ Leaves(t)
  BY DEF ArriveFails
<1>2. PICK g \in {gate, Arrived(gate, t, since[t])} : Write(g)
  BY FailsWrites DEF ArriveFails
<1>3. since[t] \in 0..LockWait /\ t \notin Known(gate)
  BY <1>1, StepAge DEF GateInv, Fresh
<1>4. Turns(t, g)
  BY <1>2, <1>3, ArrivedTurns, StayingTurns DEF GateInv
<1>5. Clocks' /\ pc'[t] = "releasing" /\ \A s \in Tickets : s # t => pc'[s] = pc[s]
  BY <1>1, LeavingKeepsClocks DEF GateInv
<1> QED
  BY <1>2, <1>4, <1>5, WritingKeepsInv

LEMMA PollStepStep ==
    ASSUME GateInv, NEW t \in Tickets, PollStep(t)
    PROVE  GateInv' /\ Pool!PoolNext
<1> DEFINE g == PollOf(gate, t, since[t]).gate
<1>1. pc[t] = "polling" /\ Write(g) /\ (Enters(t) \/ Leaves(t) \/ (Go(t, "sleeping") /\ UNCHANGED pulse))
  BY DEF PollStep, Works
<1>2. since[t] \in 0..LockWait
  BY <1>1, StepAge DEF GateInv
<1> HIDE DEF g
<1>3. Turns(t, g)
  BY <1>2, PolledTurns DEF GateInv, g
<1>4. Clocks' /\ pc'[t] # "arriving" /\ \A s \in Tickets : s # t => pc'[s] = pc[s]
  BY <1>1, PulseKept, GoingKeepsClocks, EnteringKeepsClocks, LeavingKeepsClocks DEF CallStates, Go, GateInv
<1> QED
  BY <1>1, <1>3, <1>4, WritingKeepsInv

LEMMA PollFailsStep ==
    ASSUME GateInv, NEW t \in Tickets, PollFails(t)
    PROVE  GateInv' /\ Pool!PoolNext
<1>1. /\ pc[t] = "polling" /\ UNCHANGED pulse
      /\ pc' = [pc EXCEPT ![t] = "sleeping"] /\ since' = [since EXCEPT ![t] = 0]
  BY DEF PollFails
<1>2. PICK g \in {gate, PollOf(gate, t, since[t]).gate} : Write(g)
  BY FailsWrites DEF PollFails
<1>3. since[t] \in 0..LockWait
  BY <1>1, StepAge DEF GateInv
<1>4. Turns(t, g)
  BY <1>2, <1>3, PolledTurns, StayingTurns DEF GateInv
<1>5. Clocks' /\ pc'[t] = "sleeping" /\ \A s \in Tickets : s # t => pc'[s] = pc[s]
  BY <1>1, PulseKept, GoingKeepsClocks DEF CallStates, Go, GateInv
<1> QED
  BY <1>2, <1>4, <1>5, WritingKeepsInv

LEMMA ReleaseStep ==
    ASSUME GateInv, NEW t \in Tickets, Release(t) \/ ReleaseFails(t)
    PROVE  GateInv' /\ Pool!PoolNext
<1>1. Go(t, "none") /\ UNCHANGED pulse
  BY DEF Release, ReleaseFails
<1>2. PICK g \in {gate, Released(gate, t, since[t])} : Write(g)
  BY FailsWrites DEF Release, ReleaseFails, Works
<1>3. Turns(t, g)
  BY <1>2, ReleasedTurns, StayingTurns DEF GateInv
<1>4. Clocks' /\ pc'[t] = "none" /\ \A s \in Tickets : s # t => pc'[s] = pc[s]
  BY <1>1, PulseKept, GoingKeepsClocks DEF CallStates, Go, GateInv
<1> QED
  BY <1>2, <1>3, <1>4, WritingKeepsInv

LEMMA PulseStepStep ==
    ASSUME GateInv, NEW t \in Tickets, PulseStep(t) \/ PulseFails(t)
    PROVE  GateInv' /\ Pool!PoolNext
<1> DEFINE d == pulse[t].since
<1>1. PICK g \in {gate, Pulsed(gate, t, d)} : Write(g)
  BY FailsWrites DEF PulseStep, PulseFails, Works
<1>2. PICK p \in {Sleeping, [at |-> "dead", since |-> 0]} : pulse' = [pulse EXCEPT ![t] = p]
  BY DEF PulseStep, PulseFails
<1>3. pulse[t].at = "step" /\ pc' = pc /\ since' = since
  BY DEF PulseStep, PulseFails
<1>4. d \in 0..LockWait
  BY <1>3, StepAge DEF GateInv
<1> HIDE DEF d
<1>5. Turns(t, g) /\ Known(g) \subseteq Known(gate)
  <2>1. Turns(t, gate) /\ Turns(t, Pulsed(gate, t, d))
    BY <1>4, PulsedTurns, StayingTurns DEF GateInv
  <2>2. Known(Pulsed(gate, t, d)) \subseteq Known(gate)
    BY PulsedShrinks, KnownOfShrunk DEF GateInv
  <2> QED
    BY <1>1, <2>1, <2>2
<1>6. Clocks'
  <2>1. /\ pulse' \in [Tickets -> [at : PulseStates, since : Nat]]
        /\ \A s \in Tickets : pulse'[s].at = "step" => pulse'[s] = pulse[s]
    BY <1>2, PulseSet DEF GateInv
  <2> QED
    BY <1>3, <2>1 DEF Clocks, GateInv
<1> QED
  BY <1>1, <1>3, <1>5, <1>6, WritingKeepsInv

LEMMA GoneStep ==
    ASSUME GateInv, NEW t \in Tickets, Finish(t) \/ Die(t)
    PROVE  GateInv' /\ UNCHANGED Pool!poolVars
<1>1. UNCHANGED <<gate, ahead>>
  BY DEF Finish, Die
<1>2. Clocks' /\ pc'[t] # "arriving" /\ \A s \in Tickets : s # t => pc'[s] = pc[s]
  <2>1. CASE Finish(t)
    BY <2>1, LeavingKeepsClocks DEF Finish, GateInv
  <2>2. CASE Die(t)
    BY <2>2, PulseSet, GoingKeepsClocks DEF Die, Go, CallStates, GateInv
  <2> QED
    BY <2>1, <2>2
<1> QED
  BY <1>1, <1>2, LeavingAlone

\* Time passes: nobody comes or goes, and no step grows older than its lock wait.
LEMMA TickKeepsClocks ==
    ASSUME Clocks, Tick
    PROVE  Clocks' /\ \A t \in Tickets : pc'[t] = "arriving" => pc[t] = "arriving"
<1>1. /\ \A t \in Tickets : ~Due(t)
      /\ pc' = [t \in Tickets |-> IF WakesUp(t) THEN "polling" ELSE pc[t]]
      /\ since' = [t \in Tickets |-> IF pc[t] \in {"none", "running"} \/ WakesUp(t) THEN 0 ELSE since[t] + 1]
  BY DEF Tick
<1>2. pulse' = [t \in Tickets |-> IF PulseWakes(t) THEN [at |-> "step", since |-> 0]
                                  ELSE IF pulse[t].at \in {"off", "dead"} THEN pulse[t]
                                  ELSE [pulse[t] EXCEPT !.since = @ + 1]]
  BY DEF Tick
<1>3. /\ pc \in [Tickets -> CallStates] /\ since \in [Tickets -> Nat]
      /\ pulse \in [Tickets -> [at : PulseStates, since : Nat]]
  BY DEF Clocks
<1>4. pc' \in [Tickets -> CallStates] /\ since' \in [Tickets -> Nat]
  BY <1>1, <1>3 DEF CallStates
<1>5. ASSUME NEW t \in Tickets
      PROVE  /\ pc'[t] \in {"arriving", "polling", "releasing"} => since'[t] <= LockWait
             /\ pc'[t] = "arriving" => pc[t] = "arriving"
  <2>1. LockWait \in Nat /\ LockWaitOf(t) \in 0..LockWait /\ since[t] \in Nat
    BY <1>3, StepAge, GateAssumption
  <2>2. CASE WakesUp(t)
    BY <1>1, <2>1, <2>2
  <2>3. CASE ~WakesUp(t)
    <3>1. pc'[t] = pc[t] /\ (pc[t] \in {"arriving", "polling", "releasing"} => since'[t] = since[t] + 1)
      BY <1>1, <2>3
    <3>2. pc[t] \in {"arriving", "polling", "releasing"} => ~(since[t] >= LockWaitOf(t))
      BY <1>1 DEF Due
    <3> QED
      BY <2>1, <3>1, <3>2
  <2> QED
    BY <2>2, <2>3
<1>6. ASSUME NEW t \in Tickets
      PROVE  /\ pulse'[t] \in [at : PulseStates, since : Nat]
             /\ pulse'[t].at = "step" => pulse'[t].since <= LockWait
  <2>1. /\ LockWait \in Nat /\ LockWaitOf(t) \in 0..LockWait /\ pulse[t].since \in Nat /\ pulse[t].at \in PulseStates
        /\ pulse[t] = [at |-> pulse[t].at, since |-> pulse[t].since]
    BY <1>3, StepAge, GateAssumption
  <2>2. CASE PulseWakes(t)
    <3>1. pulse'[t] = [at |-> "step", since |-> 0]
      BY <1>2, <2>2
    <3> QED
      BY <2>1, <3>1 DEF PulseStates
  <2>3. CASE ~PulseWakes(t) /\ pulse[t].at \in {"off", "dead"}
    <3>1. pulse'[t] = pulse[t]
      BY <1>2, <2>3
    <3> QED
      BY <1>3, <2>3, <3>1
  <2>4. CASE ~PulseWakes(t) /\ pulse[t].at \notin {"off", "dead"}
    <3>1. pulse'[t] = [at |-> pulse[t].at, since |-> pulse[t].since + 1]
      BY <1>2, <1>3, <2>1, <2>4
    <3>2. pulse[t].at = "step" => ~(pulse[t].since >= LockWaitOf(t))
      BY <1>1 DEF Due
    <3> QED
      BY <2>1, <3>1, <3>2
  <2> QED
    BY <2>2, <2>3, <2>4
<1>7. pulse' \in [Tickets -> [at : PulseStates, since : Nat]]
  BY <1>2, <1>6
<1> QED
  BY <1>4, <1>5, <1>6, <1>7 DEF Clocks

LEMMA AgedKeeps ==
    ASSUME WellFormed(gate), Leased(gate), NEW late
    PROVE  /\ WellFormed(Aged(gate, late)) /\ Leased(Aged(gate, late)) /\ Shrunk(gate, Aged(gate, late))
           /\ Held(Aged(gate, late)) = Held(gate) /\ Queued(Aged(gate, late)) = Queued(gate)
           /\ Aged(gate, late).order = gate.order
<1> DEFINE h == Aged(gate, late)
           left == [t \in Held(gate) |-> IF gate.inflight[t] > -LockWait THEN gate.inflight[t] - 1 ELSE gate.inflight[t]]
           meta == [t \in DOMAIN gate.meta |->
               IF t \in Held(gate) THEN gate.meta[t]
               ELSE [beat |-> Capped(gate.meta[t].beat, Stale + LockWait + 1),
                     over |-> gate.meta[t].over \/ t \in late]]
<1>1. h = [inflight |-> left, meta |-> meta, queues |-> gate.queues, order |-> gate.order]
  BY DEF Aged
<1>2. left = [t \in Held(gate) |-> left[t]] /\ meta = [t \in DOMAIN gate.meta |-> meta[t]]
  OBVIOUS
<1>3. \A t \in Held(gate) : left[t] \in (-LockWait)..Lease
  <2>1. LockWait \in Nat /\ Lease \in Nat
    BY GateAssumption
  <2> QED
    BY <2>1 DEF Leased
<1> HIDE DEF h, left, meta
<1>4. /\ h = [inflight |-> h.inflight, order |-> gate.order, queues |-> gate.queues, meta |-> h.meta]
      /\ h.inflight = left /\ h.meta = meta /\ h.order = gate.order
  BY <1>1
<1>5. WellFormed(h) /\ Shrunk(gate, h) /\ Held(h) = Held(gate) /\ Queued(h) = Queued(gate)
  BY <1>2, <1>4, TimesShrink
<1>6. Leased(h)
  BY <1>3, <1>4, <1>5 DEF Leased
<1> QED
  BY <1>4, <1>5, <1>6 DEF h

LEMMA TickStep ==
    ASSUME GateInv, Tick
    PROVE  GateInv' /\ UNCHANGED Pool!poolVars
<1>0. PICK late : gate' = Aged(gate, late)
  BY DEF Tick
<1>1. gate' = Aged(gate, late) /\ ahead' = ahead
  BY <1>0 DEF Tick
<1>2. /\ WellFormed(gate') /\ Leased(gate') /\ Held(gate') = Held(gate) /\ Queued(gate') = Queued(gate)
      /\ gate'.order = gate.order
  BY <1>1, AgedKeeps DEF GateInv
<1>3. Waiters(gate') = Waiters(gate) /\ Known(gate') = Known(gate)
  <2>1. Known(gate') = DOMAIN gate'.meta /\ Known(gate) = DOMAIN gate.meta
    BY <1>2, WhoWaits DEF GateInv
  <2> QED
    BY <1>2, WhoWaits DEF GateInv, Known, Queued, WellFormed
<1>4. /\ WellFormed(gate)' /\ Leased(gate)' /\ Held(gate)' = Held(gate) /\ Queued(gate)' = Queued(gate)
      /\ Waiters(gate)' = Waiters(gate) /\ Known(gate)' = Known(gate) /\ gate'.order = gate.order
  BY <1>2, <1>3 DEF WellFormed, Leased, Held, Queued, Waiters, Known
<1>5. Clocks' /\ Fresh'
  BY <1>4, TickKeepsClocks DEF GateInv, Fresh
<1>6. InTurn'
  BY <1>1, <1>4 DEF GateInv, InTurn
<1> QED
  BY <1>1, <1>4, <1>5, <1>6 DEF GateInv, Pool!poolVars
-----------------------------------------------------------------------------
(* The specification. *)

LEMMA StartInv ==
    ASSUME Init
    PROVE  GateInv /\ Pool!PoolInit
<1>1. /\ gate.inflight = <<>> /\ gate.order = <<>> /\ gate.meta = <<>> /\ gate.queues = [u \in Users |-> <<>>]
      /\ gate = [inflight |-> gate.inflight, order |-> gate.order, queues |-> gate.queues, meta |-> gate.meta]
  BY DEF Init, fresh_state
<1>2. Held(gate) = {} /\ Queued(gate) = {} /\ Waiters(gate) = {} /\ Known(gate) = {} /\ DOMAIN gate.meta = {}
  BY <1>1 DEF Held, Queued, Waiters, Known
<1>3. WellFormed(gate)
  <2>1. IsInjective(<<>>) /\ Range(<<>>) = {}
    BY DEF IsInjective, Range
  <2>2. <<>> \in Seq(Tickets) /\ <<>> \in Seq(Users)
    OBVIOUS
  <2>3. gate.inflight = [t \in Held(gate) |-> gate.inflight[t]] /\ gate.meta = [t \in DOMAIN gate.meta |-> gate.meta[t]]
    BY <1>1, <1>2
  <2> QED
    BY <1>1, <1>2, <2>1, <2>2, <2>3 DEF WellFormed
<1>4. /\ pc = [t \in Tickets |-> "none"] /\ since = [t \in Tickets |-> 0] /\ pulse = [t \in Tickets |-> Off]
      /\ ahead = {}
  BY DEF Init
<1>5. Clocks
  BY <1>4 DEF Clocks, CallStates, PulseStates, Off
<1>6. Leased(gate) /\ InTurn /\ Fresh
  BY <1>2, <1>4 DEF Leased, InTurn, Fresh
<1> QED
  BY <1>2, <1>3, <1>4, <1>5, <1>6 DEF GateInv, Pool!PoolInit

LEMMA StepInv ==
    ASSUME GateInv, [Next]_vars
    PROVE  GateInv' /\ [Pool!PoolNext]_(Pool!poolVars)
<1>1. CASE Tick
  BY <1>1, TickStep
<1>2. ASSUME NEW t \in Tickets, Step(t)
      PROVE  GateInv' /\ [Pool!PoolNext]_(Pool!poolVars)
  <2>1. CASE Begin(t)
    BY <2>1, BeginStep
  <2>2. CASE Arrive(t)
    BY <2>2, ArriveStep
  <2>3. CASE ArriveFails(t)
    BY <2>3, ArriveFailsStep
  <2>4. CASE PollStep(t)
    BY <2>4, PollStepStep
  <2>5. CASE PollFails(t)
    BY <2>5, PollFailsStep
  <2>6. CASE PulseStep(t) \/ PulseFails(t)
    BY <2>6, PulseStepStep
  <2>7. CASE Release(t) \/ ReleaseFails(t)
    BY <2>7, ReleaseStep
  <2>8. CASE Finish(t) \/ Die(t)
    BY <2>8, GoneStep
  <2> QED
    BY <1>2, <2>1, <2>2, <2>3, <2>4, <2>5, <2>6, <2>7, <2>8 DEF Step
<1>3. CASE UNCHANGED vars
  <2>1. UNCHANGED <<gate, ahead>> /\ UNCHANGED <<pc, since, pulse>>
    BY <1>3 DEF vars
  <2>2. Clocks'
    BY <2>1 DEF GateInv, Clocks
  <2> QED
    BY <2>1, <2>2, LeavingAlone
<1> QED
  BY <1>1, <1>2, <1>3 DEF Next

\* Whatever callers do and however they fail, the record the gate keeps in Redis is
\* well formed: every ticket it knows holds a lease or stands once in the queue of its
\* user, and the rotation lists the waiting users once each.  _grant, release, _purge
\* and the arrivals (model_gate.py) each keep this in their own way.
THEOREM TypeCorrect == Spec => []TypeOK
<1>1. Init => GateInv
  BY StartInv
<1>2. GateInv /\ [Next]_vars => GateInv'
  BY StepInv
<1>3. GateInv => TypeOK
  <2> SUFFICES ASSUME GateInv PROVE TypeOK
    OBVIOUS
  <2>1. gate.inflight \in [Held(gate) -> (-LockWait)..Lease]
    BY DEF GateInv, WellFormed, Leased
  <2>2. pc \in [Tickets -> {"none", "arriving", "sleeping", "polling", "running", "releasing"}]
    BY DEF GateInv, Clocks, CallStates
  <2> QED
    BY <2>1, <2>2 DEF TypeOK, GateInv, WellFormed, InTurn
<1> QED
  BY <1>1, <1>2, <1>3, PTL DEF Spec

\* The gate implements the pool of slots: callers enter only below the limit and past
\* nobody who waits, and while a user waits every other user is served at most once.
\* Fair turns are an effect of _grant moving a user to the end of the rotation, of the
\* arrivals and of _purge keeping the order of the others.
THEOREM GateKeepsThePoolPromise == Spec => KeepsPoolPromise
<1>1. Init => GateInv /\ Pool!PoolInit
  BY StartInv
<1>2. GateInv /\ [Next]_vars => GateInv' /\ [Pool!PoolNext]_(Pool!poolVars)
  BY StepInv
<1> QED
  BY <1>1, <1>2, PTL DEF Spec, KeepsPoolPromise, Pool!PoolSpec

Slots == IsFiniteSet(Held(gate)) /\ Cardinality(Held(gate)) <= Limit

LEMMA SlotsKept ==
    ASSUME Slots, [Pool!PoolNext]_(Pool!poolVars)
    PROVE  Slots'
<1>1. ASSUME NEW gone, NEW t, Cardinality(Held(gate) \ gone) < Limit, Held(gate)' = (Held(gate) \ gone) \cup {t}
      PROVE  Slots'
  <2> DEFINE left == Held(gate) \ gone
  <2>1. IsFiniteSet(left)
    BY FS_Subset DEF Slots
  <2>2. Cardinality(left) \in Nat /\ Limit \in Nat
    BY <2>1, FS_CardinalityType, GateAssumption
  <2> HIDE DEF left
  <2>3. IsFiniteSet(left \cup {t}) /\ Cardinality(left \cup {t}) <= Cardinality(left) + 1
    BY <2>1, <2>2, FS_AddElement
  <2>4. Held(gate)' = left \cup {t} /\ Cardinality(left) < Limit
    BY <1>1 DEF left
  <2>5. Cardinality(left \cup {t}) <= Limit
    <3>1. Cardinality(left \cup {t}) \in Nat
      BY <2>3, FS_CardinalityType
    <3> QED
      BY <2>2, <2>3, <2>4, <3>1
  <2> QED
    BY <2>3, <2>4, <2>5 DEF Slots
<1>2. ASSUME NEW gone, Held(gate)' = Held(gate) \ gone
      PROVE  Slots'
  <2>1. IsFiniteSet(Held(gate) \ gone) /\ Cardinality(Held(gate) \ gone) <= Cardinality(Held(gate))
    BY FS_Subset DEF Slots
  <2>2. Cardinality(Held(gate) \ gone) \in Nat /\ Cardinality(Held(gate)) \in Nat /\ Limit \in Nat
    BY <2>1, FS_CardinalityType, GateAssumption DEF Slots
  <2> QED
    BY <1>2, <2>1, <2>2 DEF Slots
<1>3. CASE UNCHANGED Pool!poolVars
  <2>1. Held(gate)' = Held(gate) \ {}
    BY <1>3 DEF Pool!poolVars
  <2> QED
    BY <1>2, <2>1
<1>4. CASE Pool!PoolNext
  <2>1. PICK gone : \/ Pool!Leave(gone)
                    \/ \E t \in Tickets : Pool!Enter(gone, t) \/ Pool!Join(gone, t) \/ Pool!Serve(gone, t)
    BY <1>4 DEF Pool!PoolNext
  <2>2. CASE Held(gate)' = Held(gate) \ gone
    BY <1>2, <2>2
  <2>3. CASE \E t \in Tickets : Pool!Enter(gone, t) \/ Pool!Serve(gone, t)
    <3>1. PICK t \in Tickets : Pool!Enter(gone, t) \/ Pool!Serve(gone, t)
      BY <2>3
    <3>2. Pool!Cardinality(Held(gate) \ gone) < Limit /\ Held(gate)' = (Held(gate) \ gone) \cup {t}
      BY <3>1 DEF Pool!Enter, Pool!Serve
    <3>3. Cardinality(Held(gate) \ gone) < Limit
      BY <3>2, SameCount
    <3> QED
      BY <1>1, <3>2, <3>3
  <2> QED
    BY <2>1, <2>2, <2>3 DEF Pool!Leave, Pool!Join
<1> QED
  BY <1>3, <1>4

\* At no time does the gate's record show more leases than the model's limit, whatever
\* clocks the steps judge by and however steps fail: apply (model_gate.py) counts the
\* leases it has just purged before it gives another.
THEOREM LeasesWithinLimit == Spec => [](Cardinality(Held(gate)) <= Limit)
<1>1. Init => GateInv /\ Slots
  <2> SUFFICES ASSUME Init PROVE GateInv /\ Slots
    OBVIOUS
  <2>1. Held(gate) = {}
    BY DEF Init, fresh_state, Held
  <2> QED
    BY <2>1, StartInv, FS_EmptySet, GateAssumption DEF Slots
<1>2. GateInv /\ Slots /\ [Next]_vars => GateInv' /\ Slots'
  BY StepInv, SlotsKept
<1>3. Slots => Cardinality(Held(gate)) <= Limit
  BY DEF Slots
<1> QED
  BY <1>1, <1>2, <1>3, PTL DEF Spec
=============================================================================
