-------------------------- MODULE JwtKeyringProofs --------------------------
(***************************************************************************)
(* Proofs about JwtKeyring for every number of kids, processes and tokens, *)
(* every rotation period and every delay within the assumptions.           *)
(*                                                                         *)
(* A pass changes each row in one of six ways (RowChange); every invariant *)
(* is shown to survive these ways, not the actions one by one.             *)
(***************************************************************************)
EXTENDS JwtKeyring, TLAPS

(* The ways in which a transaction with moment m may change a row, and     *)
(* what holds of the ring when it does.                                    *)
Announced(k, m) == keys[k].state = "unused" /\ keys'[k] = NewKey("next", m)
Installed(k, m) == keys[k].state = "unused" /\ keys'[k] = NewKey("active", m)
TakesOver(k, m) ==
    /\ keys[k].state = "next"
    /\ m - keys[k].created >= Cache
    /\ keys'[k] = [keys[k] EXCEPT !.state = "active", !.activated = m]
StepsBack(k, m) ==
    /\ keys[k].state = "active"
    /\ keys[k].activated < m
    /\ keys'[k] = [keys[k] EXCEPT !.state = "retiring", !.retiring = m]
AgesOut(k, m) ==
    /\ keys[k].state = "retiring"
    /\ m >= keys[k].retiring + RetiringWindow
    /\ keys'[k] = [keys[k] EXCEPT !.state = "retired", !.retired = m]
IsKilled(k, m) ==
    /\ keys[k].state \in Published
    /\ k \in killed'
    /\ keys'[k] = [keys[k] EXCEPT !.state = "retired", !.retired = m]

RowChange(k, m) ==
    \/ keys'[k] = keys[k]
    \/ Announced(k, m) \/ Installed(k, m)
    \/ TakesOver(k, m) \/ StepsBack(k, m) \/ AgesOut(k, m) \/ IsKilled(k, m)

PassCommits(w) == CreateNext(w) \/ Advance(w) \/ EmergencyRotate(w)

USE DEF ring, issue, copies

LEMMA PassType ==
    ASSUME TypeOK, NEW w \in Workers, passes[w].kind # "none"
    PROVE  passes[w] # NoPass /\ passes[w].moment \in Nat
BY DEF TypeOK, NoPass

(* What advance_jwt_keyring does to a ring on which NextDue has been dealt *)
(* with: r is the ring before Promote.                                     *)
LEMMA AdvanceRows ==
    ASSUME TypeOK, NEW m \in Nat, NEW active \in InState(keys, "active"),
           NEW period \in Periods,
           NEW r \in [Kids -> KeyRecord],
           keys' = RetireOld(Promote(r, active, m, period), m),
           \A k \in Kids : r[k] = keys[k]
               \/ (keys[k].state = "unused" /\ r[k] = NewKey("next", m))
    PROVE  \A k \in Kids : RowChange(k, m)
<1> SUFFICES ASSUME NEW k \in Kids PROVE RowChange(k, m)
  OBVIOUS
<1> USE SpanAssumption
<1> DEFINE ready == Promotable(r, active, m, period)
           p == Promote(r, active, m, period)
<1>1. active \in Kids /\ keys[active].state = "active" /\ r[active] = keys[active]
      /\ keys[active].activated \in Nat
  BY DEF InState, TypeOK
<1>2. ASSUME NEW j \in ready
      PROVE  /\ j \in Kids /\ r[j] = keys[j] /\ keys[j].state = "next"
             /\ m - keys[j].created >= Cache
             /\ m - keys[active].activated >= period
  <2>1. j \in Kids /\ r[j].state = "next" /\ m - r[j].created >= Cache
        /\ m - r[active].activated >= period
    BY <1>2 DEF Promotable, InState
  <2>2. CASE r[j] = NewKey("next", m)
    BY <2>1, <2>2 DEF NewKey
  <2> QED
    BY <2>1, <2>2, <1>1
<1>3. keys'[k] = IF p[k].state = "retiring" /\ m >= p[k].retiring + RetiringWindow
                 THEN [p[k] EXCEPT !.state = "retired", !.retired = m]
                 ELSE p[k]
  BY DEF RetireOld
<1>4. CASE k \in ready
  <2>1. p[k] = [keys[k] EXCEPT !.state = "active", !.activated = m]
    BY <1>4, <1>2 DEF Promote
  <2>2. p[k].state = "active"
    BY <2>1 DEF TypeOK, KeyRecord
  <2> QED
    BY <1>2, <1>3, <1>4, <2>1, <2>2 DEF RowChange, TakesOver
<1>5. CASE k \notin ready /\ k = active /\ ready # {}
  <2>1. p[k] = [keys[k] EXCEPT !.state = "retiring", !.retiring = m]
    BY <1>5, <1>1 DEF Promote
  <2>2. p[k].retiring = m /\ RetiringWindow \in Nat \ {0}
    BY <2>1 DEF TypeOK, KeyRecord, RetiringWindow
  <2>3. keys[k].activated < m
    BY <1>1, <1>2, <1>5, PeriodsAssumption
  <2> QED
    BY <1>1, <1>3, <1>5, <2>1, <2>2, <2>3 DEF RowChange, StepsBack
<1>6. CASE k \notin ready /\ ~(k = active /\ ready # {})
  <2>1. p[k] = r[k]
    BY <1>6 DEF Promote
  <2>2. CASE r[k] = keys[k]
    BY <1>3, <2>1, <2>2 DEF RowChange, AgesOut
  <2>3. CASE keys[k].state = "unused" /\ r[k] = NewKey("next", m)
    <3>1. r[k].state = "next"
      BY <2>3 DEF NewKey
    <3> QED
      BY <1>3, <2>1, <2>3, <3>1 DEF RowChange, Announced
  <2> QED
    BY <2>2, <2>3
<1> QED
  BY <1>4, <1>5, <1>6

LEMMA NewKeyType ==
    ASSUME NEW m \in Nat, NEW s \in {"next", "active"}
    PROVE  NewKey(s, m) \in KeyRecord
BY DEF NewKey, KeyRecord, States, Time, Never

LEMMA CommitRows ==
    ASSUME TypeOK, NEW w \in Workers, PassCommits(w)
    PROVE  /\ passes[w] # NoPass /\ passes[w].moment \in Nat
           /\ keys' = [k \in Kids |-> keys'[k]]
           /\ \A k \in Kids : RowChange(k, passes[w].moment)
<1> DEFINE m == passes[w].moment
<1>0. passes[w] # NoPass /\ m \in Nat
  BY PassType DEF PassCommits, CreateNext, Advance, EmergencyRotate
<1>1. CASE CreateNext(w)
  <2>1. PICK active \in InState(keys, "active"), period \in Periods,
             k \in InState(keys, "unused") :
               keys' = RetireOld(Promote([keys EXCEPT ![k] = NewKey("next", m)],
                                         active, m, period), m)
    BY <1>1 DEF CreateNext
  <2> DEFINE r == [keys EXCEPT ![k] = NewKey("next", m)]
  <2>2. r \in [Kids -> KeyRecord]
    BY <1>0, NewKeyType DEF TypeOK
  <2>3. \A j \in Kids : r[j] = keys[j]
               \/ (keys[j].state = "unused" /\ r[j] = NewKey("next", m))
    BY <2>1 DEF TypeOK, InState
  <2>4. \A j \in Kids : RowChange(j, m)
    BY <1>0, <2>1, <2>2, <2>3, AdvanceRows
  <2> QED
    BY <1>0, <2>1, <2>4 DEF RetireOld
<1>2. CASE Advance(w)
  <2>1. PICK active \in InState(keys, "active"), period \in Periods :
               keys' = RetireOld(Promote(keys, active, m, period), m)
    BY <1>2 DEF Advance
  <2>2. \A j \in Kids : RowChange(j, m)
    BY <1>0, <2>1, AdvanceRows DEF TypeOK
  <2> QED
    BY <1>0, <2>1, <2>2 DEF RetireOld
<1>3. CASE EmergencyRotate(w)
  <2>1. PICK k \in InState(keys, "unused") :
               keys' = [RetireAll(keys, m) EXCEPT ![k] = NewKey("active", m)]
    BY <1>3 DEF EmergencyRotate
  <2>2. keys' = [j \in Kids |-> keys'[j]]
    BY <2>1 DEF RetireAll
  <2>3. ASSUME NEW j \in Kids PROVE RowChange(j, m)
    <3>1. CASE j = k
      BY <2>1, <3>1 DEF RetireAll, InState, RowChange, Installed
    <3>2. CASE j # k /\ keys[j].state \in Published
      BY <1>3, <2>1, <3>2 DEF RetireAll, RowChange, IsKilled, EmergencyRotate
    <3>3. CASE j # k /\ keys[j].state \notin Published
      BY <2>1, <3>3 DEF RetireAll, RowChange
    <3> QED
      BY <3>1, <3>2, <3>3
  <2> QED
    BY <1>0, <2>2, <2>3
<1> QED
  BY <1>1, <1>2, <1>3 DEF PassCommits

-----------------------------------------------------------------------------
(* The type invariant.                                                     *)

(* A row keeps its type and the dates of its state through every change.   *)
RowOK(row) ==
    /\ row \in KeyRecord
    /\ row.state # "unused" => row.created \in Nat
    /\ row.state \in {"active", "retiring"} => row.activated \in Nat
    /\ row.state = "retiring" => row.retiring \in Nat
    /\ row.state = "retired" => row.retired \in Nat

LEMMA RowTypes ==
    ASSUME TypeOK, NEW k \in Kids
    PROVE  RowOK(keys[k])
BY DEF TypeOK, RowOK

LEMMA ChangedRowTypes ==
    ASSUME TypeOK, NEW k \in Kids, NEW m \in Nat, RowChange(k, m)
    PROVE  RowOK(keys'[k])
<1>0. RowOK(keys[k])
  BY RowTypes
<1>1. CASE keys'[k] = keys[k]
  BY <1>0, <1>1
<1>2. ASSUME NEW s \in {"next", "active"}, keys'[k] = NewKey(s, m)
      PROVE  RowOK(keys'[k])
  BY <1>2 DEF NewKey, RowOK, KeyRecord, States, Time, Never
<1>3. CASE TakesOver(k, m)
  BY <1>0, <1>3 DEF TakesOver, RowOK, KeyRecord, States, Time
<1>4. CASE StepsBack(k, m)
  BY <1>0, <1>4 DEF StepsBack, RowOK, KeyRecord, States, Time
<1>5. CASE AgesOut(k, m)
  BY <1>0, <1>5 DEF AgesOut, RowOK, KeyRecord, States, Time
<1>6. CASE IsKilled(k, m)
  BY <1>0, <1>6 DEF IsKilled, RowOK, KeyRecord, States, Time, Published
<1> QED
  BY <1>1, <1>2, <1>3, <1>4, <1>5, <1>6 DEF RowChange, Announced, Installed

LEMMA DocumentType ==
    ASSUME TypeOK
    PROVE  Document \in Documents /\ NoDocument \in Documents
<1>1. ASSUME NEW k \in Kids PROVE RowOK(keys[k])
  BY RowTypes
<1> QED
  BY <1>1 DEF Document, Documents, NoDocument, Absent, Policy, RowOK, KeyRecord,
              Published, Time, Never

LEMMA InitTypes == Init => TypeOK
<1> SUFFICES ASSUME Init PROVE TypeOK
  OBVIOUS
<1>1. RowOK(NewKey("active", 0)) /\ RowOK(NoKey)
  BY DEF NewKey, NoKey, RowOK, KeyRecord, States, Time, Never
<1>2. keys \in [Kids -> KeyRecord]
  BY <1>1 DEF Init, RowOK
<1>3. NoDocument \in Documents
  BY DEF NoDocument, Documents, Absent, Policy, Published, Time, Never
<1>4. /\ cache \in [Verifiers -> [at : Time, doc : Documents]]
      /\ fetch \in [Verifiers -> [since : Time, doc : Documents]]
      /\ refetch \in [Verifiers -> Time]
  BY <1>3 DEF Init, NotFetching, Time, Never
<1>5. \A k \in Kids :
          /\ keys[k].state # "unused" => keys[k].created \in Nat
          /\ keys[k].state \in {"active", "retiring"} => keys[k].activated \in Nat
          /\ keys[k].state = "retiring" => keys[k].retiring \in Nat
          /\ keys[k].state = "retired" => keys[k].retired \in Nat
  BY <1>1 DEF Init, RowOK
<1>6. passes \in [Workers -> [kind : {"none", "advance", "emergency"}, moment : Time]]
      /\ signing \in [Signers -> [iat : Time, life : Nat]]
  BY DEF Init, NoPass, NotSigning, Time, Never
<1> QED
  BY <1>2, <1>4, <1>5, <1>6 DEF Init, TypeOK

LEMMA StepTypes == TypeOK /\ [Next]_vars => TypeOK'
<1> SUFFICES ASSUME TypeOK, [Next]_vars PROVE TypeOK'
  OBVIOUS
<1> USE DEF Time, Never
<1>1. CASE Tick
  BY <1>1 DEF Tick, TypeOK
<1>2. ASSUME NEW w \in Workers, NEW kind \in {"advance", "emergency"}, TakeMoment(w, kind)
      PROVE  TypeOK'
  BY <1>2 DEF TakeMoment, TypeOK, NoPass
<1>3. ASSUME NEW w \in Workers, PassCommits(w) PROVE TypeOK'
  <2>1. /\ passes[w].moment \in Nat
        /\ keys' = [k \in Kids |-> keys'[k]]
        /\ \A k \in Kids : RowChange(k, passes[w].moment)
    BY <1>3, CommitRows
  <2>2. \A k \in Kids : RowOK(keys'[k])
    BY <2>1, ChangedRowTypes
  <2>3. keys' \in [Kids -> KeyRecord]
    BY <2>1, <2>2 DEF RowOK
  <2>4. killed' \subseteq Kids
    BY <1>3 DEF PassCommits, CreateNext, Advance, EmergencyRotate, TypeOK
  <2>5. /\ passes' = [passes EXCEPT ![w] = NoPass]
        /\ UNCHANGED <<now, issue, copies>>
    BY <1>3 DEF PassCommits, CreateNext, Advance, EmergencyRotate
  <2> QED
    BY <2>2, <2>3, <2>4, <2>5 DEF TypeOK, RowOK, NoPass
<1>4. ASSUME NEW w \in Workers, PassDies(w) PROVE TypeOK'
  BY <1>4 DEF PassDies, TypeOK, NoPass
<1>5. ASSUME NEW s \in Signers, NEW life \in Lives, DateToken(s, life) PROVE TypeOK'
  BY <1>5, LivesAssumption, SpanAssumption DEF DateToken, TypeOK, NotSigning
<1>6. ASSUME NEW s \in Signers, SignToken(s) PROVE TypeOK'
  <2>1. signing[s].iat \in Nat /\ signing[s].life \in Nat
    BY <1>6 DEF SignToken, TypeOK
  <2> QED
    BY <1>6, <2>1 DEF SignToken, TypeOK, NotSigning, InState
<1>7. ASSUME NEW v \in Verifiers, VerifierStep(v) PROVE TypeOK'
  <2>1. fetch' \in [Verifiers -> [since : Time, doc : Documents]]
    <3>1. NotFetching \in [since : Time, doc : Documents]
      BY DocumentType DEF NotFetching
    <3>2. [since |-> now, doc |-> Document] \in [since : Time, doc : Documents]
      BY DocumentType DEF TypeOK
    <3>3. \E f \in [since : Time, doc : Documents] : fetch' = [fetch EXCEPT ![v] = f]
      BY <1>7, <3>1, <3>2
      DEF VerifierStep, RefreshStale, RefreshLoop, RefetchUnknown, StartFetch,
          FetchLands, FetchFails, VerifierRestarts
    <3> QED
      BY <3>3 DEF TypeOK
  <2>2. cache' \in [Verifiers -> [at : Time, doc : Documents]]
    BY <1>7, DocumentType
    DEF VerifierStep, RefreshStale, RefreshLoop, RefetchUnknown, StartFetch,
        FetchLands, FetchFails, VerifierRestarts, TypeOK
  <2>3. refetch' \in [Verifiers -> Time]
    BY <1>7
    DEF VerifierStep, RefreshStale, RefreshLoop, RefetchUnknown, StartFetch,
        FetchLands, FetchFails, VerifierRestarts, TypeOK
  <2>4. UNCHANGED <<now, ring, passes, issue>>
    BY <1>7
    DEF VerifierStep, RefreshStale, RefreshLoop, RefetchUnknown,
        FetchLands, FetchFails, VerifierRestarts
  <2> QED
    BY <2>1, <2>2, <2>3, <2>4 DEF TypeOK
<1>8. CASE UNCHANGED vars
  BY <1>8 DEF vars, TypeOK
<1> QED
  BY <1>1, <1>2, <1>3, <1>4, <1>5, <1>6, <1>7, <1>8
  DEF Next, WorkerStep, SignerStep, PassCommits

(* Every reachable state is well typed, and every row carries the dates of *)
(* its state, whatever the order in which the passes commit.               *)
THEOREM TypeCorrect == Spec => []TypeOK
BY InitTypes, StepTypes, PTL DEF Spec

-----------------------------------------------------------------------------
(* The delays are kept: what is under way began at most its delay ago.     *)

Timely ==
    /\ \A w \in Workers : passes[w] # NoPass =>
           passes[w].moment <= now /\ now <= passes[w].moment + PassLag
    /\ \A s \in Signers : signing[s] # NotSigning => signing[s].iat <= now
    /\ \A v \in Verifiers : fetch[v] # NotFetching =>
           /\ fetch[v].since \in Nat
           /\ fetch[v].since <= now /\ now <= fetch[v].since + FetchLag
    /\ \A v \in Verifiers : cache[v].at <= now

LEMMA TimelyStep == TypeOK /\ Timely /\ [Next]_vars => Timely'
<1> SUFFICES ASSUME TypeOK, Timely, [Next]_vars PROVE Timely'
  OBVIOUS
<1> USE SpanAssumption DEF Lags
<1>1. CASE Tick
  <2>1. \A w \in Workers : passes[w] # NoPass => passes[w].moment \in Nat
    BY DEF TypeOK
  <2>2. \A s \in Signers : signing[s] # NotSigning => signing[s].iat \in Nat
    BY DEF TypeOK
  <2>3. \A v \in Verifiers : cache[v].at \in Int
    BY DEF TypeOK, Time, Never
  <2> QED
    BY <1>1, <2>1, <2>2, <2>3 DEF Tick, Timely, TypeOK
<1>2. ASSUME NEW w \in Workers, WorkerStep(w) PROVE Timely'
  <2>1. UNCHANGED <<now, issue, copies>>
    BY <1>2 DEF WorkerStep, TakeMoment, CreateNext, Advance, EmergencyRotate, PassDies
  <2>2. \/ passes' = [passes EXCEPT ![w] = NoPass]
        \/ \E kind \in {"advance", "emergency"} :
               passes' = [passes EXCEPT ![w] = [kind |-> kind, moment |-> now]]
    BY <1>2 DEF WorkerStep, TakeMoment, CreateNext, Advance, EmergencyRotate, PassDies
  <2> QED
    BY <2>1, <2>2 DEF Timely, TypeOK
<1>3. ASSUME NEW s \in Signers, SignerStep(s) PROVE Timely'
  <2>1. UNCHANGED <<now, passes, copies>>
    BY <1>3 DEF SignerStep, DateToken, SignToken
  <2>2. \/ signing' = [signing EXCEPT ![s] = NotSigning]
        \/ \E life \in Lives :
               signing' = [signing EXCEPT ![s] = [iat |-> now, life |-> life]]
    BY <1>3 DEF SignerStep, DateToken, SignToken
  <2> QED
    BY <2>1, <2>2 DEF Timely, TypeOK
<1>4. ASSUME NEW v \in Verifiers, VerifierStep(v) PROVE Timely'
  <2>1. UNCHANGED <<now, passes, signing>>
    BY <1>4
    DEF VerifierStep, RefreshStale, RefreshLoop, RefetchUnknown,
        FetchLands, FetchFails, VerifierRestarts
  <2>2. \/ fetch' = [fetch EXCEPT ![v] = NotFetching]
        \/ fetch' = [fetch EXCEPT ![v] = [since |-> now, doc |-> Document]]
    BY <1>4
    DEF VerifierStep, RefreshStale, RefreshLoop, RefetchUnknown, StartFetch,
        FetchLands, FetchFails, VerifierRestarts
  <2>3. \/ UNCHANGED cache
        \/ \E doc : cache' = [cache EXCEPT ![v] = [at |-> now, doc |-> doc]]
        \/ \E doc : cache' = [cache EXCEPT ![v] = [at |-> Never, doc |-> doc]]
    BY <1>4
    DEF VerifierStep, RefreshStale, RefreshLoop, RefetchUnknown,
        FetchLands, FetchFails, VerifierRestarts
  <2>4. \A u \in Verifiers : cache'[u].at <= now
    BY <2>3 DEF Timely, TypeOK, Never
  <2> QED
    BY <2>1, <2>2, <2>4 DEF Timely, TypeOK
<1>5. CASE UNCHANGED vars
  BY <1>5 DEF vars, Timely
<1> QED
  BY <1>1, <1>2, <1>3, <1>4, <1>5 DEF Next

LEMMA TimelyInit == Init => Timely
BY DEF Init, Timely, NoPass, NotSigning, NotFetching, Never

LEMMA AlwaysTimely == Spec => [](TypeOK /\ Timely)
BY InitTypes, StepTypes, TimelyInit, TimelyStep, PTL DEF Spec

(* All but the commit of a pass leave the ring alone; a commit has a       *)
(* moment at most PassLag old and changes every row in one of the six ways. *)
LEMMA RingStep ==
    ASSUME TypeOK, Timely, [Next]_vars
    PROVE  \/ UNCHANGED ring
           \/ \E m \in Nat :
                  /\ m <= now /\ now <= m + PassLag
                  /\ \A k \in Kids : RowChange(k, m)
                  /\ killed \subseteq killed'
                  /\ UNCHANGED <<now, issue, copies>>
<1>1. ASSUME NEW w \in Workers, PassCommits(w)
      PROVE  \E m \in Nat :
                  /\ m <= now /\ now <= m + PassLag
                  /\ \A k \in Kids : RowChange(k, m)
                  /\ killed \subseteq killed'
                  /\ UNCHANGED <<now, issue, copies>>
  <2>1. /\ passes[w].moment \in Nat /\ passes[w] # NoPass
        /\ \A k \in Kids : RowChange(k, passes[w].moment)
    BY <1>1, CommitRows
  <2>2. killed \subseteq killed' /\ UNCHANGED <<now, issue, copies>>
    BY <1>1 DEF PassCommits, CreateNext, Advance, EmergencyRotate
  <2> QED
    BY <2>1, <2>2 DEF Timely
<1>2. ASSUME NEW w \in Workers, WorkerStep(w), ~PassCommits(w) PROVE UNCHANGED ring
  BY <1>2 DEF WorkerStep, PassCommits, TakeMoment, PassDies
<1>3. CASE Tick \/ (\E s \in Signers : SignerStep(s)) \/ UNCHANGED vars
  BY <1>3 DEF Tick, SignerStep, DateToken, SignToken, vars
<1>4. ASSUME NEW v \in Verifiers, VerifierStep(v) PROVE UNCHANGED ring
  BY <1>4
  DEF VerifierStep, RefreshStale, RefreshLoop, RefetchUnknown,
      FetchLands, FetchFails, VerifierRestarts
<1> QED
  BY <1>1, <1>2, <1>3, <1>4 DEF Next

-----------------------------------------------------------------------------
(* One active key, at most one next key.                                   *)

Unique(r) ==
    /\ \E k \in Kids : InState(r, "active") = {k}
    /\ \A j, k \in InState(r, "next") : j = k

LEMMA PromoteKeepsUnique ==
    ASSUME NEW r \in [Kids -> KeyRecord], NEW m \in Nat, NEW period \in Periods,
           NEW active \in InState(r, "active"), Unique(r)
    PROVE  Unique(RetireOld(Promote(r, active, m, period), m))
<1> DEFINE ready == Promotable(r, active, m, period)
           p == Promote(r, active, m, period)
           q == RetireOld(p, m)
<1>1. /\ active \in Kids
      /\ \A k \in Kids : r[k].state = "active" <=> k = active
  BY DEF Unique, InState
<1>2. \A k \in ready : k \in Kids /\ r[k].state = "next"
  BY DEF Promotable, InState
<1>3. ASSUME NEW k \in Kids
      PROVE  p[k].state = IF k \in ready THEN "active"
                          ELSE IF k = active /\ ready # {} THEN "retiring"
                          ELSE r[k].state
  BY DEF Promote, KeyRecord
<1>4. ASSUME NEW k \in Kids
      PROVE  /\ q[k].state = "active" <=> p[k].state = "active"
             /\ q[k].state = "next" <=> p[k].state = "next"
  <2>1. /\ r[k] \in KeyRecord
        /\ [r[k] EXCEPT !.state = "active", !.activated = m] \in KeyRecord
        /\ [r[k] EXCEPT !.state = "retiring", !.retiring = m] \in KeyRecord
    BY DEF KeyRecord, States, Time
  <2>2. p[k] \in KeyRecord
    BY <2>1 DEF Promote
  <2>3. q[k] = IF p[k].state = "retiring" /\ m >= p[k].retiring + RetiringWindow
               THEN [p[k] EXCEPT !.state = "retired", !.retired = m]
               ELSE p[k]
    BY DEF RetireOld
  <2> QED
    BY <2>2, <2>3 DEF KeyRecord
<1>5. CASE ready = {}
  BY <1>1, <1>3, <1>4, <1>5 DEF Unique, InState
<1>6. CASE ready # {}
  <2>1. PICK n \in ready : TRUE
    BY <1>6
  <2>2. \A k \in Kids : r[k].state = "next" <=> k = n
    BY <1>2, <2>1 DEF Unique, InState
  <2>3. \A k \in Kids : k \in ready <=> k = n
    BY <1>2, <2>1, <2>2
  <2>4. n # active /\ n \in Kids
    BY <1>1, <1>2, <2>1
  <2>5. \A k \in Kids : (q[k].state = "active" <=> k = n) /\ q[k].state # "next"
    BY <1>1, <1>3, <1>4, <2>2, <2>3, <2>4
  <2> QED
    BY <2>4, <2>5 DEF Unique, InState
<1> QED
  BY <1>5, <1>6

LEMMA RowOrder ==
    ASSUME TypeOK, RingConsistent, NEW k \in Kids, NEW m \in Nat, RowChange(k, m)
    PROVE  /\ keys'[k].state \in {"active", "retiring"}
                  => keys'[k].created <= keys'[k].activated
           /\ keys'[k].state = "retiring" => keys'[k].activated < keys'[k].retiring
<1> USE SpanAssumption
<1>0. RowOK(keys[k])
  BY RowTypes
<1>1. CASE keys'[k] = keys[k]
  BY <1>1 DEF RingConsistent
<1>2. CASE Announced(k, m) \/ Installed(k, m)
  BY <1>2 DEF Announced, Installed, NewKey
<1>3. CASE TakesOver(k, m)
  BY <1>0, <1>3 DEF TakesOver, RowOK, KeyRecord
<1>4. CASE StepsBack(k, m)
  BY <1>0, <1>4 DEF StepsBack, RowOK, KeyRecord, RingConsistent
<1>5. CASE AgesOut(k, m) \/ IsKilled(k, m)
  BY <1>0, <1>5 DEF AgesOut, IsKilled, RowOK, KeyRecord
<1> QED
  BY <1>1, <1>2, <1>3, <1>4, <1>5 DEF RowChange

LEMMA RingInit == Init => RingConsistent
<1> SUFFICES ASSUME Init PROVE RingConsistent
  OBVIOUS
<1>1. \A k \in Kids : keys[k] = IF k = Imported THEN NewKey("active", 0) ELSE NoKey
  BY DEF Init
<1>2. /\ NewKey("active", 0).state = "active" /\ NoKey.state = "unused"
      /\ NewKey("active", 0).created = 0 /\ NewKey("active", 0).activated = 0
  BY DEF NewKey, NoKey
<1>3. \A k \in Kids : /\ keys[k].state = "active" <=> k = Imported
                      /\ keys[k].state \notin {"next", "retiring"}
                      /\ k = Imported => keys[k].created <= keys[k].activated
  BY <1>1, <1>2
<1> QED
  BY <1>3, ImportedAssumption DEF RingConsistent, InState

LEMMA RingStays == TypeOK /\ RingConsistent /\ [Next]_vars => RingConsistent'
<1> SUFFICES ASSUME TypeOK, RingConsistent, [Next]_vars PROVE RingConsistent'
  OBVIOUS
<1>0. Unique(keys)
  BY DEF RingConsistent, Unique
<1>1. ASSUME NEW w \in Workers, PassCommits(w) PROVE RingConsistent'
  <2> DEFINE m == passes[w].moment
  <2>1. m \in Nat /\ \A k \in Kids : RowChange(k, m)
    BY <1>1, CommitRows
  <2>2. Unique(keys')
    <3>1. CASE CreateNext(w)
      <4>1. PICK active \in InState(keys, "active"), period \in Periods,
                 k \in InState(keys, "unused") :
               /\ InState(keys, "next") = {}
               /\ keys' = RetireOld(Promote([keys EXCEPT ![k] = NewKey("next", m)],
                                            active, m, period), m)
        BY <3>1 DEF CreateNext, NextDue
      <4> DEFINE r == [keys EXCEPT ![k] = NewKey("next", m)]
      <4>2. r \in [Kids -> KeyRecord]
        BY <2>1, NewKeyType DEF TypeOK
      <4>3. \A j \in Kids : r[j].state = IF j = k THEN "next" ELSE keys[j].state
        BY DEF NewKey, TypeOK
      <4>4. k \in Kids /\ keys[k].state = "unused"
        BY <4>1 DEF InState
      <4>5. InState(r, "active") = InState(keys, "active") /\ InState(r, "next") = {k}
        BY <4>1, <4>3, <4>4 DEF InState
      <4>6. Unique(r) /\ active \in InState(r, "active")
        BY <1>0, <4>5 DEF Unique
      <4> QED
        BY <2>1, <4>1, <4>2, <4>6, PromoteKeepsUnique
    <3>2. CASE Advance(w)
      <4>1. PICK active \in InState(keys, "active"), period \in Periods :
               keys' = RetireOld(Promote(keys, active, m, period), m)
        BY <3>2 DEF Advance
      <4> QED
        BY <1>0, <2>1, <4>1, PromoteKeepsUnique DEF TypeOK
    <3>3. CASE EmergencyRotate(w)
      <4>1. PICK k \in InState(keys, "unused") :
               keys' = [RetireAll(keys, m) EXCEPT ![k] = NewKey("active", m)]
        BY <3>3 DEF EmergencyRotate
      <4>2. k \in Kids
        BY <4>1 DEF InState
      <4>3. \A j \in Kids : RetireAll(keys, m)[j].state
                 = IF keys[j].state \in Published THEN "retired" ELSE keys[j].state
        BY DEF RetireAll, TypeOK, KeyRecord
      <4>4. \A j \in Kids : keys'[j].state = IF j = k THEN "active"
                                             ELSE RetireAll(keys, m)[j].state
        <5>1. RetireAll(keys, m) = [j \in Kids |-> RetireAll(keys, m)[j]]
          BY DEF RetireAll
        <5>2. NewKey("active", m).state = "active"
          BY DEF NewKey
        <5> QED
          BY <4>1, <5>1, <5>2
      <4>5. \A j \in Kids : (keys'[j].state = "active" <=> j = k)
                            /\ keys'[j].state # "next"
        BY <4>3, <4>4 DEF Published
      <4> QED
        BY <4>2, <4>5 DEF Unique, InState
    <3> QED
      BY <1>1, <3>1, <3>2, <3>3 DEF PassCommits
  <2>3. \A k \in Kids :
             /\ keys'[k].state \in {"active", "retiring"}
                    => keys'[k].created <= keys'[k].activated
             /\ keys'[k].state = "retiring" => keys'[k].activated < keys'[k].retiring
    BY <2>1, RowOrder
  <2> QED
    BY <2>2, <2>3 DEF RingConsistent, Unique, InState
<1>2. CASE UNCHANGED keys
  BY <1>2 DEF RingConsistent, InState
<1>3. UNCHANGED keys \/ \E w \in Workers : PassCommits(w)
  BY DEF Next, WorkerStep, PassCommits, TakeMoment, PassDies, Tick, SignerStep,
         DateToken, SignToken, VerifierStep, RefreshStale, RefreshLoop,
         RefetchUnknown, FetchLands, FetchFails, VerifierRestarts, vars
<1> QED
  BY <1>1, <1>2, <1>3

(* Exactly one key signs and at most one waits, and a key begins to sign   *)
(* before it is replaced, whatever the order of the commits.               *)
THEOREM RingStaysConsistent == Spec => []RingConsistent
BY RingInit, RingStays, TypeCorrect, PTL DEF Spec

-----------------------------------------------------------------------------
(* Keys outlive the tokens they signed.  A key steps back with a moment at *)
(* most PassLag before its last token was dated, and ages out only a whole *)
(* window after that moment.                                               *)

Covered(t) ==
    /\ t.iat <= now /\ t.exp <= t.iat + MaxLife
    /\ t.kid \notin killed =>
           /\ keys[t.kid].state \in {"active", "retiring", "retired"}
           /\ keys[t.kid].state = "retiring" => t.iat <= keys[t.kid].retiring + PassLag
           /\ keys[t.kid].state = "retired" => t.exp <= now

TokensCovered == \A t \in tokens : Covered(t)

LEMMA CoveredThroughCommit ==
    ASSUME TypeOK, NEW t \in tokens, Covered(t), NEW m \in Nat,
           m <= now, now <= m + PassLag, RowChange(t.kid, m),
           killed \subseteq killed', now' = now
    PROVE  Covered(t)'
<1> DEFINE k == t.kid
<1>0. /\ k \in Kids /\ t.iat \in Nat /\ t.exp \in Nat /\ now \in Nat
      /\ PassLag \in Nat /\ MaxLife \in Nat /\ Cache \in Nat /\ RowOK(keys[k])
  BY RowTypes, SpanAssumption DEF TypeOK, Lags
<1> SUFFICES ASSUME k \notin killed'
             PROVE  /\ keys'[k].state \in {"active", "retiring", "retired"}
                    /\ keys'[k].state = "retiring" => t.iat <= keys'[k].retiring + PassLag
                    /\ keys'[k].state = "retired" => t.exp <= now
  BY DEF Covered
<1>1. CASE keys'[k] = keys[k]
  BY <1>1 DEF Covered
<1>2. CASE Announced(k, m) \/ Installed(k, m) \/ TakesOver(k, m)
  BY <1>2 DEF Announced, Installed, TakesOver, Covered
<1>3. CASE StepsBack(k, m)
  BY <1>0, <1>3 DEF StepsBack, Covered, RowOK, KeyRecord
<1>4. CASE AgesOut(k, m)
  <2>1. m >= keys[k].retiring + MaxLife + Cache /\ keys[k].retiring \in Nat
        /\ t.iat <= keys[k].retiring + PassLag /\ t.exp <= t.iat + MaxLife
    BY <1>0, <1>4 DEF AgesOut, RetiringWindow, Covered, RowOK
  <2>2. t.exp <= now
    BY <1>0, <2>1, LagAssumption
  <2> QED
    BY <1>0, <1>4, <2>2 DEF AgesOut, RowOK, KeyRecord
<1>5. CASE IsKilled(k, m)
  BY <1>5 DEF IsKilled
<1> QED
  BY <1>1, <1>2, <1>3, <1>4, <1>5 DEF RowChange

LEMMA TokensStayCovered ==
    TypeOK /\ Timely /\ TokensCovered /\ [Next]_vars => TokensCovered'
<1> SUFFICES ASSUME TypeOK, Timely, TokensCovered, [Next]_vars
             PROVE  TokensCovered'
  OBVIOUS
<1> USE SpanAssumption DEF Lags
<1>1. ASSUME NEW s \in Signers, SignToken(s) PROVE TokensCovered'
  <2>1. PICK active \in InState(keys, "active") :
           tokens' = tokens \union {[kid |-> active, iat |-> signing[s].iat,
                                     exp |-> signing[s].iat + signing[s].life]}
    BY <1>1 DEF SignToken
  <2> DEFINE t == [kid |-> active, iat |-> signing[s].iat,
                   exp |-> signing[s].iat + signing[s].life]
  <2>2. /\ signing[s].iat \in Nat /\ signing[s].life \in Nat
        /\ signing[s].life <= MaxLife /\ signing[s].iat <= now
    BY <1>1 DEF SignToken, TypeOK, Timely
  <2>3. keys[active].state = "active"
    BY DEF InState
  <2>4. t.kid = active /\ t.iat = signing[s].iat /\ t.exp = signing[s].iat + signing[s].life
    OBVIOUS
  <2>5. Covered(t)
    BY <2>2, <2>3, <2>4 DEF Covered
  <2>6. UNCHANGED <<now, keys, killed>>
    BY <1>1 DEF SignToken
  <2>7. \A u \in tokens' : Covered(u)
    BY <2>1, <2>5 DEF TokensCovered
  <2> QED
    BY <2>6, <2>7 DEF TokensCovered, Covered
<1>2. CASE Tick
  <2>1. \A t \in tokens : t.iat \in Nat /\ t.exp \in Nat
    BY DEF TypeOK
  <2> QED
    BY <1>2, <2>1 DEF Tick, TokensCovered, Covered, TypeOK
<1>3. CASE /\ UNCHANGED <<now, tokens>>
           /\ UNCHANGED ring
  BY <1>3 DEF TokensCovered, Covered
<1>4. CASE \E m \in Nat :
                  /\ m <= now /\ now <= m + PassLag
                  /\ \A k \in Kids : RowChange(k, m)
                  /\ killed \subseteq killed'
                  /\ UNCHANGED <<now, issue, copies>>
  <2>1. \A t \in tokens : t.kid \in Kids
    BY DEF TypeOK
  <2>2. \A t \in tokens : Covered(t)'
    BY <1>4, <2>1, CoveredThroughCommit DEF TokensCovered
  <2> QED
    BY <1>4, <2>2 DEF TokensCovered
<1>5. \/ Tick \/ UNCHANGED <<now, tokens>>
      \/ \E s \in Signers : SignToken(s)
  BY DEF Next, WorkerStep, TakeMoment, CreateNext, Advance, EmergencyRotate, PassDies,
         SignerStep, DateToken, VerifierStep, RefreshStale, RefreshLoop,
         RefetchUnknown, FetchLands, FetchFails, VerifierRestarts, vars
<1> QED
  BY <1>1, <1>2, <1>3, <1>4, <1>5, RingStep

(* No ordinary rotation orphans a living token.                            *)
THEOREM KeysOutliveTheirTokens == Spec => []KeysOutliveTokens
<1>1. Init => TokensCovered
  BY DEF Init, TokensCovered
<1>2. TypeOK /\ TokensCovered => KeysOutliveTokens
  <2> SUFFICES ASSUME TypeOK, TokensCovered, NEW t \in tokens,
                      Living(t), t.kid \notin killed
               PROVE  /\ keys[t.kid].state \in {"active", "retiring"}
                      /\ \/ IssuanceAllowed(t)
                         \/ t.iat \in keys[t.kid].retiring..keys[t.kid].retiring + PassLag
    BY DEF KeysOutliveTokens
  <2>1. t.kid \in Kids /\ t.iat \in Nat /\ PassLag \in Nat /\ RowOK(keys[t.kid])
    BY RowTypes, SpanAssumption DEF TypeOK, Lags
  <2>2. /\ keys[t.kid].state \in {"active", "retiring"}
        /\ keys[t.kid].state = "retiring" => t.iat <= keys[t.kid].retiring + PassLag
    BY DEF TypeOK, TokensCovered, Covered, Living
  <2>3. CASE keys[t.kid].state = "retiring"
    BY <2>1, <2>2, <2>3 DEF IssuanceAllowed, RowOK
  <2> QED
    BY <2>2, <2>3 DEF IssuanceAllowed
<1> QED
  BY <1>1, <1>2, TokensStayCovered, AlwaysTimely, PTL DEF Spec

-----------------------------------------------------------------------------
(* How far the copies of the verifiers may lag behind the ring.  A copy    *)
(* made at time at knows every key created more than a lag before it, and  *)
(* holds neither a retired key nor an outdated announcement from longer    *)
(* ago than the lag; the last moment it has for a retiring key is the one  *)
(* CSP goes by.                                                            *)

CurrentIn(r, doc, at, lag, k) ==
    /\ doc[k].state = "absent" => doc[k] = Absent
    /\ doc[k] # Absent => r[k].state # "unused"
    /\ doc[k] # Absent /\ r[k].state = "retired" => at <= r[k].retired + lag
    /\ doc[k].state = "next" /\ r[k].state \in {"active", "retiring"}
           => at <= r[k].activated + lag
    /\ doc[k].state = "retiring"
           => /\ r[k].state \in {"retiring", "retired"}
              /\ r[k].state = "retiring" => doc[k].iatNotAfter = r[k].retiring
    /\ r[k].state \in {"next", "active"} /\ at > r[k].created + lag
           => doc[k] # Absent

Current(doc, at, lag, k) == CurrentIn(keys, doc, at, lag, k)

CopiesCurrent ==
    \A v \in Verifiers, k \in Kids :
        /\ Current(fetch[v].doc, fetch[v].since, PassLag, k)
        /\ Current(cache[v].doc, cache[v].at, PassLag + FetchLag, k)

LEMMA NothingIsCurrent ==
    ASSUME TypeOK, NEW k \in Kids, NEW lag \in Nat
    PROVE  Current(NoDocument, Never, lag, k)
<1>1. RowOK(keys[k])
  BY RowTypes
<1> QED
  BY <1>1 DEF Current, CurrentIn, NoDocument, Absent, Never, RowOK

LEMMA DocumentIsCurrent ==
    ASSUME TypeOK, NEW k \in Kids, NEW at
    PROVE  Current(Document, at, PassLag, k)
<1>1. /\ Document[k] # Absent <=> keys[k].state \in Published
      /\ Document[k].state = "absent" => Document[k] = Absent
  BY DEF Document, Absent, Published
<1>2. /\ Document[k].state = "next" => keys[k].state = "next"
      /\ Document[k].state = "retiring"
             => keys[k].state = "retiring" /\ Document[k].iatNotAfter = keys[k].retiring
  BY DEF Document, Absent, Published
<1> QED
  BY <1>1, <1>2 DEF Current, CurrentIn, Published

LEMMA CurrentLater ==
    ASSUME TypeOK, NEW doc, NEW at \in Int, NEW k \in Kids,
           Current(doc, at, PassLag, k), NEW later \in Int, later <= at + FetchLag
    PROVE  Current(doc, later, PassLag + FetchLag, k)
<1>1. PassLag \in Nat /\ FetchLag \in Nat /\ RowOK(keys[k])
  BY RowTypes, SpanAssumption DEF Lags
<1> QED
  BY <1>1 DEF Current, CurrentIn, RowOK

LEMMA CurrentThroughCommit ==
    ASSUME TypeOK, NEW doc, NEW at \in Int, NEW lag \in Nat, PassLag <= lag,
           NEW k \in Kids, NEW m \in Nat, at <= now, now <= m + PassLag,
           RowChange(k, m), Current(doc, at, lag, k)
    PROVE  CurrentIn(keys', doc, at, lag, k)
<1>0. RowOK(keys[k]) /\ PassLag \in Nat /\ now \in Nat /\ at <= m + lag
  BY RowTypes, SpanAssumption DEF TypeOK, Lags
<1>1. CASE keys'[k] = keys[k]
  BY <1>1 DEF Current, CurrentIn
<1>2. CASE Announced(k, m) \/ Installed(k, m)
  BY <1>0, <1>2 DEF Announced, Installed, NewKey, Current, CurrentIn
<1>3. CASE TakesOver(k, m)
  BY <1>0, <1>3 DEF TakesOver, Current, CurrentIn, RowOK, KeyRecord
<1>4. CASE StepsBack(k, m)
  BY <1>0, <1>4 DEF StepsBack, Current, CurrentIn, RowOK, KeyRecord
<1>5. CASE AgesOut(k, m) \/ IsKilled(k, m)
  BY <1>0, <1>5 DEF AgesOut, IsKilled, Current, CurrentIn, RowOK, KeyRecord
<1> QED
  BY <1>1, <1>2, <1>3, <1>4, <1>5 DEF RowChange

LEMMA CopiesStayCurrent ==
    TypeOK /\ Timely /\ CopiesCurrent /\ [Next]_vars => CopiesCurrent'
<1> SUFFICES ASSUME TypeOK, Timely, CopiesCurrent, [Next]_vars
             PROVE  CopiesCurrent'
  OBVIOUS
<1>0. /\ PassLag \in Nat /\ PassLag + FetchLag \in Nat /\ now \in Nat
      /\ \A v \in Verifiers : /\ fetch[v].since \in Int /\ cache[v].at \in Int
                              /\ fetch[v].since <= now /\ cache[v].at <= now
  BY SpanAssumption DEF Lags, TypeOK, Timely, NotFetching, Time, Never
<1>1. CASE \E m \in Nat :
                  /\ m <= now /\ now <= m + PassLag
                  /\ \A k \in Kids : RowChange(k, m)
                  /\ killed \subseteq killed'
                  /\ UNCHANGED <<now, issue, copies>>
  <2>1. PICK m \in Nat :
                  /\ now <= m + PassLag
                  /\ \A k \in Kids : RowChange(k, m)
                  /\ UNCHANGED copies
    BY <1>1
  <2>2. ASSUME NEW v \in Verifiers, NEW k \in Kids
        PROVE  /\ CurrentIn(keys', fetch[v].doc, fetch[v].since, PassLag, k)
               /\ CurrentIn(keys', cache[v].doc, cache[v].at, PassLag + FetchLag, k)
    <3>1. PassLag <= PassLag + FetchLag
      BY SpanAssumption DEF Lags
    <3>2. /\ Current(fetch[v].doc, fetch[v].since, PassLag, k)
          /\ Current(cache[v].doc, cache[v].at, PassLag + FetchLag, k)
      BY DEF CopiesCurrent
    <3>3. CurrentIn(keys', fetch[v].doc, fetch[v].since, PassLag, k)
      BY <1>0, <2>1, <3>2, CurrentThroughCommit
    <3>4. CurrentIn(keys', cache[v].doc, cache[v].at, PassLag + FetchLag, k)
      BY <1>0, <2>1, <3>1, <3>2, CurrentThroughCommit
    <3> QED
      BY <3>3, <3>4
  <2> QED
    BY <2>1, <2>2 DEF CopiesCurrent, Current
<1>2. CASE UNCHANGED ring /\ UNCHANGED <<cache, fetch>>
  BY <1>2 DEF CopiesCurrent, Current, CurrentIn
<1>3. ASSUME NEW v \in Verifiers, VerifierStep(v) PROVE CopiesCurrent'
  <2>1. UNCHANGED ring
    BY <1>3
    DEF VerifierStep, RefreshStale, RefreshLoop, RefetchUnknown,
        FetchLands, FetchFails, VerifierRestarts
  <2>2. ASSUME NEW k \in Kids
        PROVE  /\ Current(NotFetching.doc, NotFetching.since, PassLag, k)
               /\ Current(Document, now, PassLag, k)
               /\ Current(NoDocument, Never, PassLag + FetchLag, k)
               /\ fetch[v] # NotFetching
                      => Current(fetch[v].doc, now, PassLag + FetchLag, k)
    <3>1. fetch[v] # NotFetching => now <= fetch[v].since + FetchLag
      BY DEF Timely
    <3> QED
      BY <1>0, <3>1, NothingIsCurrent, DocumentIsCurrent, CurrentLater
      DEF CopiesCurrent, NotFetching
  <2>3. \/ fetch' = [fetch EXCEPT ![v] = NotFetching]
        \/ fetch' = [fetch EXCEPT ![v] = [since |-> now, doc |-> Document]]
    BY <1>3
    DEF VerifierStep, RefreshStale, RefreshLoop, RefetchUnknown, StartFetch,
        FetchLands, FetchFails, VerifierRestarts
  <2>4. \/ cache' = cache
        \/ /\ fetch[v] # NotFetching
           /\ cache' = [cache EXCEPT ![v] = [at |-> now, doc |-> fetch[v].doc]]
        \/ cache' = [cache EXCEPT ![v] = [at |-> Never, doc |-> NoDocument]]
    BY <1>3
    DEF VerifierStep, RefreshStale, RefreshLoop, RefetchUnknown,
        FetchLands, FetchFails, VerifierRestarts
  <2>5. \A u \in Verifiers, k \in Kids :
           Current(fetch'[u].doc, fetch'[u].since, PassLag, k)
    BY <2>2, <2>3 DEF CopiesCurrent, TypeOK
  <2>6. \A u \in Verifiers, k \in Kids :
           Current(cache'[u].doc, cache'[u].at, PassLag + FetchLag, k)
    BY <2>2, <2>4 DEF CopiesCurrent, TypeOK
  <2> QED
    BY <2>1, <2>5, <2>6 DEF CopiesCurrent, Current, CurrentIn
<1>4. \/ UNCHANGED <<cache, fetch>>
      \/ \E v \in Verifiers : VerifierStep(v)
  BY DEF Next, WorkerStep, TakeMoment, CreateNext, Advance, EmergencyRotate, PassDies,
         SignerStep, DateToken, SignToken, Tick, vars
<1> QED
  BY <1>1, <1>2, <1>3, <1>4, RingStep

LEMMA CopiesAlwaysCurrent == Spec => []CopiesCurrent
<1>1. Init => CopiesCurrent
  <2> SUFFICES ASSUME Init PROVE CopiesCurrent
    OBVIOUS
  <2>1. TypeOK
    BY InitTypes
  <2>2. ASSUME NEW v \in Verifiers, NEW k \in Kids
        PROVE  /\ Current(fetch[v].doc, fetch[v].since, PassLag, k)
               /\ Current(cache[v].doc, cache[v].at, PassLag + FetchLag, k)
    BY <2>1, NothingIsCurrent, SpanAssumption DEF Init, NotFetching, Lags
  <2> QED
    BY <2>2 DEF CopiesCurrent
<1> QED
  BY <1>1, CopiesStayCurrent, AlwaysTimely, PTL DEF Spec

(* A copy still in use holds a retired key, or a signing key as announced, *)
(* for one refresh period and the two delays at most.                      *)
THEOREM StaleCopiesAlwaysFade == Spec => []StaleCopiesFade
<1>1. TypeOK /\ CopiesCurrent => StaleCopiesFade
  <2> SUFFICES ASSUME TypeOK, CopiesCurrent, NEW v \in Verifiers, NEW k \in Kids,
                      ~Expired(v), Knows(v, k)
               PROVE  /\ keys[k].state = "retired" => now < StaleUntil(keys[k].retired)
                      /\ cache[v].doc[k].state = "next" /\ keys[k].state = "active"
                            => now < StaleUntil(keys[k].activated)
    BY DEF StaleCopiesFade
  <2>1. now < cache[v].at + Refresh /\ cache[v].at \in Int /\ now \in Nat
        /\ Refresh \in Nat /\ PassLag \in Nat /\ FetchLag \in Nat
    BY SpanAssumption DEF Expired, TypeOK, Time, Never, Lags
  <2>2. Current(cache[v].doc, cache[v].at, PassLag + FetchLag, k) /\ RowOK(keys[k])
    BY RowTypes DEF CopiesCurrent
  <2> QED
    BY <2>1, <2>2 DEF Current, CurrentIn, Knows, StaleUntil, RowOK
<1> QED
  BY <1>1, CopiesAlwaysCurrent, TypeCorrect, PTL

(* A copy in use refuses a good token only while it has the signing key as *)
(* announced, and that for one refresh period and the two delays at most.  *)
THEOREM RefusalsAlwaysFade == Spec => []RefusalsFade
<1>1. TypeOK /\ CopiesCurrent => RefusalsFade
  <2> SUFFICES ASSUME TypeOK, CopiesCurrent, NEW t \in tokens, NEW v \in Verifiers,
                      IssuanceAllowed(t), ~Expired(v), Knows(v, t.kid),
                      ~Allows(cache[v].doc[t.kid], t)
               PROVE  /\ cache[v].doc[t.kid].state = "next"
                      /\ now < StaleUntil(keys[t.kid].activated)
    BY DEF RefusalsFade
  <2> DEFINE k == t.kid
             held == cache[v].doc[k]
  <2>1. /\ now < cache[v].at + Refresh /\ cache[v].at \in Int /\ now \in Nat
        /\ Refresh \in Nat /\ PassLag \in Nat /\ FetchLag \in Nat
    BY SpanAssumption DEF Expired, TypeOK, Time, Never, Lags
  <2>2. k \in Kids /\ cache[v].doc \in Documents
    BY DEF TypeOK
  <2>3. Current(cache[v].doc, cache[v].at, PassLag + FetchLag, k) /\ RowOK(keys[k])
    BY <2>2, RowTypes DEF CopiesCurrent
  <2>4. held.state \in {"next", "active", "retiring"}
    BY <2>2, <2>3 DEF Current, CurrentIn, Documents, Policy, Published, Knows
  <2>5. held.state # "active"
    BY DEF Allows
  <2>6. held.state # "retiring"
    BY <2>3 DEF Current, CurrentIn, Allows, IssuanceAllowed
  <2>7. held.state = "next" /\ keys[k].state \in {"active", "retiring"}
    BY <2>4, <2>5, <2>6 DEF IssuanceAllowed
  <2>8. keys[k].activated \in Nat /\ cache[v].at <= keys[k].activated + (PassLag + FetchLag)
    BY <2>3, <2>7 DEF Current, CurrentIn, RowOK
  <2> QED
    BY <2>1, <2>7, <2>8 DEF StaleUntil
<1> QED
  BY <1>1, CopiesAlwaysCurrent, TypeCorrect, PTL

(* A key that was promoted had been in the ring for a cache period.        *)
LedIn ==
    \A k \in Kids : Promoted(k) =>
        /\ keys[k].created + Cache <= keys[k].activated
        /\ keys[k].activated <= now

LEMMA LeadKept == TypeOK /\ Timely /\ LedIn /\ [Next]_vars => LedIn'
<1> SUFFICES ASSUME TypeOK, Timely, LedIn, [Next]_vars PROVE LedIn'
  OBVIOUS
<1>1. ASSUME NEW m \in Nat, m <= now, \A k \in Kids : RowChange(k, m), now' = now
      PROVE  LedIn'
  <2> SUFFICES ASSUME NEW k \in Kids, Promoted(k)'
               PROVE  /\ keys'[k].created + Cache <= keys'[k].activated
                      /\ keys'[k].activated <= now
    BY <1>1 DEF LedIn
  <2>0. RowOK(keys[k]) /\ Cache \in Nat /\ RowChange(k, m)
    BY <1>1, RowTypes, SpanAssumption
  <2>1. CASE keys'[k] = keys[k]
    BY <2>1 DEF LedIn, Promoted
  <2>2. CASE Announced(k, m) \/ Installed(k, m)
    BY <2>2 DEF Announced, Installed, NewKey, Promoted
  <2>3. CASE TakesOver(k, m)
    BY <1>1, <2>0, <2>3 DEF TakesOver, RowOK, KeyRecord
  <2>4. CASE StepsBack(k, m) \/ AgesOut(k, m) \/ IsKilled(k, m)
    BY <2>0, <2>4 DEF StepsBack, AgesOut, IsKilled, Promoted, RowOK, KeyRecord
  <2> QED
    BY <2>0, <2>1, <2>2, <2>3, <2>4 DEF RowChange
<1>2. ASSUME UNCHANGED ring PROVE LedIn'
  <2>1. now' \in {now, now + 1}
    BY DEF Next, WorkerStep, TakeMoment, CreateNext, Advance, EmergencyRotate, PassDies,
           SignerStep, DateToken, SignToken, VerifierStep, RefreshStale, RefreshLoop,
           RefetchUnknown, FetchLands, FetchFails, VerifierRestarts, Tick, vars
  <2>2. \A k \in Kids : Promoted(k) => keys[k].activated \in Nat
    BY DEF TypeOK, Promoted
  <2> QED
    BY <1>2, <2>1, <2>2 DEF LedIn, Promoted, TypeOK
<1> QED
  BY <1>1, <1>2, RingStep

(* No verifier first hears of a key when the key already signs: a copy     *)
(* still in use, and not within the delays of its end, holds every         *)
(* promoted key.                                                           *)
THEOREM PromotedKeysAlwaysKnown == Spec => []PromotedKeysAreKnown
<1>1. Init => LedIn
  <2> SUFFICES ASSUME Init, NEW k \in Kids, Promoted(k) PROVE FALSE
    BY DEF LedIn
  <2>1. keys[k] = NewKey("active", 0) \/ keys[k] = NoKey
    BY DEF Init
  <2> QED
    BY <2>1 DEF Promoted, NewKey, NoKey
<1>2. TypeOK /\ CopiesCurrent /\ LedIn => PromotedKeysAreKnown
  <2> SUFFICES ASSUME TypeOK, CopiesCurrent, LedIn, NEW v \in Verifiers,
                      NEW k \in Kids, Promoted(k), WellFresh(v)
               PROVE  Knows(v, k)
    BY DEF PromotedKeysAreKnown
  <2>1. /\ cache[v].at \in Int /\ now \in Nat /\ RowOK(keys[k])
        /\ Refresh \in Nat /\ PassLag \in Nat /\ FetchLag \in Nat /\ Cache \in Nat
    BY RowTypes, SpanAssumption DEF TypeOK, Time, Never, Lags
  <2>2. /\ keys[k].state = "active" /\ keys[k].created \in Nat
        /\ keys[k].activated \in Nat
        /\ keys[k].created + Cache <= keys[k].activated
        /\ keys[k].activated <= now
    BY <2>1 DEF LedIn, Promoted, RowOK
  <2>3. cache[v].at > keys[k].created + (PassLag + FetchLag)
    BY <2>1, <2>2, RefreshAssumption DEF WellFresh
  <2>4. Current(cache[v].doc, cache[v].at, PassLag + FetchLag, k)
    BY DEF CopiesCurrent
  <2> QED
    BY <2>2, <2>3, <2>4 DEF Current, CurrentIn, Knows
<1> QED
  BY <1>1, <1>2, LeadKept, CopiesAlwaysCurrent, AlwaysTimely, PTL DEF Spec
=============================================================================
