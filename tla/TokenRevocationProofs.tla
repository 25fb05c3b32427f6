------------------------ MODULE TokenRevocationProofs ------------------------
(***************************************************************************)
(* Proofs about TokenRevocation, for any number of requests, keys and      *)
(* versions, and any number of failures.  Everything that is under way or  *)
(* remembered was committed (AllCommitted); from a replay on, what was     *)
(* committed is known, in the mail, not announced yet or missed            *)
(* (Accounted), and what was refused before is refused (Refusing).         *)
(***************************************************************************)
EXTENDS TokenRevocation, SequenceTheorems, WellFoundedInduction, TLAPS

Types ==
    /\ TypeOK
    /\ retired \subseteq Kids
    /\ mailbox \in Seq(Messages)
    /\ link # "up" => mailbox = <<>>
    /\ reply \in Messages /\ refused \in Messages /\ DenyList \in Messages

Within(m, vs, ks) == m.version \in vs \cup {0} /\ m.kids \subseteq ks

AllCommitted ==
    /\ \A m \in outbox : Within(m, rows, retired)
    /\ \A i \in 1..Len(mailbox) : Within(mailbox[i], rows, retired)
    /\ Within(reply, rows, retired) /\ Within(refused, rows, retired)
    /\ Within(DenyList, rows, retired)

Accounted ==
    link \in {"synced", "up"} =>
        \A m \in Committed : Known(m) \/ \E i \in 1..Len(mailbox) : mailbox[i] = m

Refusing == link # "off" => Covers(DenyList, refused)

-----------------------------------------------------------------------------
(* What Newest returns. *)

LEMMA NewestOfTwo ==
    ASSUME NEW a \in Nat, NEW b \in Nat
    PROVE  /\ Newest({a, b}) \in {a, b}
           /\ Newest({a, b}) >= a /\ Newest({a, b}) >= b
<1>1. \E x \in {a, b} : \A y \in {a, b} : x >= y
  <2>1. CASE a >= b
    BY <2>1
  <2>2. CASE b >= a
    BY <2>2
  <2> QED
    BY <2>1, <2>2
<1>2. Newest({a, b}) = CHOOSE x \in {a, b} : \A y \in {a, b} : x >= y
  BY DEF Newest, Max
<1> QED
  BY <1>1, <1>2

LEMMA NewestOfMany ==
    ASSUME NEW n \in Nat, NEW S \in SUBSET (1..n)
    PROVE  /\ Newest(S) \in S \cup {0}
           /\ \A v \in S : Newest(S) >= v
<1>1. CASE S = {}
  BY <1>1 DEF Newest
<1>2. CASE S # {}
  <2> DEFINE below == {n - v : v \in S}
             less == OpToRel(<, Nat)
  <2>1. below \subseteq Nat /\ below # {}
    <3>1. \A v \in S : n - v \in Nat
      OBVIOUS
    <3> QED
      BY <1>2, <3>1
  <2>2. PICK least \in below : \A d \in below : least <= d
    <3> HIDE DEF below
    <3>1. \E x \in below : \A y \in below : <<y, x>> \notin less
      <4> HIDE DEF less
      <4>1. IsWellFoundedOn(less, Nat)
        BY NatLessThanWellFounded DEF less
      <4> QED
        BY <2>1, <4>1, WFMin
    <3>2. \A x \in below, y \in below : <<y, x>> \notin less => x <= y
      BY <2>1 DEF OpToRel
    <3> QED
      BY <3>1, <3>2
  <2>3. PICK top \in S : least = n - top
    OBVIOUS
  <2>4. \A v \in S : top >= v
    <3> SUFFICES ASSUME NEW v \in S PROVE top >= v
      OBVIOUS
    <3>1. least <= n - v
      BY <2>2
    <3> QED
      BY <2>3, <3>1
  <2>5. Newest(S) = CHOOSE x \in S : \A y \in S : x >= y
    BY <1>2 DEF Newest, Max
  <2> QED
    BY <2>3, <2>4, <2>5
<1> QED
  BY <1>1, <1>2

LEMMA RememberRaises ==
    ASSUME NEW m \in Messages, Types, Remember(m)
    PROVE  /\ floor' \in {floor, m.version} /\ floor' >= floor /\ floor' >= m.version
           /\ deadKids' = deadKids \cup m.kids
           /\ DenyList' \in Messages
<1>1. floor \in Nat /\ m.version \in Nat
  BY RevocationAssumption DEF Types, Messages, DenyList, Message
<1>2. floor' = Newest({floor, m.version}) /\ deadKids' = deadKids \cup m.kids
  BY DEF Remember
<1>3. floor \in 0..MaxVersion /\ m.version \in 0..MaxVersion /\ deadKids \subseteq Kids /\ m.kids \subseteq Kids
  BY DEF Types, Messages, DenyList, Message
<1>4. DenyList' = [version |-> floor', kids |-> deadKids']
  BY DEF DenyList, Message
<1> QED
  BY <1>1, <1>2, <1>3, <1>4, NewestOfTwo DEF Messages

-----------------------------------------------------------------------------
(* Types *)

LEMMA NothingType == Nothing \in Messages
BY RevocationAssumption DEF Nothing, Message, Messages

LEMMA BothType ==
    ASSUME NEW m \in Messages, NEW n \in Messages
    PROVE  /\ Both(m, n) \in Messages
           /\ Both(m, n).version \in {m.version, n.version}
           /\ Both(m, n).version >= m.version /\ Both(m, n).version >= n.version
           /\ Both(m, n).kids = m.kids \cup n.kids
<1>1. m.version \in Nat /\ n.version \in Nat
  BY RevocationAssumption DEF Messages
<1>2. Newest({m.version, n.version}) \in {m.version, n.version}
  BY <1>1, NewestOfTwo
<1>3. Newest({m.version, n.version}) >= m.version /\ Newest({m.version, n.version}) >= n.version
  BY <1>1, NewestOfTwo
<1> QED
  BY <1>2, <1>3 DEF Both, Message, Messages

LEMMA BothCovered ==
    ASSUME NEW m \in Messages, NEW n \in Messages, Covers(n, m)
    PROVE  Covers(n, Both(m, n))
<1>1. m.version \in Nat /\ n.version \in Nat
  BY RevocationAssumption DEF Messages
<1> QED
  BY <1>1, BothType DEF Covers

LEMMA InitTypes == Init => Types
<1> SUFFICES ASSUME Init PROVE Types
  OBVIOUS
<1> USE NothingType, RevocationAssumption DEF Init
<1>1. DenyList \in Messages
  BY DEF DenyList, Message, Messages
<1>2. mailbox \in Seq(Messages) /\ Range(mailbox) = {}
  BY DEF Range
<1>3. seen \in [Requests -> (0..MaxVersion - 1) \cup {Idle}]
  OBVIOUS
<1>4. version \in 0..MaxVersion /\ minted \subseteq 0..MaxVersion
  OBVIOUS
<1>5. TypeOK
  BY <1>2, <1>3, <1>4 DEF TypeOK
<1> QED
  BY <1>1, <1>2, <1>5 DEF Types

\* CSP's requests touch neither studio nor the mail.
LEMMA RevokeTypes == Types /\ (Revoke \/ Mint \/ \E k \in Kids : KillKid(k) \/ AgeOutKid(k)) => Types'
<1> SUFFICES ASSUME Types, Revoke \/ Mint \/ \E k \in Kids : KillKid(k) \/ AgeOutKid(k) PROVE Types'
  OBVIOUS
<1> USE RevocationAssumption DEF Types, TypeOK, Idle
<1>1. ASSUME NEW r \in Requests, LoadUser(r) PROVE Types'
  BY <1>1 DEF LoadUser, studioVars, DenyList, Message
<1>2. ASSUME NEW r \in Requests, CommitRevocation(r) PROVE Types'
  <2>1. seen[r] + 1 \in 1..MaxVersion
    BY <1>2 DEF CommitRevocation
  <2>2. Message(seen[r] + 1, {}) \in Messages
    BY <2>1 DEF Message, Messages
  <2> QED
    <3>0. version' = seen[r] + 1 /\ rows' = rows \cup {seen[r] + 1}
      BY <1>2 DEF CommitRevocation
    <3>1. version' \in 0..MaxVersion /\ rows' \subseteq 1..MaxVersion
      <4> HIDE DEF Types, TypeOK
      <4>1. rows \subseteq 1..MaxVersion
        BY DEF Types, TypeOK
      <4>2. \A n \in 1..MaxVersion : n \in 0..MaxVersion
        OBVIOUS
      <4> QED
        BY <2>1, <3>0, <4>1, <4>2
    <3>2. seen' \in [Requests -> (0..MaxVersion - 1) \cup {Idle}]
      BY <1>2 DEF CommitRevocation
    <3>3. outbox' \subseteq Messages
      BY <1>2, <2>2 DEF CommitRevocation
    <3>4. UNCHANGED <<retired, killed, minted, studioVars>> /\ DenyList' = DenyList
      BY <1>2 DEF CommitRevocation, studioVars, DenyList
    <3> QED
      BY <3>1, <3>2, <3>3, <3>4 DEF studioVars
<1>3. ASSUME NEW r \in Requests, RollBack(r) PROVE Types'
  BY <1>3 DEF RollBack, studioVars, DenyList, Message
<1>4. CASE Mint
  BY <1>4 DEF Mint, studioVars, DenyList, Message
<1>5. ASSUME NEW k \in Kids, KillKid(k) PROVE Types'
  <2>1. Message(0, {k}) \in Messages
    BY DEF Message, Messages
  <2> QED
    BY <1>5, <2>1 DEF KillKid, studioVars, DenyList, Message
<1>6. ASSUME NEW k \in Kids, AgeOutKid(k) PROVE Types'
  BY <1>6 DEF AgeOutKid, studioVars, DenyList, Message
<1> QED
  BY <1>1, <1>2, <1>3, <1>4, <1>5, <1>6 DEF Revoke

LEMMA PublishTypes == Types /\ (\E m \in outbox : Publish(m) \/ PublishLost(m)) => Types'
<1> SUFFICES ASSUME Types, NEW m \in outbox, Publish(m) \/ PublishLost(m) PROVE Types'
  OBVIOUS
<1>0. m \in Messages /\ mailbox \in Seq(Messages)
  BY DEF Types, TypeOK
<1>1. CASE Publish(m)
  <2>1. mailbox' \in Seq(Messages) /\ (link # "up" => mailbox' = <<>>)
    BY <1>0, <1>1 DEF Publish, Types
  <2>2. Range(mailbox') \subseteq Messages
    BY <2>1 DEF Range
  <2> QED
    BY <1>1, <2>1, <2>2 DEF Publish, Types, TypeOK, cspVars, DenyList, Message
<1>2. CASE PublishLost(m)
  BY <1>2 DEF PublishLost, Fault, Types, TypeOK, cspVars, studioVars, DenyList, Message
<1> QED
  BY <1>1, <1>2

LEMMA StudioTypes == Types /\ (Studio \/ ReconnectFails \/ Cut \/ Restart) => Types'
<1> SUFFICES ASSUME Types, Studio \/ ReconnectFails \/ Cut \/ Restart PROVE Types'
  OBVIOUS
<1> USE DEF Types, TypeOK
<1>0. Range(<<>>) = {} /\ <<>> \in Seq(Messages)
  BY DEF Range
<1>1. CASE ColdStartSync
  <2>1. Newest(rows) \in rows \cup {0}
    BY RevocationAssumption, NewestOfMany
  <2>0. Message(Newest(rows), retired) \in Messages
    <3>0. rows \cup {0} \subseteq 0..MaxVersion
      BY RevocationAssumption
    <3>1. Newest(rows) \in 0..MaxVersion /\ retired \subseteq Kids
      BY <2>1, <3>0
    <3> QED
      BY <3>1 DEF Message, Messages
  <2>2. reply' \in Messages /\ Remember(reply')
    BY <1>1, <2>0 DEF ColdStartSync
  <2>3. DenyList' \in Messages
    BY <2>2, RememberRaises
  <2> QED
    BY <1>1, <2>2, <2>3 DEF ColdStartSync, cspVars
<1>2. CASE Subscribe
  <2>1. refused' \in Messages
    BY <1>2, BothType DEF Subscribe
  <2> QED
    BY <1>0, <1>2, <2>1 DEF Subscribe, cspVars, DenyList
<1>3. CASE HandleMessage
  <2>1. Head(mailbox) \in Messages /\ Tail(mailbox) \in Seq(Messages)
    BY <1>3, HeadTailProperties DEF HandleMessage
  <2>2. DenyList' \in Messages
    BY <1>3, <2>1, RememberRaises DEF HandleMessage
  <2>3. Range(Tail(mailbox)) \subseteq Messages
    BY <2>1 DEF Range
  <2>4. refused' \in Messages
    BY <1>3, <2>2, BothType DEF HandleMessage
  <2> QED
    BY <1>3, <2>1, <2>2, <2>3, <2>4 DEF HandleMessage, cspVars
<1>4. CASE NoticeCut
  BY <1>4 DEF NoticeCut, cspVars, DenyList
<1>5. CASE ReconnectFails
  BY <1>5 DEF ReconnectFails, Fault, cspVars, DenyList
<1>6. CASE Cut
  BY <1>0, <1>6 DEF Cut, Fault, cspVars, DenyList
<1>7. CASE Restart
  <2>1. DenyList' = Nothing
    BY <1>7 DEF Restart, DenyList, Nothing
  <2> QED
    BY <1>0, <1>7, <2>1, NothingType DEF Restart, cspVars
<1> QED
  BY <1>1, <1>2, <1>3, <1>4, <1>5, <1>6, <1>7 DEF Studio

LEMMA StepTypes == Types /\ [Next]_vars => Types'
<1> SUFFICES ASSUME Types, [Next]_vars PROVE Types'
  OBVIOUS
<1>1. CASE UNCHANGED vars
  BY <1>1 DEF vars, cspVars, studioVars, Types, TypeOK, DenyList
<1> QED
  BY <1>1, RevokeTypes, PublishTypes, StudioTypes DEF Next

\* Every reachable state is well typed; studio is ready exactly while it is
\* subscribed or has not yet noticed that it is not.
THEOREM TypeCorrect == Spec => []TypeOK
<1>1. Types => TypeOK
  BY DEF Types
<1> QED
  BY <1>1, InitTypes, StepTypes, PTL DEF Spec

-----------------------------------------------------------------------------
(* Whatever is under way or remembered was committed. *)

LEMMA BothWithin ==
    ASSUME NEW m \in Messages, NEW n \in Messages, NEW vs, NEW ks,
           Within(m, vs, ks), Within(n, vs, ks)
    PROVE  Within(Both(m, n), vs, ks)
BY BothType DEF Within

\* What was committed stays so: rows and retired keys only grow.
LEMMA CommitsGrow == [Next]_vars => rows \subseteq rows' /\ retired \subseteq retired'
BY DEF Next, vars, cspVars, studioVars, Revoke, Mint, LoadUser, CommitRevocation, RollBack,
       KillKid, AgeOutKid, Publish, PublishLost, Studio, ColdStartSync, Subscribe,
       HandleMessage, NoticeCut, ReconnectFails, Cut, Restart

LEMMA CommittedStep == Types /\ AllCommitted /\ [Next]_vars => AllCommitted'
<1> SUFFICES ASSUME Types, AllCommitted, [Next]_vars PROVE AllCommitted'
  OBVIOUS
<1>t. /\ outbox \subseteq Messages /\ mailbox \in Seq(Messages)
      /\ reply \in Messages /\ refused \in Messages /\ DenyList \in Messages
      /\ rows \subseteq 1..MaxVersion
  BY DEF Types, TypeOK
<1> DEFINE Sound(m) == Within(m, rows', retired')
<1>k. \A m : Within(m, rows, retired) => Sound(m)
  BY CommitsGrow DEF Within
\* What was in place before the step is committed after it.
<1>o. /\ \A m \in outbox : Sound(m)
      /\ \A i \in 1..Len(mailbox) : Sound(mailbox[i])
      /\ Sound(reply) /\ Sound(refused) /\ Sound(DenyList)
  <2> HIDE DEF Sound
  <2> QED
    BY <1>k DEF AllCommitted
<1>n. Sound(Nothing)
  BY DEF Within, Nothing, Message
<1> DEFINE Goal == /\ \A m \in outbox' : Sound(m)
                   /\ \A i \in 1..Len(mailbox') : Sound((mailbox')[i])
                   /\ Sound(reply') /\ Sound(refused') /\ Sound(DenyList')
<1> SUFFICES Goal
  BY DEF AllCommitted
<1> HIDE DEF Sound
<1>s. ASSUME UNCHANGED studioVars, \A m \in outbox' : Sound(m) PROVE Goal
  BY <1>o, <1>s DEF studioVars, DenyList
<1>1. CASE UNCHANGED vars
  BY <1>o, <1>s, <1>1 DEF vars
<1>2. ASSUME NEW r \in Requests, LoadUser(r) \/ RollBack(r) PROVE Goal
  BY <1>o, <1>s, <1>2 DEF LoadUser, RollBack
<1>3. ASSUME NEW r \in Requests, CommitRevocation(r) PROVE Goal
  <2>1. Sound(Message(seen[r] + 1, {}))
    BY <1>3 DEF CommitRevocation, Sound, Within, Message
  <2>2. outbox' = outbox \cup {Message(seen[r] + 1, {})} /\ UNCHANGED studioVars
    BY <1>3 DEF CommitRevocation
  <2> QED
    BY <1>o, <1>s, <2>1, <2>2
<1>4. CASE Mint
  BY <1>o, <1>s, <1>4 DEF Mint
<1>5. ASSUME NEW k \in Kids, KillKid(k) PROVE Goal
  <2>1. Sound(Message(0, {k}))
    BY <1>5 DEF KillKid, Sound, Within, Message
  <2>2. outbox' = outbox \cup {Message(0, {k})} /\ UNCHANGED studioVars
    BY <1>5 DEF KillKid
  <2> QED
    BY <1>o, <1>s, <2>1, <2>2
<1>6. ASSUME NEW m \in outbox, Publish(m) PROVE Goal
  <2>1. Sound(m) /\ m \in Messages
    BY <1>o, <1>t
  <2>2. /\ outbox' \subseteq outbox
        /\ UNCHANGED <<reply, floor, deadKids>>
        /\ mailbox' = Append(mailbox, m) \/ mailbox' = mailbox
        /\ UNCHANGED refused
    BY <1>6 DEF Publish
  <2>4. \A i \in 1..Len(Append(mailbox, m)) : Sound(Append(mailbox, m)[i])
    BY <1>o, <1>t, <2>1, AppendProperties
  <2> QED
    BY <1>o, <2>2, <2>4 DEF DenyList
<1>7. ASSUME NEW m \in outbox, PublishLost(m) PROVE Goal
  BY <1>o, <1>s, <1>7 DEF PublishLost
<1>8. CASE ColdStartSync
  <2>1. Newest(rows) \in rows \cup {0}
    BY <1>t, RevocationAssumption, NewestOfMany
  <2>2. /\ reply' = Message(Newest(rows), retired) /\ Remember(reply')
        /\ UNCHANGED <<outbox, mailbox, refused, rows, retired>>
    BY <1>8 DEF ColdStartSync, cspVars
  <2>3. Sound(reply')
    BY <2>1, <2>2 DEF Sound, Within, Message
  <2>4. reply' \in Messages
    BY <1>8, StepTypes DEF Types, Next, Studio
  <2>5. floor' \in {floor, reply'.version} /\ deadKids' = deadKids \cup reply'.kids
    BY <2>2, <2>4, RememberRaises
  <2>6. Sound(DenyList')
    BY <1>o, <2>3, <2>5 DEF Sound, Within, DenyList, Message
  <2> QED
    BY <1>o, <2>2, <2>3, <2>6
<1>9. CASE Subscribe
  <2>1. Sound(Both(refused, DenyList))
    BY <1>o, <1>t, BothWithin DEF Sound
  <2>2. /\ UNCHANGED <<outbox, reply, floor, deadKids>> /\ mailbox' = <<>>
        /\ refused' = Both(refused, DenyList)
    BY <1>9 DEF Subscribe
  <2> QED
    BY <1>o, <2>1, <2>2 DEF DenyList
<1>10. CASE HandleMessage
  <2>1. /\ mailbox # <<>> /\ Remember(Head(mailbox)) /\ mailbox' = Tail(mailbox)
        /\ UNCHANGED <<outbox, reply>> /\ refused' = Both(refused, DenyList')
    BY <1>10 DEF HandleMessage
  <2>2. Sound(Head(mailbox)) /\ Head(mailbox) \in Messages
    BY <1>o, <1>t, <2>1, HeadTailProperties
  <2>3. floor' \in {floor, Head(mailbox).version} /\ deadKids' = deadKids \cup Head(mailbox).kids
    BY <2>1, <2>2, RememberRaises
  <2>4. Sound(DenyList')
    BY <1>o, <2>2, <2>3 DEF Sound, Within, DenyList, Message
  <2>5. \A i \in 1..Len(mailbox') : i + 1 \in 1..Len(mailbox) /\ mailbox'[i] = mailbox[i + 1]
    BY <1>t, <2>1, HeadTailProperties
  <2>6. DenyList' \in Messages
    BY <2>1, <2>2, RememberRaises
  <2>7. Sound(refused')
    BY <1>o, <1>t, <2>1, <2>4, <2>6, BothWithin DEF Sound
  <2> QED
    BY <1>o, <2>1, <2>4, <2>5, <2>7
<1>11. ASSUME NoticeCut \/ ReconnectFails \/ Cut PROVE Goal
  <2>1. /\ UNCHANGED <<outbox, reply, floor, deadKids, refused>>
        /\ mailbox' = mailbox \/ mailbox' = <<>>
    BY <1>11 DEF NoticeCut, ReconnectFails, Cut
  <2> QED
    BY <1>o, <2>1 DEF DenyList
<1>12. CASE Restart
  <2>1. /\ outbox' = outbox /\ mailbox' = <<>>
        /\ reply' = Nothing /\ refused' = refused /\ DenyList' = Nothing
    BY <1>12 DEF Restart, DenyList, Nothing
  <2> QED
    BY <1>n, <1>o, <2>1
<1>13. ASSUME NEW k \in Kids, AgeOutKid(k) PROVE Goal
  BY <1>o, <1>s, <1>13 DEF AgeOutKid
<1> QED
  BY <1>1, <1>2, <1>3, <1>4, <1>5, <1>6, <1>7, <1>8, <1>9, <1>10, <1>11, <1>12, <1>13
  DEF Next, Revoke, Studio

LEMMA CommittedInit == Init => AllCommitted
BY DEF Init, AllCommitted, Within, Nothing, DenyList, Message

LEMMA AlwaysCommitted == Spec => [](Types /\ AllCommitted)
BY InitTypes, StepTypes, CommittedInit, CommittedStep, PTL DEF Spec

\* Nobody is refused for a revocation that was not committed.
THEOREM OnlyCommittedAlwaysCounts == Spec => []OnlyCommittedCounts
<1>1. AllCommitted => OnlyCommittedCounts
  BY DEF AllCommitted, Within, DenyList, Message, OnlyCommittedCounts
<1> QED
  BY <1>1, AlwaysCommitted, PTL

-----------------------------------------------------------------------------
(* What a replay brings back, and what studio has heard since. *)

\* The replay covers all that was committed, hence whatever studio ever refused.
LEMMA ReplayCovers ==
    ASSUME Types, ColdStartSync
    PROVE  /\ DenyList' \in Messages
           /\ \A m \in Messages : Within(m, rows, retired) => Covers(DenyList', m)
<1>1. reply' = Message(Newest(rows), retired) /\ Remember(reply')
  BY DEF ColdStartSync
<1>2. rows \subseteq 1..MaxVersion /\ MaxVersion \in Nat
  BY RevocationAssumption DEF Types, TypeOK
<1>3. Newest(rows) \in rows \cup {0} /\ \A v \in rows : Newest(rows) >= v
  BY <1>2, NewestOfMany
<1>4. \A v \in rows \cup {0} : Newest(rows) >= v
  <2> DEFINE top == Newest(rows)
  <2>1. rows \cup {0} \subseteq Nat
    BY <1>2
  <2>2. top \in Nat
    BY <1>3, <2>1
  <2> QED
    BY <1>3, <2>2
<1>5. reply' \in Messages
  BY StepTypes DEF Types, Next, Studio
<1>6. /\ floor' >= reply'.version /\ deadKids' = deadKids \cup reply'.kids
      /\ DenyList' \in Messages
  BY <1>1, <1>5, RememberRaises
<1>7. reply'.version = Newest(rows) /\ reply'.kids = retired
  BY <1>1 DEF Message
<1>8. floor' \in Nat /\ \A v \in rows \cup {0} : v \in Nat
  BY <1>2, <1>6 DEF DenyList, Message, Messages
<1>9. Newest(rows) \in Nat
  BY <1>3, <1>8
<1>10. \A v \in rows \cup {0} : floor' >= v
  BY <1>4, <1>6, <1>7, <1>8, <1>9
<1> QED
  BY <1>6, <1>7, <1>10 DEF Covers, DenyList, Message, Within

\* Taking in a message loses nothing that was known, and makes the message known.
LEMMA RememberCovers ==
    ASSUME Types, NEW m \in Messages, Remember(m), NEW n \in Messages,
           Covers(DenyList, n) \/ n = m
    PROVE  Covers(DenyList', n)
<1>1. /\ floor' >= floor /\ floor' >= m.version
      /\ deadKids' = deadKids \cup m.kids /\ DenyList' \in Messages
  BY RememberRaises
<1>2. floor \in Nat /\ floor' \in Nat /\ n.version \in Nat
  BY <1>1, RevocationAssumption DEF Types, Messages, DenyList, Message
<1> QED
  BY <1>1, <1>2 DEF Covers, DenyList, Message

LEMMA CommittedMessages ==
    ASSUME Types
    PROVE  /\ Committed \subseteq Messages
           /\ \A m \in Committed : Within(m, rows, retired)
<1>1. rows \subseteq 1..MaxVersion /\ killed \subseteq retired /\ retired \subseteq Kids
  BY DEF Types, TypeOK
<1> QED
  BY <1>1, RevocationAssumption DEF Committed, Message, Messages, Within

\* Only the commits of CSP make something new to be heard of, and they announce it.
LEMMA CommittedGrows ==
    ASSUME [Next]_vars
    PROVE  \A m \in Committed' : m \in Committed \/ m \in outbox'
<1>1. ASSUME NEW r \in Requests, CommitRevocation(r)
      PROVE  \A m \in Committed' : m \in Committed \/ m \in outbox'
  BY <1>1 DEF CommitRevocation, Committed
<1>2. ASSUME NEW k \in Kids, KillKid(k)
      PROVE  \A m \in Committed' : m \in Committed \/ m \in outbox'
  BY <1>2 DEF KillKid, Committed
<1>3. ASSUME UNCHANGED <<rows, killed>>
      PROVE  \A m \in Committed' : m \in Committed \/ m \in outbox'
  BY <1>3 DEF Committed
<1>4. \/ \E r \in Requests : CommitRevocation(r)
      \/ \E k \in Kids : KillKid(k)
      \/ UNCHANGED <<rows, killed>>
  BY DEF Next, vars, cspVars, Revoke, Mint, LoadUser, RollBack, AgeOutKid, Publish,
         PublishLost, Studio, ColdStartSync, Subscribe, HandleMessage, NoticeCut,
         ReconnectFails, Cut, Restart
<1> QED
  BY <1>1, <1>2, <1>3, <1>4

LEMMA AccountedStep == Types /\ Accounted /\ [Next]_vars => Accounted'
<1> SUFFICES ASSUME Types, Accounted, [Next]_vars,
                    link' \in {"synced", "up"}, NEW m \in Committed', m \notin outbox'
             PROVE  Known(m)' \/ \E i \in 1..Len(mailbox') : mailbox'[i] = m
  BY DEF Accounted, Known
<1>1. m \in Committed /\ m \in Messages /\ Within(m, rows, retired)
  BY CommittedGrows, CommittedMessages
<1>2. mailbox \in Seq(Messages)
  BY DEF Types
<1>3. CASE ColdStartSync
  BY <1>1, <1>3, ReplayCovers DEF Known
<1> SUFFICES ASSUME ~ColdStartSync
             PROVE  Known(m)' \/ \E i \in 1..Len(mailbox') : mailbox'[i] = m
  BY <1>3
<1>4. link \in {"synced", "up"}
  BY DEF Next, vars, cspVars, studioVars, Revoke, Mint, LoadUser, CommitRevocation, RollBack,
         KillKid, AgeOutKid, Publish, PublishLost, Studio, Subscribe, HandleMessage, NoticeCut,
         ReconnectFails, Cut, Restart
<1>5. \/ Covers(DenyList, m) \/ m \in outbox \/ m \in unheard
      \/ \E i \in 1..Len(mailbox) : mailbox[i] = m
  BY <1>1, <1>4 DEF Accounted, Known
<1>6. ASSUME NEW n \in outbox, Publish(n), link = "up"
      PROVE  Known(m)' \/ \E i \in 1..Len(mailbox') : mailbox'[i] = m
  <2>1. /\ mailbox' = Append(mailbox, n) /\ outbox' = outbox \ {n}
        /\ UNCHANGED <<floor, deadKids, unheard>>
    BY <1>6 DEF Publish
  <2>2. n \in Messages
    BY DEF Types, TypeOK
  <2>3. /\ Len(mailbox') = Len(mailbox) + 1 /\ Len(mailbox) \in Nat
        /\ \A i \in 1..Len(mailbox) : i \in 1..Len(mailbox') /\ mailbox'[i] = mailbox[i]
        /\ Len(mailbox') \in 1..Len(mailbox') /\ mailbox'[Len(mailbox')] = n
    BY <1>2, <2>1, <2>2, AppendProperties
  <2>4. m \in outbox => m = n
    BY <2>1
  <2> QED
    BY <1>5, <2>1, <2>3, <2>4 DEF Known, DenyList
<1>7. ASSUME NEW n \in outbox, (Publish(n) /\ link # "up") \/ PublishLost(n)
      PROVE  Known(m)' \/ \E i \in 1..Len(mailbox') : mailbox'[i] = m
  <2>1. /\ outbox' = outbox \ {n} /\ unheard' = unheard \cup {n}
        /\ UNCHANGED <<floor, deadKids, mailbox>>
    BY <1>7 DEF Publish, PublishLost, studioVars
  <2> QED
    BY <1>5, <2>1 DEF Known, DenyList
<1>8. CASE HandleMessage
  <2>1. /\ mailbox # <<>> /\ Remember(Head(mailbox)) /\ mailbox' = Tail(mailbox)
        /\ UNCHANGED <<outbox, unheard>>
    BY <1>8 DEF HandleMessage
  <2>2. Head(mailbox) \in Messages /\ Head(mailbox) = mailbox[1]
    BY <1>2, <2>1, HeadTailProperties
  <2>3. \A i \in 1..Len(mailbox) :
          i = 1 \/ (i - 1 \in 1..Len(mailbox') /\ mailbox'[i - 1] = mailbox[i])
    BY <1>2, <2>1, HeadTailProperties
  <2>4. CASE Covers(DenyList, m) \/ m = Head(mailbox)
    <3>1. Covers(DenyList', m)
      BY <1>1, <2>1, <2>2, <2>4, RememberCovers
    <3> QED
      BY <3>1 DEF Known
  <2>5. ASSUME NEW i \in 1..Len(mailbox), mailbox[i] = m, m # Head(mailbox)
        PROVE  \E j \in 1..Len(mailbox') : mailbox'[j] = m
    BY <2>2, <2>3, <2>5
  <2> QED
    BY <1>5, <2>1, <2>4, <2>5 DEF Known
<1>9. CASE Subscribe
  <2>1. link = "synced" /\ UNCHANGED <<outbox, unheard, floor, deadKids>>
    BY <1>9 DEF Subscribe
  <2>2. 1..Len(mailbox) = {}
    BY <2>1 DEF Types
  <2> QED
    BY <1>5, <2>1, <2>2 DEF Known, DenyList
<1>10. CASE UNCHANGED <<unheard, floor, deadKids, mailbox>> /\ outbox \subseteq outbox'
  BY <1>5, <1>10 DEF Known, DenyList
<1>11. \/ \E n \in outbox : Publish(n) \/ PublishLost(n)
       \/ HandleMessage \/ Subscribe
       \/ UNCHANGED <<unheard, floor, deadKids, mailbox>> /\ outbox \subseteq outbox'
  BY DEF Next, vars, cspVars, studioVars, Revoke, Mint, LoadUser, CommitRevocation, RollBack,
         KillKid, AgeOutKid, Studio, NoticeCut, ReconnectFails, Cut, Restart
<1> QED
  BY <1>6, <1>7, <1>8, <1>9, <1>10, <1>11

\* A listening service that has read its mail refuses all that was committed, except what
\* CSP has not announced yet and the broadcasts missed since the last replay.
THEOREM HeardIsAlwaysKnown == Spec => []HeardIsKnown
<1>1. Init => Accounted
  BY DEF Init, Accounted
<1>2. Accounted => HeardIsKnown
  <2> SUFFICES ASSUME Accounted, link = "up", mailbox = <<>>, NEW m \in Committed
               PROVE  Known(m)
    BY DEF HeardIsKnown
  <2>1. 1..Len(mailbox) = {}
    OBVIOUS
  <2> QED
    BY <2>1 DEF Accounted
<1> QED
  BY <1>1, <1>2, InitTypes, StepTypes, AccountedStep, PTL DEF Spec

LEMMA RefusingStep == Types /\ AllCommitted /\ Refusing /\ [Next]_vars => Refusing'
<1> SUFFICES ASSUME Types, AllCommitted, Refusing, [Next]_vars, link' # "off"
             PROVE  Covers(DenyList', refused')
  BY DEF Refusing
<1>1. /\ refused \in Messages /\ DenyList \in Messages /\ mailbox \in Seq(Messages)
      /\ Within(refused, rows, retired)
  BY DEF Types, AllCommitted
<1>2. CASE ColdStartSync
  BY <1>1, <1>2, ReplayCovers DEF ColdStartSync
<1>3. CASE HandleMessage
  <2>1. /\ link # "off" /\ mailbox # <<>> /\ Remember(Head(mailbox))
        /\ refused' = Both(refused, DenyList')
    BY <1>3 DEF HandleMessage
  <2>2. Head(mailbox) \in Messages
    BY <1>1, <2>1, HeadTailProperties
  <2>3. DenyList' \in Messages /\ Covers(DenyList', refused)
    BY <1>1, <2>1, <2>2, RememberRaises, RememberCovers DEF Refusing
  <2> QED
    BY <1>1, <2>1, <2>3, BothCovered
<1>4. CASE Subscribe
  <2>1. link # "off" /\ refused' = Both(refused, DenyList) /\ DenyList' = DenyList
    BY <1>4 DEF Subscribe, DenyList
  <2> QED
    BY <1>1, <2>1, BothCovered DEF Refusing
<1>5. CASE UNCHANGED <<floor, deadKids, refused>> /\ link # "off"
  BY <1>5 DEF Refusing, DenyList
<1>6. \/ ColdStartSync \/ HandleMessage \/ Subscribe
      \/ UNCHANGED <<floor, deadKids, refused>> /\ link # "off"
  BY DEF Next, vars, cspVars, studioVars, Revoke, Mint, LoadUser, CommitRevocation, RollBack,
         KillKid, AgeOutKid, Publish, PublishLost, Studio, NoticeCut, ReconnectFails, Cut, Restart
<1> QED
  BY <1>2, <1>3, <1>4, <1>5, <1>6

\* What studio has refused once it refuses whenever it answers: no late event, no replay
\* and no restart brings a revoked token back.
THEOREM RevokedStaysRefused == Spec => []RefusedStaysRefused
<1>1. Init => Refusing
  BY DEF Init, Refusing
<1>2. Types /\ Refusing => RefusedStaysRefused
  BY DEF Types, TypeOK, Refusing, RefusedStaysRefused
<1> QED
  BY <1>1, <1>2, InitTypes, StepTypes, CommittedInit, CommittedStep, RefusingStep, PTL DEF Spec
=============================================================================
