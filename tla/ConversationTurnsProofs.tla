----------------------- MODULE ConversationTurnsProofs -----------------------
(*************************************************************************)
(* Proofs about ConversationTurns, for any number of tabs, rows,         *)
(* requests, siblings and failures.                                      *)
(*                                                                       *)
(* None of the properties is inductive.  The invariant Inv has four      *)
(* parts. Shape: the types, and that nothing refers to an id not yet     *)
(* given out, so that new rows break no promise made about old ones.     *)
(* Tree: questions and answers alternate, the leaf is a tip, and a row's *)
(* parent has a smaller id, so that walking down to the newest child     *)
(* ends at a tip and what is left of a deletion has a top.  Patches: a   *)
(* patch in flight was decided on a row that may have changed since; it  *)
(* still agrees with the row on whether it has an envelope at all, and   *)
(* if the row still waits for its answer the patch is its writer's.      *)
(* Answers: a task that has not written finds its row reserved for the   *)
(* server, so that no patch of it is in flight; a task that has written  *)
(* and a notification agree with the row, and so does every patch of     *)
(* that row that is in flight.                                           *)
(*                                                                       *)
(* The last two are what makes the unlocked PUT harmless: a write        *)
(* decided earlier neither reopens a finished row nor lands in a row     *)
(* that another writer holds.                                            *)
(*************************************************************************)
EXTENDS ConversationTurns, WellFoundedInduction, TLAPS

JobRecords == [stage : {"queued", "calling", "telling"},
               asked : {Root} \cup Ids, verdict : {"none", "complete", "failed"}]

Shape ==
    /\ TypeOK
    /\ rows \in [DOMAIN rows -> MessageRows]
    /\ jobs \in [DOMAIN jobs -> JobRecords]
    /\ \A r \in requests : r.row < next
    /\ \A m \in DOMAIN jobs : m < next
    /\ \A n \in notices : n.row < next

\* The rows are a tree that grows downwards, with the leaf at one of its tips.
Tree ==
    /\ TurnsAlternate
    /\ LeafIsATip
    /\ \A m \in DOMAIN rows : rows[m].parent < m
    /\ DOMAIN rows = {} => leaf = Root

\* A patch under way was admitted for the row as it is, or as it was before it was finished.
Patches ==
    \A r \in requests : r.row \in DOMAIN rows =>
        /\ r.put.state = "none" <=> rows[r.row].state = "none"
        /\ rows[r.row].state = "reserved" => r.by = rows[r.row].writer

Background(m) == m \in DOMAIN jobs \/ \E n \in notices : n.row = m

\* What a task, a notification and a patch say of the row of a background answer.
Answers ==
    /\ \A m \in DOMAIN jobs :
         /\ \A n \in notices : n.row # m
         /\ jobs[m].stage = "telling" => jobs[m].verdict # "none"
         /\ m \in DOMAIN rows =>
              IF jobs[m].stage = "telling"
              THEN /\ rows[m].state = jobs[m].verdict
                   /\ jobs[m].verdict = "complete" => rows[m].text = "whole"
              ELSE rows[m].writer = Server
    /\ \A r \in requests : r.row \in DOMAIN rows /\ Background(r.row) =>
         /\ r.put.state = rows[r.row].state
         /\ rows[r.row].state = "complete" => r.text \in {"whole", "same"}
    /\ NoticeTellsTheTruth
-----------------------------------------------------------------------------
(* Sets of ids: the least and the largest. *)

LEMMA LeastId ==
    ASSUME NEW S \in SUBSET Nat, S # {}
    PROVE  \E x \in S : \A y \in S : x <= y
<1> DEFINE less == OpToRel(<, Nat)
<1>1. \E x \in S : \A y \in S : <<y, x>> \notin less
  <2> HIDE DEF less
  <2>1. IsWellFoundedOn(less, Nat)
    BY NatLessThanWellFounded DEF less
  <2> QED
    BY <2>1, WFMin
<1>2. \A x \in S, y \in S : <<y, x>> \notin less => x <= y
  BY DEF OpToRel
<1> QED
  BY <1>1, <1>2

LEMMA LargestId ==
    ASSUME NEW n \in Nat, NEW S \in SUBSET (0..n), S # {}
    PROVE  Max(S) \in S /\ \A y \in S : Max(S) >= y
<1> DEFINE below == {n - v : v \in S}
<1>1. below \in SUBSET Nat /\ below # {}
  <2>1. \A v \in S : n - v \in Nat
    OBVIOUS
  <2>2. \A d \in below : d \in Nat
    BY <2>1
  <2>3. \E v \in S : n - v \in below
    OBVIOUS
  <2> HIDE DEF below
  <2> QED
    BY <2>2, <2>3
<1>2. PICK least \in below : \A d \in below : least <= d
  <2> HIDE DEF below
  <2> QED
    BY <1>1, LeastId
<1>3. PICK top \in S : least = n - top
  OBVIOUS
<1>4. \A v \in S : top >= v
  <2> SUFFICES ASSUME NEW v \in S PROVE top >= v
    OBVIOUS
  <2>1. least <= n - v
    BY <1>2
  <2> QED
    BY <1>3, <2>1
<1> QED
  BY <1>3, <1>4 DEF Max
-----------------------------------------------------------------------------
(* The tree. *)

Grown(t) == DOMAIN t \subseteq Ids /\ \A k \in DOMAIN t : t[k].parent \in {Root} \cup Ids /\ t[k].parent < k

\* From a message down to the newest child of the newest child, and so on, one comes to
\* a message with nothing below it.
LEMMA NewestIsATip ==
    ASSUME NEW t, Grown(t), NEW m \in DOMAIN t
    PROVE  NewestUnder(t, m) \in DOMAIN t /\ Children(t, NewestUnder(t, m)) = {}
<1> DEFINE closed == {S \in SUBSET {k \in DOMAIN t : k >= m} :
                        /\ m \in S
                        /\ \A k \in S : Children(t, k) # {} => Max(Children(t, k)) \in S}
           chain == {k \in DOMAIN t : \A S \in closed : k \in S}
           last == NewestUnder(t, m)
<1>1. last = Max(chain)
  BY DEF NewestUnder
<1>2. m \in chain /\ chain \subseteq DOMAIN t
  OBVIOUS
<1>3. DOMAIN t \subseteq 0..MaxRows
  BY RowsAssumption DEF Grown, Ids
<1>4. last \in chain /\ \A k \in chain : last >= k
  <2> HIDE DEF chain
  <2> QED
    BY <1>1, <1>2, <1>3, RowsAssumption, LargestId
<1>5. ASSUME Children(t, last) # {} PROVE FALSE
  <2> DEFINE child == Max(Children(t, last))
  <2>1. Children(t, last) \in SUBSET (0..MaxRows)
    BY <1>3 DEF Children
  <2>2. child \in Children(t, last)
    BY <1>5, <2>1, RowsAssumption, LargestId
  <2>3. child \in DOMAIN t /\ child > last /\ child \in Nat /\ last \in Nat
    BY <1>2, <1>3, <1>4, <2>2 DEF Children, Grown
  <2>4. \A S \in closed : child \in S
    BY <1>4, <1>5
  <2>5. child \in chain
    BY <2>3, <2>4
  <2> QED
    BY <1>4, <2>3, <2>5
<1> QED
  BY <1>2, <1>4, <1>5

\* What is left when a branch goes holds the parents of what it holds.
LEMMA SubtreeClosed ==
    ASSUME NEW t, NEW m, NEW k \in DOMAIN t, t[k].parent \in Subtree(t, m)
    PROVE  k \in Subtree(t, m)
<1> DEFINE closed == {S \in SUBSET DOMAIN t : /\ m \in S
                                             /\ \A j \in DOMAIN t : t[j].parent \in S => j \in S}
<1>1. Subtree(t, m) = {j \in DOMAIN t : \A S \in closed : j \in S}
  BY DEF Subtree
<1>2. \A S \in closed : t[k].parent \in S
  BY <1>1
<1>3. \A S \in closed : k \in S
  BY <1>2
<1> QED
  BY <1>1, <1>3
-----------------------------------------------------------------------------
(* What Insert does. *)

LEMMA InsertMoves ==
    ASSUME Shape, NEW new \in Seq(MessageRows), new # <<>>, Insert(new)
    PROVE  /\ Len(new) \in Nat \ {0} /\ next + Len(new) <= MaxRows + 1
           /\ next' = next + Len(new) /\ leaf' = next + Len(new) - 1
           /\ DOMAIN rows' = DOMAIN rows \cup next..leaf'
           /\ rows' \in [DOMAIN rows' -> MessageRows]
           /\ \A m \in DOMAIN rows : m < next /\ rows'[m] = rows[m]
           /\ \A m \in next..leaf' : rows'[m] = new[m - next + 1]
           /\ next..leaf' \subseteq Ids /\ leaf' \in Ids /\ next' \in 1..(MaxRows + 1)
<1>1. Len(new) \in Nat \ {0} /\ DOMAIN new = 1..Len(new) /\ \A i \in 1..Len(new) : new[i] \in MessageRows
  BY DEF Shape
<1>2. next \in 1..(MaxRows + 1) /\ next \in Nat /\ MaxRows \in Nat
  BY RowsAssumption DEF Shape, TypeOK
<1>3. /\ next + Len(new) <= MaxRows + 1 /\ next' = next + Len(new) /\ leaf' = next + Len(new) - 1
      /\ rows' = [m \in DOMAIN rows \cup {next + i - 1 : i \in DOMAIN new} |->
                    IF m \in DOMAIN rows THEN rows[m] ELSE new[m - next + 1]]
  BY DEF Insert
<1>4. {next + i - 1 : i \in DOMAIN new} = next..leaf'
  <2>1. \A i \in DOMAIN new : next + i - 1 \in next..leaf'
    BY <1>1, <1>2, <1>3
  <2>2. \A m \in next..leaf' : m - next + 1 \in DOMAIN new /\ m = next + (m - next + 1) - 1
    BY <1>1, <1>2, <1>3
  <2> QED
    BY <2>1, <2>2
<1>5. \A m \in DOMAIN rows : m < next /\ m \in Nat
  BY DEF Shape, TypeOK, Ids
<1>6. \A m \in next..leaf' : m \notin DOMAIN rows /\ m - next + 1 \in 1..Len(new)
  BY <1>1, <1>2, <1>3, <1>5
<1>7. DOMAIN rows' = DOMAIN rows \cup next..leaf'
  BY <1>3, <1>4
<1>8. \A m \in DOMAIN rows : rows'[m] = rows[m]
  BY <1>3
<1>9. \A m \in next..leaf' : rows'[m] = new[m - next + 1]
  BY <1>3, <1>4, <1>6
<1>10. \A m \in DOMAIN rows' : rows'[m] \in MessageRows
  BY <1>1, <1>6, <1>7, <1>8, <1>9 DEF Shape
<1>11. rows' \in [DOMAIN rows' -> MessageRows]
  BY <1>3, <1>10
<1>12. next..leaf' \subseteq Ids /\ leaf' \in Ids /\ next' \in 1..(MaxRows + 1)
  BY <1>1, <1>2, <1>3 DEF Ids
<1> QED
  BY <1>1, <1>3, <1>5, <1>7, <1>8, <1>9, <1>11, <1>12

LEMMA RowTypes ==
    ASSUME NEW parent \in {Root} \cup Ids, NEW w \in Tabs \cup {Server}
    PROVE  /\ Question(parent) \in MessageRows /\ Question(parent).parent = parent
           /\ Question(parent).role = "user" /\ Question(parent).state = "none"
           /\ Reserved(parent, w) \in MessageRows /\ Reserved(parent, w).parent = parent
           /\ Reserved(parent, w).role = "assistant" /\ Reserved(parent, w).writer = w
           /\ Reserved(parent, w).state = "reserved"
           /\ Unanswered(parent) \in MessageRows /\ Unanswered(parent).parent = parent
           /\ Unanswered(parent).role = "assistant" /\ Unanswered(parent).state = "unanswered"
           /\ w # Nobody
BY WritersAssumption DEF Question, Reserved, Unanswered, Row, MessageRows, States, Terminal, Texts

\* New rows extend the tree: each hangs below the root, an older row or the row before it,
\* a question below an answer and an answer below a question.
Fits(new) ==
    \A i \in 1..Len(new) :
        \/ new[i].parent = Root /\ new[i].role = "user"
        \/ new[i].parent \in DOMAIN rows /\ new[i].role # rows[new[i].parent].role
        \/ i > 1 /\ new[i].parent = next + i - 2 /\ new[i].role # new[i - 1].role

LEMMA InsertGrowsTree ==
    ASSUME Shape, Tree, NEW new \in Seq(MessageRows), new # <<>>, Insert(new), Fits(new)
    PROVE  Tree'
<1>1. /\ Len(new) \in Nat \ {0} /\ leaf' = next + Len(new) - 1
      /\ DOMAIN rows' = DOMAIN rows \cup next..leaf'
      /\ \A m \in DOMAIN rows : m < next /\ rows'[m] = rows[m]
      /\ \A m \in next..leaf' : rows'[m] = new[m - next + 1]
  BY InsertMoves
<1>2. next \in Nat \ {0} /\ \A m \in DOMAIN rows : m \in Nat \ {0}
  BY RowsAssumption DEF Shape, TypeOK, Ids
<1>3. ASSUME NEW m \in next..leaf'
      PROVE  \/ rows'[m].parent = Root /\ rows'[m].role = "user"
             \/ rows'[m].parent \in DOMAIN rows /\ rows'[m].role # rows[rows'[m].parent].role
             \/ /\ rows'[m].parent = m - 1 /\ m - 1 \in next..leaf'
                /\ rows'[m].role # rows'[m - 1].role
  <2> DEFINE i == m - next + 1
  <2>1. i \in 1..Len(new) /\ rows'[m] = new[i] /\ next + i - 2 = m - 1
    BY <1>1, <1>2
  <2>2. CASE i > 1 /\ new[i].parent = next + i - 2 /\ new[i].role # new[i - 1].role
    <3>1. m - 1 \in next..leaf' /\ m - 1 - next + 1 = i - 1
      BY <1>1, <1>2, <2>2
    <3>2. rows'[m - 1] = new[m - 1 - next + 1]
      BY <1>1, <3>1
    <3> QED
      BY <2>1, <2>2, <3>1, <3>2
  <2> HIDE DEF i
  <2> QED
    BY <2>1, <2>2 DEF Fits
<1>4. TurnsAlternate'
  <2> SUFFICES ASSUME NEW m \in DOMAIN rows'
               PROVE  IF rows'[m].parent = Root THEN rows'[m].role = "user"
                      ELSE /\ rows'[m].parent \in DOMAIN rows'
                           /\ rows'[m].role # rows'[rows'[m].parent].role
    BY DEF TurnsAlternate
  <2>1. CASE m \in DOMAIN rows
    BY <1>1, <2>1 DEF Tree, TurnsAlternate
  <2>2. CASE m \in next..leaf'
    <3>1. Root \notin DOMAIN rows /\ m - 1 = Root => FALSE \/ m - 1 \notin next..leaf'
      BY <1>1, <1>2 DEF Root
    <3>2. Root \notin DOMAIN rows /\ Root \notin next..leaf'
      BY <1>1, <1>2 DEF Root
    <3> QED
      BY <1>1, <1>3, <2>2, <3>2
  <2> QED
    BY <1>1, <2>1, <2>2
<1>5. \A m \in DOMAIN rows' : rows'[m].parent < m
  <2>1. \A m \in DOMAIN rows : rows'[m].parent < m
    BY <1>1 DEF Tree
  <2>2. \A m \in next..leaf' : rows'[m].parent < m
    BY <1>1, <1>2, <1>3 DEF Root
  <2> QED
    BY <1>1, <2>1, <2>2
<1>6. LeafIsATip' /\ DOMAIN rows' # {}
  <2>1. leaf' \in next..leaf'
    BY <1>1, <1>2
  <2>2. ASSUME NEW k \in DOMAIN rows', rows'[k].parent = leaf' PROVE FALSE
    <3>1. k > leaf'
      BY <1>5, <2>2
    <3>2. k \in Nat
      BY <1>1, <1>2
    <3> QED
      BY <1>1, <1>2, <3>1, <3>2
  <2> QED
    BY <1>1, <2>1, <2>2 DEF LeafIsATip, Children
<1> QED
  BY <1>4, <1>5, <1>6 DEF Tree

LEMMA TreeTypes ==
    ASSUME Shape, Tree
    PROVE  /\ \A m \in DOMAIN rows : m \in Ids /\ rows[m].parent \in {Root} \cup Ids
           /\ leaf \in {Root} \cup Ids /\ next \in Nat \ {0} /\ next <= MaxRows + 1
           /\ leaf # Root => leaf \in DOMAIN rows
           /\ \A m \in DOMAIN rows : rows[m].parent # Root => rows[m].parent \in DOMAIN rows
           /\ Grown(rows)
<1>1. \A m \in DOMAIN rows : m \in Ids /\ rows[m].parent \in {Root} \cup Ids
  BY DEF Shape, TypeOK, MessageRows
<1>2. leaf \in {Root} \cup Ids /\ next \in Nat \ {0} /\ next <= MaxRows + 1
  BY RowsAssumption DEF Shape, TypeOK
<1>3. /\ leaf # Root => leaf \in DOMAIN rows
      /\ \A m \in DOMAIN rows : rows[m].parent # Root => rows[m].parent \in DOMAIN rows
  BY DEF Tree, LeafIsATip, TurnsAlternate
<1>4. Grown(rows)
  BY <1>1 DEF Tree, Grown
<1> QED
  BY <1>1, <1>2, <1>3, <1>4

LEMMA TurnFits ==
    ASSUME Shape, Tree, NEW w \in Tabs \cup {Server}, NewTurn(w)
    PROVE  /\ Insert(Turn(w)) /\ Turn(w) \in Seq(MessageRows) /\ Turn(w) # <<>> /\ Fits(Turn(w))
           /\ Turn(w)[Len(Turn(w))].state = "reserved" /\ Turn(w)[Len(Turn(w))].writer = w
           /\ Turn(w)[Len(Turn(w))].text = "empty"
<1>0. Insert(Turn(w))
  BY DEF NewTurn
<1>1. /\ leaf \in {Root} \cup Ids /\ next \in Nat \ {0}
      /\ leaf # Root => leaf \in DOMAIN rows
  BY TreeTypes
<1>2. CASE LeafUnanswered
  <2>1. Turn(w) = <<Unanswered(leaf), Question(next), Reserved(next + 1, w)>>
    BY <1>2 DEF Turn
  <2>2. next + 3 <= MaxRows + 1
    BY <1>0, <2>1 DEF Insert
  <2>3. next \in Ids /\ next + 1 \in Ids
    BY <1>1, <2>2, RowsAssumption DEF Ids
  <2>4. /\ Unanswered(leaf) \in MessageRows /\ Question(next) \in MessageRows
        /\ Reserved(next + 1, w) \in MessageRows
    BY <1>1, <2>3, RowTypes
  <2>5. leaf \in DOMAIN rows /\ rows[leaf].role = "user"
    BY <1>1, <1>2 DEF LeafUnanswered
  <2>6. Fits(Turn(w))
    BY <1>1, <2>1, <2>5 DEF Fits, Unanswered, Question, Reserved, Row
  <2> QED
    BY <1>0, <2>1, <2>4, <2>6 DEF Reserved, Row
<1>3. CASE ~LeafUnanswered
  <2>1. Turn(w) = <<Question(leaf), Reserved(next, w)>>
    BY <1>3 DEF Turn
  <2>2. next + 2 <= MaxRows + 1
    BY <1>0, <2>1 DEF Insert
  <2>3. next \in Ids
    BY <1>1, <2>2, RowsAssumption DEF Ids
  <2>4. Question(leaf) \in MessageRows /\ Reserved(next, w) \in MessageRows
    BY <1>1, <2>3, RowTypes
  <2>5. leaf # Root => rows[leaf].role = "assistant"
    <3>1. leaf # Root => rows[leaf] \in MessageRows /\ Children(rows, leaf) = {} /\ rows[leaf].role # "user"
      BY <1>1, <1>3 DEF LeafUnanswered, Tree, LeafIsATip, Shape
    <3> QED
      BY <3>1 DEF MessageRows
  <2>6. Fits(Turn(w))
    BY <1>1, <2>1, <2>5 DEF Fits, Question, Reserved, Row
  <2> QED
    BY <1>0, <2>1, <2>4, <2>6 DEF Reserved, Row
<1> QED
  BY <1>2, <1>3

\* The rows a step of a user or of the server adds, whatever it is.
LEMMA Additions ==
    ASSUME Shape, Tree, NEW m \in DOMAIN rows, NEW t \in Tabs \cup {Server},
           ReserveReply(t, m) \/ BranchTurn(t, m) \/ BranchMessage(m)
    PROVE  \E new \in Seq(MessageRows) : new # <<>> /\ Insert(new) /\ Fits(new)
<1>1. /\ next \in Nat \ {0} /\ m \in Ids /\ rows[m].parent \in {Root} \cup Ids
      /\ rows[m].parent # Root => rows[m].parent \in DOMAIN rows
      /\ rows[m] \in MessageRows
      /\ rows[m].parent # Root => rows[rows[m].parent].role # rows[m].role
      /\ rows[m].parent = Root => rows[m].role = "user"
  BY TreeTypes DEF Shape, Tree, TurnsAlternate
<1>2. CASE ReserveReply(t, m)
  <2>1. Insert(<<Reserved(m, t)>>) /\ rows[m].role = "user"
    BY <1>2 DEF ReserveReply
  <2>2. Reserved(m, t) \in MessageRows
    BY <1>1, RowTypes
  <2>3. Fits(<<Reserved(m, t)>>)
    BY <2>1 DEF Fits, Reserved, Row
  <2>4. <<Reserved(m, t)>> \in Seq(MessageRows) /\ <<Reserved(m, t)>> # <<>>
    BY <2>2
  <2> QED
    BY <2>1, <2>3, <2>4
<1>3. CASE BranchTurn(t, m)
  <2> DEFINE new == <<Question(rows[m].parent), Reserved(next, t)>>
  <2>1. Insert(new) /\ rows[m].role = "user"
    BY <1>3 DEF BranchTurn
  <2>2. next \in Ids
    <3>1. next + 2 <= MaxRows + 1
      BY <2>1 DEF Insert
    <3> QED
      BY <1>1, <3>1, RowsAssumption DEF Ids
  <2>3. new \in Seq(MessageRows)
    BY <1>1, <2>2, RowTypes
  <2>4. Fits(new)
    <3>1. rows[m].parent # Root => rows[rows[m].parent].role # "user"
      BY <1>1, <2>1
    <3> QED
      BY <1>1, <3>1 DEF Fits, Question, Reserved, Row
  <2> QED
    BY <2>1, <2>3, <2>4
<1>4. CASE BranchMessage(m)
  <2> DEFINE new == <<Row(rows[m].parent, rows[m].role, "none", Nobody, "whole")>>
  <2>1. Insert(new)
    BY <1>4 DEF BranchMessage
  <2>2. Row(rows[m].parent, rows[m].role, "none", Nobody, "whole") \in MessageRows
    BY <1>1, WritersAssumption DEF Row, MessageRows, States, Terminal, Texts
  <2>3. Fits(new)
    BY <1>1 DEF Fits, Row
  <2>4. new \in Seq(MessageRows) /\ new # <<>>
    BY <2>2
  <2> QED
    BY <2>1, <2>3, <2>4
<1> QED
  BY <1>2, <1>3, <1>4
-----------------------------------------------------------------------------
(* What DeleteBranch and SetActiveLeaf do. *)

LEMMA PruningKeepsTree ==
    ASSUME Shape, Tree, NEW m \in DOMAIN rows, DeleteBranch(m)
    PROVE  /\ Tree' /\ rows' \in [DOMAIN rows' -> MessageRows] /\ DOMAIN rows' \subseteq DOMAIN rows
           /\ \A k \in DOMAIN rows' : rows'[k] = rows[k]
<1>1. /\ rows' = [k \in DOMAIN rows \ Subtree(rows, m) |-> rows[k]]
      /\ DOMAIN rows' # {} /\ leaf' = LeafWithout(m, rows')
  BY DEF DeleteBranch
<1>2. /\ DOMAIN rows' = DOMAIN rows \ Subtree(rows, m) /\ \A k \in DOMAIN rows' : rows'[k] = rows[k]
      /\ rows' \in [DOMAIN rows' -> MessageRows]
  BY <1>1 DEF Shape
<1>3. Grown(rows') /\ Grown(rows)
  BY <1>2, TreeTypes DEF Grown
<1>4. \A k \in DOMAIN rows' : rows'[k].parent # Root => rows'[k].parent \in DOMAIN rows'
  BY <1>2, TreeTypes, SubtreeClosed
<1>5. TurnsAlternate'
  BY <1>2, <1>4 DEF Tree, TurnsAlternate
<1>6. leaf' \in DOMAIN rows' /\ Children(rows', leaf') = {}
  <2>1. CASE leaf \in DOMAIN rows'
    <3>1. leaf' = leaf /\ Children(rows, leaf) = {}
      BY <1>1, <1>2, <2>1 DEF LeafWithout, Tree, LeafIsATip
    <3> QED
      BY <1>2, <2>1, <3>1 DEF Children
  <2>2. CASE leaf \notin DOMAIN rows' /\ rows[m].parent \in DOMAIN rows'
    BY <1>1, <1>3, <2>2, NewestIsATip DEF LeafWithout
  <2>3. CASE leaf \notin DOMAIN rows' /\ rows[m].parent \notin DOMAIN rows'
    <3> DEFINE tops == Children(rows', Root)
    <3>1. tops \in SUBSET (0..MaxRows)
      BY <1>3, RowsAssumption DEF Children, Grown, Ids
    <3>2. tops # {}
      <4>1. DOMAIN rows' \in SUBSET Nat
        BY <1>3 DEF Grown, Ids
      <4>2. PICK k \in DOMAIN rows' : \A j \in DOMAIN rows' : k <= j
        BY <1>1, <4>1, LeastId
      <4>3. rows'[k].parent \notin DOMAIN rows'
        BY <1>3, <4>1, <4>2 DEF Grown
      <4> QED
        BY <1>4, <4>3 DEF Children
    <3>3. Max(tops) \in DOMAIN rows'
      <4>1. Max(tops) \in tops
        BY <3>1, <3>2, RowsAssumption, LargestId
      <4> QED
        BY <4>1 DEF Children
    <3> QED
      BY <1>1, <1>3, <2>3, <3>3, NewestIsATip DEF LeafWithout
  <2> QED
    BY <2>1, <2>2, <2>3
<1> QED
  BY <1>1, <1>2, <1>3, <1>5, <1>6 DEF Tree, LeafIsATip, Grown

LEMMA MovingKeepsTree ==
    ASSUME Shape, Tree, NEW m \in DOMAIN rows, SetActiveLeaf(m)
    PROVE  Tree' /\ leaf' \in DOMAIN rows
<1>1. leaf' = NewestUnder(rows, m) /\ rows' = rows /\ Grown(rows)
  BY TreeTypes DEF SetActiveLeaf
<1>2. leaf' \in DOMAIN rows /\ Children(rows, leaf') = {}
  BY <1>1, NewestIsATip
<1> QED
  BY <1>1, <1>2 DEF Tree, LeafIsATip, TurnsAlternate
-----------------------------------------------------------------------------
(* Steps that leave the rows a task, a notification or a patch refers to. *)

OldRowsStay == \A m \in DOMAIN rows' : m < next => m \in DOMAIN rows /\ rows'[m] = rows[m]

\* Nothing refers to an id that was not given out yet, so new rows say nothing new of it.
LEMMA OldRowsKeepPromises ==
    ASSUME Shape, Patches, Answers, OldRowsStay, UNCHANGED <<requests, jobs, notices>>
    PROVE  Patches' /\ Answers'
<1>1. /\ \A r \in requests : r.row < next
      /\ \A m \in DOMAIN jobs : m < next
      /\ \A n \in notices : n.row < next
  BY DEF Shape
<1>2. Patches'
  BY <1>1 DEF Patches, OldRowsStay
<1>3. \A m : Background(m)' <=> Background(m)
  BY DEF Background
<1>4. NoticeTellsTheTruth'
  <2> SUFFICES ASSUME NEW n \in notices
               PROVE  /\ n.row \in DOMAIN rows' =>
                           IF n.type = "answer_ready"
                           THEN rows'[n.row].state = "complete" /\ rows'[n.row].text = "whole"
                           ELSE rows'[n.row].state = "failed"
                      /\ \A other \in notices : other.row = n.row => other = n
    BY DEF NoticeTellsTheTruth
  <2> QED
    BY <1>1 DEF Answers, NoticeTellsTheTruth, OldRowsStay
<1>5. \A m \in DOMAIN jobs :
         /\ \A n \in notices : n.row # m
         /\ jobs[m].stage = "telling" => jobs[m].verdict # "none"
         /\ m \in DOMAIN rows' =>
              IF jobs[m].stage = "telling"
              THEN /\ rows'[m].state = jobs[m].verdict
                   /\ jobs[m].verdict = "complete" => rows'[m].text = "whole"
              ELSE rows'[m].writer = Server
  BY <1>1 DEF Answers, OldRowsStay
<1>6. \A r \in requests : r.row \in DOMAIN rows' /\ Background(r.row) =>
         /\ r.put.state = rows'[r.row].state
         /\ rows'[r.row].state = "complete" => r.text \in {"whole", "same"}
  BY <1>1 DEF Answers, OldRowsStay
<1>7. \A r \in requests : Background(r.row)' <=> Background(r.row)
  BY DEF Background
<1> QED
  BY <1>2, <1>4, <1>5, <1>6, <1>7 DEF Answers

\* The numbers and records beside the rows.
LEMMA ShapeKept ==
    ASSUME Shape, rows' \in [DOMAIN rows' -> MessageRows], DOMAIN rows' \subseteq Ids,
           \A m \in DOMAIN rows' : m < next', next' \in 1..(MaxRows + 1), next' >= next,
           leaf' \in {Root} \cup Ids, UNCHANGED <<requests, jobs, notices, lost, faults>>
    PROVE  Shape'
<1>1. next \in Nat /\ next' \in Nat
  BY RowsAssumption DEF Shape, TypeOK
<1>2. /\ \A r \in requests : r.row < next /\ r.row \in Nat
      /\ \A m \in DOMAIN jobs : m < next /\ m \in Nat
      /\ \A n \in notices : n.row < next /\ n.row \in Nat
  BY DEF Shape, TypeOK, Ids
<1>3. /\ \A r \in requests : r.row < next'
      /\ \A m \in DOMAIN jobs : m < next'
      /\ \A n \in notices : n.row < next'
  BY <1>1, <1>2
<1>4. \A m \in DOMAIN rows' : rows'[m] \in MessageRows
  OBVIOUS
<1>5. TypeOK'
  BY <1>4 DEF Shape, TypeOK, JobRecords
<1> QED
  BY <1>3, <1>5 DEF Shape, JobRecords

Inv == Shape /\ Tree /\ Patches /\ Answers

LEMMA GrowingKeepsInv ==
    ASSUME Inv, NEW new \in Seq(MessageRows), new # <<>>, Insert(new), Fits(new),
           UNCHANGED <<requests, jobs, notices, lost, faults>>
    PROVE  Inv'
<1>1. Shape /\ Tree /\ Patches /\ Answers
  BY DEF Inv
<1>2. Tree'
  BY <1>1, InsertGrowsTree
<1>3. /\ Len(new) \in Nat \ {0} /\ next' = next + Len(new) /\ leaf' = next + Len(new) - 1
      /\ DOMAIN rows' = DOMAIN rows \cup next..leaf'
      /\ rows' \in [DOMAIN rows' -> MessageRows]
      /\ \A m \in DOMAIN rows : m < next /\ rows'[m] = rows[m]
      /\ next..leaf' \subseteq Ids /\ leaf' \in Ids /\ next' \in 1..(MaxRows + 1)
  BY <1>1, InsertMoves
<1>4. next \in Nat \ {0} /\ DOMAIN rows \subseteq Ids /\ \A m \in DOMAIN rows : m \in Nat
  BY <1>1, RowsAssumption DEF Shape, TypeOK, Ids
<1>5. OldRowsStay
  BY <1>3, <1>4 DEF OldRowsStay
<1>6. \A m \in DOMAIN rows' : m < next'
  BY <1>3, <1>4
<1>7. Shape'
  BY <1>1, <1>3, <1>4, <1>6, ShapeKept
<1> QED
  BY <1>1, <1>2, <1>5, <1>7, OldRowsKeepPromises DEF Inv

LEMMA PruningKeepsInv ==
    ASSUME Inv, NEW m \in DOMAIN rows, DeleteBranch(m)
    PROVE  Inv'
<1>1. Shape /\ Tree /\ Patches /\ Answers
  BY DEF Inv
<1>2. /\ Tree' /\ rows' \in [DOMAIN rows' -> MessageRows] /\ DOMAIN rows' \subseteq DOMAIN rows
      /\ \A k \in DOMAIN rows' : rows'[k] = rows[k]
      /\ next' = next /\ UNCHANGED <<requests, jobs, notices, lost, faults>>
  BY <1>1, PruningKeepsTree DEF DeleteBranch
<1>3. /\ DOMAIN rows' \subseteq Ids /\ \A k \in DOMAIN rows' : k < next'
      /\ next' \in 1..(MaxRows + 1) /\ next' >= next
  BY <1>1, <1>2, RowsAssumption DEF Shape, TypeOK
<1>4. leaf' \in {Root} \cup Ids
  BY <1>2, <1>3 DEF Tree, LeafIsATip
<1>5. Shape'
  BY <1>1, <1>2, <1>3, <1>4, ShapeKept
<1>6. OldRowsStay
  BY <1>2 DEF OldRowsStay
<1> QED
  BY <1>1, <1>2, <1>5, <1>6, OldRowsKeepPromises DEF Inv

LEMMA MovingKeepsInv ==
    ASSUME Inv, NEW m \in DOMAIN rows, SetActiveLeaf(m)
    PROVE  Inv'
<1>1. Shape /\ Tree /\ Patches /\ Answers
  BY DEF Inv
<1>2. Tree' /\ leaf' \in DOMAIN rows /\ UNCHANGED <<rows, next, requests, jobs, notices, lost, faults>>
  BY <1>1, MovingKeepsTree DEF SetActiveLeaf
<1>3. /\ DOMAIN rows' \subseteq Ids /\ \A k \in DOMAIN rows' : k < next'
      /\ next' \in 1..(MaxRows + 1) /\ next' >= next /\ rows' \in [DOMAIN rows' -> MessageRows]
  BY <1>1, <1>2, RowsAssumption DEF Shape, TypeOK
<1>4. Shape'
  BY <1>1, <1>2, <1>3, ShapeKept
<1>5. OldRowsStay
  BY <1>2 DEF OldRowsStay
<1> QED
  BY <1>1, <1>2, <1>4, <1>5, OldRowsKeepPromises DEF Inv
-----------------------------------------------------------------------------
(* Steps that change tasks, patches or notifications. *)

LEMMA TreeKept ==
    ASSUME Tree, DOMAIN rows' = DOMAIN rows, leaf' = leaf,
           \A m \in DOMAIN rows : rows'[m].parent = rows[m].parent /\ rows'[m].role = rows[m].role
    PROVE  Tree'
<1>1. TurnsAlternate'
  BY DEF Tree, TurnsAlternate
<1>2. LeafIsATip'
  BY DEF Tree, LeafIsATip, Children
<1>3. (\A m \in DOMAIN rows' : rows'[m].parent < m) /\ (DOMAIN rows' = {} => leaf' = Root)
  BY DEF Tree
<1> QED
  BY <1>1, <1>2, <1>3 DEF Tree

LEMMA LessJobs ==
    ASSUME Shape, NEW m
    PROVE  /\ WithoutJob(m) \in [DOMAIN WithoutJob(m) -> JobRecords]
           /\ DOMAIN WithoutJob(m) = DOMAIN jobs \ {m}
           /\ \A k \in DOMAIN WithoutJob(m) : WithoutJob(m)[k] = jobs[k]
BY DEF Shape, WithoutJob

\* A task that ends without a notification takes nothing back.
LEMMA LosingAJobKeepsInv ==
    ASSUME Inv, NEW m, jobs' = WithoutJob(m), UNCHANGED <<rows, next, leaf, requests, notices, lost, faults>>
    PROVE  Inv'
<1>1. Shape /\ Tree /\ Patches /\ Answers
  BY DEF Inv
<1>2. /\ jobs' \in [DOMAIN jobs' -> JobRecords] /\ DOMAIN jobs' = DOMAIN jobs \ {m}
      /\ \A k \in DOMAIN jobs' : jobs'[k] = jobs[k]
  BY <1>1, LessJobs
<1>3. Shape'
  <2>1. TypeOK'
    BY <1>1, <1>2 DEF Shape, TypeOK, JobRecords
  <2> QED
    BY <1>1, <1>2, <2>1 DEF Shape
<1>4. Tree'
  BY <1>1, TreeKept
<1>5. Patches'
  BY <1>1 DEF Patches
<1>6. Answers'
  BY <1>1, <1>2 DEF Answers, Background, NoticeTellsTheTruth
<1> QED
  BY <1>3, <1>4, <1>5, <1>6 DEF Inv

LEMMA EnqueueKeepsInv ==
    ASSUME Inv, Enqueue
    PROVE  Inv'
<1>1. Shape /\ Tree /\ Patches /\ Answers
  BY DEF Inv
<1> DEFINE new == Turn(Server)
           task == [stage |-> "queued", asked |-> Root, verdict |-> "none"]
<1>2. /\ NewTurn(Server) /\ UNCHANGED <<requests, notices, lost, faults>>
      /\ jobs' = [k \in DOMAIN jobs \cup {leaf'} |-> IF k \in DOMAIN jobs THEN jobs[k] ELSE task]
  BY DEF Enqueue
<1>3. /\ Insert(new) /\ new \in Seq(MessageRows) /\ new # <<>> /\ Fits(new)
      /\ new[Len(new)].state = "reserved" /\ new[Len(new)].writer = Server
  BY <1>1, <1>2, TurnFits
<1> HIDE DEF new
<1>4. /\ Len(new) \in Nat \ {0} /\ next' = next + Len(new) /\ leaf' = next + Len(new) - 1
      /\ DOMAIN rows' = DOMAIN rows \cup next..leaf'
      /\ rows' \in [DOMAIN rows' -> MessageRows]
      /\ \A m \in DOMAIN rows : m < next /\ rows'[m] = rows[m]
      /\ \A m \in next..leaf' : rows'[m] = new[m - next + 1]
      /\ next..leaf' \subseteq Ids /\ leaf' \in Ids /\ next' \in 1..(MaxRows + 1)
  BY <1>1, <1>3, InsertMoves
<1>5. /\ next \in Nat \ {0} /\ DOMAIN rows \subseteq Ids /\ \A m \in DOMAIN rows : m \in Nat
      /\ \A m \in DOMAIN jobs : m < next /\ m \in Ids
      /\ \A n \in notices : n.row < next /\ n.row \in Ids
      /\ \A r \in requests : r.row < next /\ r.row \in Ids
  BY <1>1, RowsAssumption DEF Shape, TypeOK, Ids
<1>6. leaf' \in next..leaf' /\ leaf' < next' /\ leaf' >= next /\ leaf' \in Nat /\ next' \in Nat /\ next' >= next
  BY <1>4, <1>5
<1>7. /\ leaf' \in DOMAIN rows' /\ rows'[leaf'].writer = Server
      /\ leaf' \notin DOMAIN jobs /\ jobs'[leaf'] = task
  <2>1. leaf' - next + 1 = Len(new)
    BY <1>4, <1>5
  <2>2. leaf' \notin DOMAIN jobs
    BY <1>5, <1>6
  <2> QED
    BY <1>2, <1>3, <1>4, <1>6, <2>1, <2>2
<1>8. /\ DOMAIN jobs' = DOMAIN jobs \cup {leaf'} /\ \A k \in DOMAIN jobs : jobs'[k] = jobs[k]
      /\ jobs' \in [DOMAIN jobs' -> JobRecords]
  <2>1. task \in JobRecords
    BY DEF JobRecords
  <2> HIDE DEF task
  <2> QED
    BY <1>1, <1>2, <2>1 DEF Shape
<1>9. Shape'
  <2>1. /\ \A m \in DOMAIN rows' : m < next'
        /\ \A m \in DOMAIN jobs' : m < next' /\ m \in Ids
        /\ \A n \in notices' : n.row < next'
        /\ \A r \in requests' : r.row < next'
    <3>1. \A m \in Ids : m < next => m < next'
      BY <1>5, <1>6 DEF Ids
    <3>2. \A m \in DOMAIN rows' : m < next'
      BY <1>4, <1>5, <1>6, <3>1
    <3> QED
      BY <1>2, <1>4, <1>5, <1>6, <1>8, <3>1, <3>2
  <2>2. TypeOK'
    <3>1. /\ DOMAIN rows' \subseteq Ids /\ \A m \in DOMAIN rows' : rows'[m] \in MessageRows
          /\ \A m \in DOMAIN jobs' : jobs'[m] \in JobRecords
      BY <1>4, <1>5, <1>8
    <3> QED
      BY <1>1, <1>2, <1>4, <2>1, <3>1 DEF Shape, TypeOK, JobRecords
  <2> QED
    BY <1>4, <1>8, <2>1, <2>2 DEF Shape
<1>10. Tree'
  BY <1>1, <1>3, InsertGrowsTree
<1>11. OldRowsStay
  BY <1>4, <1>5 DEF OldRowsStay
<1>12. Patches'
  BY <1>1, <1>2, <1>5, <1>11 DEF Patches, OldRowsStay
<1>13. \A r \in requests : Background(r.row)' <=> Background(r.row)
  BY <1>2, <1>5, <1>6, <1>8 DEF Background
<1>14. NoticeTellsTheTruth'
  BY <1>1, <1>2, <1>5, <1>11 DEF Answers, NoticeTellsTheTruth, OldRowsStay
<1>15. \A m \in DOMAIN jobs' :
         /\ \A n \in notices : n.row # m
         /\ jobs'[m].stage = "telling" => jobs'[m].verdict # "none"
         /\ m \in DOMAIN rows' =>
              IF jobs'[m].stage = "telling"
              THEN /\ rows'[m].state = jobs'[m].verdict
                   /\ jobs'[m].verdict = "complete" => rows'[m].text = "whole"
              ELSE rows'[m].writer = Server
  <2> TAKE m \in DOMAIN jobs'
  <2>1. CASE m \in DOMAIN jobs
    BY <1>1, <1>5, <1>8, <1>11, <2>1 DEF Answers, OldRowsStay
  <2>2. CASE m = leaf'
    <3>1. \A n \in notices : n.row # m
      BY <1>5, <1>6, <2>2 DEF Ids
    <3> QED
      BY <1>7, <2>2, <3>1
  <2> QED
    BY <1>8, <2>1, <2>2
<1>16. \A r \in requests : r.row \in DOMAIN rows' /\ Background(r.row)' =>
         /\ r.put.state = rows'[r.row].state
         /\ rows'[r.row].state = "complete" => r.text \in {"whole", "same"}
  BY <1>1, <1>5, <1>11, <1>13 DEF Answers, OldRowsStay
<1>17. Answers'
  BY <1>2, <1>14, <1>15, <1>16 DEF Answers
<1> QED
  BY <1>9, <1>10, <1>12, <1>17 DEF Inv

LEMMA PathWithin ==
    ASSUME NEW t, NEW m
    PROVE  Path(t, m) \subseteq DOMAIN t
BY DEF Path

LEMMA JobLoadsKeepsInv ==
    ASSUME Inv, NEW m \in DOMAIN jobs, JobLoads(m)
    PROVE  Inv'
<1>1. Shape /\ Tree /\ Patches /\ Answers
  BY DEF Inv
<1>2. jobs[m].stage = "queued" /\ UNCHANGED <<rows, next, leaf, requests, notices, lost, faults>>
  BY DEF JobLoads
<1>3. CASE m \notin DOMAIN rows
  BY <1>2, <1>3, LosingAJobKeepsInv DEF JobLoads
<1>4. CASE m \in DOMAIN rows
  <2> DEFINE asked == LastAsked(m)
  <2>1. jobs' = [jobs EXCEPT ![m].stage = "calling", ![m].asked = asked]
    BY <1>4 DEF JobLoads
  <2>2. asked \in {Root} \cup Ids
    <3> DEFINE said == {Root} \cup {k \in Path(rows, leaf) \ {m} :
                                      rows[k].role = "user" \/ rows[k].text # "empty"}
    <3>1. said \subseteq {Root} \cup DOMAIN rows
      BY PathWithin
    <3>2. said \in SUBSET (0..MaxRows) /\ said # {}
      BY <1>1, <3>1, RowsAssumption DEF Shape, TypeOK, Ids, Root
    <3>3. Max(said) \in said
      <4> HIDE DEF said
      <4> QED
        BY <3>2, RowsAssumption, LargestId
    <3> QED
      BY <1>1, <3>1, <3>3 DEF LastAsked, Shape, TypeOK
  <2> HIDE DEF asked
  <2>3. jobs[m] \in JobRecords
    BY <1>1 DEF Shape
  <2>4. jobs'[m] = [stage |-> "calling", asked |-> asked, verdict |-> jobs[m].verdict]
    BY <1>1, <2>1, <2>3 DEF Shape, JobRecords
  <2>5. jobs'[m] \in JobRecords
    BY <2>2, <2>3, <2>4 DEF JobRecords
  <2>6. DOMAIN jobs' = DOMAIN jobs /\ \A k \in DOMAIN jobs \ {m} : jobs'[k] = jobs[k]
    BY <1>1, <2>1 DEF Shape
  <2>7. jobs' \in [DOMAIN jobs' -> JobRecords]
    <3>1. \A k \in DOMAIN jobs' : jobs'[k] \in JobRecords
      BY <1>1, <2>5, <2>6 DEF Shape
    <3> QED
      BY <1>1, <2>1, <2>6, <3>1 DEF Shape
  <2>8. Shape'
    <3>1. TypeOK'
      BY <1>1, <1>2, <2>6, <2>7 DEF Shape, TypeOK, JobRecords
    <3> QED
      BY <1>1, <1>2, <2>6, <2>7, <3>1 DEF Shape
  <2>9. Tree' /\ Patches'
    BY <1>1, <1>2, TreeKept DEF Patches
  <2>10. Answers'
    <3>1. \A k : Background(k)' <=> Background(k)
      BY <1>2, <2>6 DEF Background
    <3>2. jobs'[m].stage = "calling"
      BY <2>4
    <3>3. \A k \in DOMAIN jobs' : jobs'[k].stage = "telling" => k \in DOMAIN jobs \ {m}
      BY <2>6, <3>2
    <3>4. \A k \in DOMAIN jobs' :
             /\ \A n \in notices : n.row # k
             /\ jobs'[k].stage = "telling" => jobs'[k].verdict # "none"
             /\ k \in DOMAIN rows =>
                  IF jobs'[k].stage = "telling"
                  THEN /\ rows[k].state = jobs'[k].verdict
                       /\ jobs'[k].verdict = "complete" => rows[k].text = "whole"
                  ELSE rows[k].writer = Server
      <4> TAKE k \in DOMAIN jobs'
      <4>1. CASE k = m
        BY <1>1, <1>2, <3>2, <4>1 DEF Answers
      <4>2. CASE k # m
        BY <1>1, <2>6, <4>2 DEF Answers
      <4> QED
        BY <4>1, <4>2
    <3>5. NoticeTellsTheTruth'
      BY <1>1, <1>2 DEF Answers, NoticeTellsTheTruth
    <3>6. \A r \in requests : Background(r.row)' <=> Background(r.row)
      BY <1>2, <2>6 DEF Background
    <3> QED
      BY <1>1, <1>2, <3>4, <3>5, <3>6 DEF Answers
  <2> QED
    BY <2>8, <2>9, <2>10 DEF Inv
<1> QED
  BY <1>3, <1>4

\* A waiting task finds its row reserved for it, and no patch of it is under way.
LEMMA WaitingRow ==
    ASSUME Inv, NEW m \in DOMAIN jobs \cap DOMAIN rows, jobs[m].stage # "telling"
    PROVE  /\ rows[m].writer = Server /\ rows[m].state = "reserved"
           /\ \A r \in requests : r.row # m
<1>1. Shape /\ Answers
  BY DEF Inv
<1>2. rows[m].writer = Server /\ rows[m] \in MessageRows
  BY <1>1 DEF Answers, Shape
<1>3. rows[m].state = "reserved"
  BY <1>2, WritersAssumption DEF MessageRows
<1>4. \A r \in requests : r.row = m => r.put.state = "reserved"
  BY <1>1, <1>3 DEF Answers, Background
<1>5. \A r \in requests : r.put.state # "reserved"
  BY <1>1 DEF Shape, TypeOK
<1> QED
  BY <1>2, <1>3, <1>4, <1>5

LEMMA JobWritesKeepsInv ==
    ASSUME Inv, NEW m \in DOMAIN jobs, NEW verdict \in {"complete", "failed"}, JobWrites(m, verdict)
    PROVE  Inv'
<1>1. Shape /\ Tree /\ Patches /\ Answers
  BY DEF Inv
<1>2. jobs[m].stage = "calling" /\ UNCHANGED <<next, leaf, requests, notices, lost, faults>>
  BY DEF JobWrites
<1>3. CASE m \notin DOMAIN rows
  BY <1>2, <1>3, LosingAJobKeepsInv DEF JobWrites
<1>4. CASE m \in DOMAIN rows
  <2> DEFINE text == IF verdict = "complete" THEN "whole" ELSE "half"
  <2>1. /\ rows' = [rows EXCEPT ![m].state = verdict, ![m].writer = Nobody, ![m].text = text]
        /\ jobs' = [jobs EXCEPT ![m].stage = "telling", ![m].verdict = verdict]
    BY <1>4 DEF JobWrites
  <2>2. text \in Texts /\ (verdict = "complete" => text = "whole")
    BY DEF Texts
  <2> HIDE DEF text
  <2>3. /\ rows[m].writer = Server /\ rows[m].state = "reserved" /\ \A r \in requests : r.row # m
    BY <1>2, <1>4, WaitingRow
  <2>4. jobs[m] \in JobRecords /\ rows[m] \in MessageRows
    BY <1>1, <1>4 DEF Shape
  <2>5. jobs'[m] = [stage |-> "telling", asked |-> jobs[m].asked, verdict |-> verdict]
    BY <1>1, <2>1, <2>4 DEF Shape, JobRecords
  <2>6. rows'[m] = [parent |-> rows[m].parent, role |-> rows[m].role, state |-> verdict,
                    writer |-> Nobody, text |-> text]
    BY <1>1, <1>4, <2>1, <2>4 DEF Shape, MessageRows
  <2>7. jobs'[m] \in JobRecords
    BY <2>4, <2>5 DEF JobRecords
  <2>8. rows'[m] \in MessageRows
    <3>1. verdict \in States /\ verdict # "reserved"
      BY DEF States, Terminal
    <3>2. /\ rows[m].parent \in {Root} \cup Ids /\ rows[m].role \in {"user", "assistant"}
      BY <2>4 DEF MessageRows
    <3> QED
      BY <2>2, <2>6, <3>1, <3>2 DEF MessageRows
  <2>9. DOMAIN jobs' = DOMAIN jobs /\ \A k \in DOMAIN jobs \ {m} : jobs'[k] = jobs[k]
    BY <1>1, <2>1 DEF Shape
  <2>10. DOMAIN rows' = DOMAIN rows /\ \A k \in DOMAIN rows \ {m} : rows'[k] = rows[k]
    BY <1>1, <2>1 DEF Shape
  <2>11. jobs' \in [DOMAIN jobs' -> JobRecords]
    <3>1. \A k \in DOMAIN jobs' : jobs'[k] \in JobRecords
      BY <1>1, <2>7, <2>9 DEF Shape
    <3> QED
      BY <1>1, <2>1, <2>9, <3>1 DEF Shape
  <2>12. rows' \in [DOMAIN rows' -> MessageRows]
    <3>1. \A k \in DOMAIN rows' : rows'[k] \in MessageRows
      BY <1>1, <2>8, <2>10 DEF Shape
    <3> QED
      BY <1>1, <2>1, <2>10, <3>1 DEF Shape
  <2>13. Shape'
    <3>1. TypeOK'
      BY <1>1, <1>2, <2>9, <2>10, <2>11, <2>12 DEF Shape, TypeOK, JobRecords
    <3> QED
      BY <1>1, <1>2, <2>9, <2>10, <2>11, <2>12, <3>1 DEF Shape
  <2>14. Tree'
    <3>1. \A k \in DOMAIN rows : rows'[k].parent = rows[k].parent /\ rows'[k].role = rows[k].role
      BY <2>6, <2>10
    <3> QED
      BY <1>1, <1>2, <2>10, <3>1, TreeKept
  <2>15. Patches'
    BY <1>1, <1>2, <2>3, <2>10 DEF Patches
  <2>16. \A r \in requests : Background(r.row)' <=> Background(r.row)
    BY <1>2, <2>9 DEF Background
  <2>17. \A n \in notices : n.row # m
    BY <1>1 DEF Answers
  <2>18. NoticeTellsTheTruth'
    BY <1>1, <1>2, <2>10, <2>17 DEF Answers, NoticeTellsTheTruth
  <2>19. \A k \in DOMAIN jobs' :
            /\ \A n \in notices : n.row # k
            /\ jobs'[k].stage = "telling" => jobs'[k].verdict # "none"
            /\ k \in DOMAIN rows' =>
                 IF jobs'[k].stage = "telling"
                 THEN /\ rows'[k].state = jobs'[k].verdict
                      /\ jobs'[k].verdict = "complete" => rows'[k].text = "whole"
                 ELSE rows'[k].writer = Server
    <3> TAKE k \in DOMAIN jobs'
    <3>1. CASE k = m
      BY <2>2, <2>5, <2>6, <2>17, <3>1
    <3>2. CASE k # m
      BY <1>1, <2>9, <2>10, <3>2 DEF Answers
    <3> QED
      BY <3>1, <3>2
  <2>20. Answers'
    BY <1>1, <1>2, <2>3, <2>10, <2>16, <2>18, <2>19 DEF Answers
  <2> QED
    BY <2>13, <2>14, <2>15, <2>20 DEF Inv
<1> QED
  BY <1>3, <1>4

LEMMA JobTellsKeepsInv ==
    ASSUME Inv, NEW m \in DOMAIN jobs, JobTells(m)
    PROVE  Inv'
<1>1. Shape /\ Tree /\ Patches /\ Answers
  BY DEF Inv
<1> DEFINE told == [row |-> m, type |-> NoticeFor(jobs[m].verdict)]
<1>2. /\ jobs[m].stage = "telling" /\ UNCHANGED <<rows, next, leaf, requests, lost, faults>>
      /\ notices' = notices \cup {told} /\ jobs' = WithoutJob(m)
  BY DEF JobTells
<1>3. /\ jobs' \in [DOMAIN jobs' -> JobRecords] /\ DOMAIN jobs' = DOMAIN jobs \ {m}
      /\ \A k \in DOMAIN jobs' : jobs'[k] = jobs[k]
  BY <1>1, <1>2, LessJobs
<1>4. m \in Ids /\ m < next /\ jobs[m] \in JobRecords /\ jobs[m].verdict \in {"complete", "failed"}
  BY <1>1, <1>2 DEF Shape, TypeOK, Answers
<1>5. told \in [row : Ids, type : {"answer_ready", "answer_failed"}] /\ told.row = m
  BY <1>4 DEF NoticeFor
<1>6. Shape'
  <2> HIDE DEF told
  <2>1. TypeOK'
    BY <1>1, <1>2, <1>3, <1>5 DEF Shape, TypeOK, JobRecords
  <2> QED
    BY <1>1, <1>2, <1>3, <1>4, <1>5, <2>1 DEF Shape
<1>7. Tree' /\ Patches'
  BY <1>1, <1>2, TreeKept DEF Patches
<1>8. \A n \in notices : n.row # m
  BY <1>1 DEF Answers
<1>9. m \in DOMAIN rows =>
         IF told.type = "answer_ready" THEN rows[m].state = "complete" /\ rows[m].text = "whole"
         ELSE rows[m].state = "failed"
  BY <1>1, <1>2, <1>4 DEF Answers, NoticeFor
<1>10. NoticeTellsTheTruth'
  <2> HIDE DEF told
  <2> SUFFICES ASSUME NEW n \in notices'
               PROVE  /\ n.row \in DOMAIN rows =>
                           IF n.type = "answer_ready"
                           THEN rows[n.row].state = "complete" /\ rows[n.row].text = "whole"
                           ELSE rows[n.row].state = "failed"
                      /\ \A other \in notices' : other.row = n.row => other = n
    BY <1>2 DEF NoticeTellsTheTruth
  <2>1. CASE n \in notices
    BY <1>1, <1>2, <1>5, <1>8, <2>1 DEF Answers, NoticeTellsTheTruth
  <2>2. CASE n = told
    BY <1>2, <1>5, <1>8, <1>9, <2>2
  <2> QED
    BY <1>2, <2>1, <2>2
<1>11. \A r \in requests : Background(r.row)' => Background(r.row)
  <2> HIDE DEF told
  <2> QED
    BY <1>2, <1>3, <1>5 DEF Background
<1>12. \A k \in DOMAIN jobs' : \A n \in notices' : n.row # k
  <2> HIDE DEF told
  <2> QED
    BY <1>1, <1>2, <1>3, <1>5 DEF Answers
<1>13. Answers'
  BY <1>1, <1>2, <1>3, <1>10, <1>11, <1>12 DEF Answers
<1> QED
  BY <1>6, <1>7, <1>13 DEF Inv

LEMMA JobCrashesKeepsInv ==
    ASSUME Inv, NEW m \in DOMAIN jobs, JobCrashes(m)
    PROVE  Inv'
<1>1. Shape /\ Tree /\ Patches /\ Answers
  BY DEF Inv
<1>2. /\ jobs' = WithoutJob(m) /\ lost' = lost \cup {m}
      /\ UNCHANGED <<rows, next, leaf, requests, notices>>
  BY DEF JobCrashes
<1>3. /\ jobs' \in [DOMAIN jobs' -> JobRecords] /\ DOMAIN jobs' = DOMAIN jobs \ {m}
      /\ \A k \in DOMAIN jobs' : jobs'[k] = jobs[k]
  BY <1>1, <1>2, LessJobs
<1>4. faults' \in 0..MaxFaults /\ lost' \subseteq Ids
  BY <1>1, <1>2, BoundsAssumption DEF JobCrashes, Fault, Shape, TypeOK
<1>5. Shape'
  <2>1. TypeOK'
    BY <1>1, <1>2, <1>3, <1>4 DEF Shape, TypeOK, JobRecords
  <2> QED
    BY <1>1, <1>2, <1>3, <2>1 DEF Shape
<1>6. Tree' /\ Patches'
  BY <1>1, <1>2, TreeKept DEF Patches
<1>7. Answers'
  BY <1>1, <1>2, <1>3 DEF Answers, Background, NoticeTellsTheTruth
<1> QED
  BY <1>5, <1>6, <1>7 DEF Inv

LEMMA RestartKeepsInv ==
    ASSUME Inv, Restart
    PROVE  Inv'
<1>1. Shape /\ Tree /\ Patches /\ Answers
  BY DEF Inv
<1>2. /\ UNCHANGED <<rows, next, leaf, notices>> /\ requests' = {} /\ DOMAIN jobs' = {}
      /\ jobs' \in [DOMAIN jobs' -> JobRecords]
  BY DEF Restart
<1>3. faults' \in 0..MaxFaults /\ lost' \subseteq Ids
  BY <1>1, BoundsAssumption DEF Restart, Fault, Shape, TypeOK
<1>4. Shape'
  <2>1. TypeOK'
    BY <1>1, <1>2, <1>3 DEF Shape, TypeOK
  <2> QED
    BY <1>1, <1>2, <2>1 DEF Shape
<1>5. Tree' /\ Patches'
  BY <1>1, <1>2, TreeKept DEF Patches
<1>6. Answers'
  BY <1>1, <1>2 DEF Answers, NoticeTellsTheTruth
<1> QED
  BY <1>4, <1>5, <1>6 DEF Inv

\* A patch that agrees with its row when it is admitted keeps the invariant.
LEMMA PatchKeepsInv ==
    ASSUME Inv, NEW m \in DOMAIN rows, NEW r,
           r \in [row : Ids, by : Tabs \cup {Nobody}, text : Texts \cup {"same"},
                  put : [state : States \ {"reserved"}, writer : {Nobody}]],
           r.row = m, r.put.state = "none" <=> rows[m].state = "none",
           rows[m].state = "reserved" => r.by = rows[m].writer,
           Background(m) => /\ r.put.state = rows[m].state
                            /\ rows[m].state = "complete" => r.text \in {"whole", "same"},
           requests' = requests \cup {r}, UNCHANGED <<rows, next, leaf, jobs, notices, lost, faults>>
    PROVE  Inv'
<1>1. Shape /\ Tree /\ Patches /\ Answers
  BY DEF Inv
<1>2. Shape'
  <2>1. TypeOK'
    BY <1>1 DEF Shape, TypeOK
  <2>2. m < next
    BY <1>1 DEF Shape, TypeOK
  <2> QED
    BY <1>1, <2>1, <2>2 DEF Shape
<1>3. Tree'
  BY <1>1, TreeKept
<1>4. Patches'
  BY <1>1 DEF Patches
<1>5. NoticeTellsTheTruth'
  BY <1>1 DEF Answers, NoticeTellsTheTruth
<1>6. \A q \in requests' : q.row \in DOMAIN rows /\ Background(q.row)' =>
         /\ q.put.state = rows[q.row].state
         /\ rows[q.row].state = "complete" => q.text \in {"whole", "same"}
  <2> TAKE q \in requests'
  <2>1. Background(q.row)' <=> Background(q.row)
    BY DEF Background
  <2>2. CASE q \in requests
    BY <1>1, <2>1, <2>2 DEF Answers
  <2>3. CASE q = r
    BY <2>1, <2>3
  <2> QED
    BY <2>2, <2>3
<1>7. Answers'
  BY <1>1, <1>5, <1>6 DEF Answers
<1> QED
  BY <1>2, <1>3, <1>4, <1>7 DEF Inv

LEMMA EndingKeepsInv ==
    ASSUME Inv, NEW t \in Tabs, NEW p \in Endings, NEW m \in DOMAIN rows, rows[m].state # "none",
           PatchRead(t, m, p)
    PROVE  Inv'
<1>1. Shape /\ Tree /\ Patches /\ Answers
  BY DEF Inv
<1> DEFINE r == [row |-> m, by |-> t, put |-> Envelope(rows[m], p.state), text |-> p.text]
<1>2. /\ requests' = requests \cup {r} /\ UNCHANGED <<rows, next, leaf, jobs, notices, lost, faults>>
      /\ WriterAdmits(rows[m], t) /\ EnvelopeAdmits(rows[m], p.state)
  BY DEF PatchRead
<1>3. /\ p.state \in {"complete", "stopped", "failed"} /\ p.text \in {"whole", "half"}
      /\ p.state = "complete" => p.text = "whole"
  BY DEF Endings
<1>4. rows[m] \in MessageRows /\ m \in Ids
  BY <1>1 DEF Shape, TypeOK
<1>5. r.row = m /\ r.by = t /\ r.put = [state |-> p.state, writer |-> Nobody] /\ r.text = p.text
  BY <1>3 DEF Envelope
<1>6. r \in [row : Ids, by : Tabs \cup {Nobody}, text : Texts \cup {"same"},
             put : [state : States \ {"reserved"}, writer : {Nobody}]]
  <2>1. [state |-> p.state, writer |-> Nobody] \in [state : States \ {"reserved"}, writer : {Nobody}]
    BY <1>3 DEF States, Terminal
  <2> QED
    BY <1>3, <1>4, <1>5, <2>1 DEF Texts
<1>7. rows[m].state = "reserved" => t = rows[m].writer
  BY <1>2, <1>4 DEF WriterAdmits, MessageRows
<1>8. ASSUME Background(m)
      PROVE  p.state = rows[m].state
  <2>1. rows[m].state \in {"complete", "failed"}
    <3>1. CASE m \in DOMAIN jobs
      <4>1. rows[m].writer # Server
        BY <1>2, WritersAssumption DEF WriterAdmits
      <4>2. jobs[m].stage = "telling" /\ rows[m].state = jobs[m].verdict /\ jobs[m].verdict # "none"
        BY <1>1, <3>1, <4>1 DEF Answers
      <4>3. jobs[m].verdict \in {"none", "complete", "failed"}
        BY <1>1, <3>1 DEF Shape, TypeOK
      <4> QED
        BY <4>2, <4>3
    <3>2. CASE \E n \in notices : n.row = m
      BY <1>1, <3>2 DEF Answers, NoticeTellsTheTruth
    <3> QED
      BY <1>8, <3>1, <3>2 DEF Background
  <2> QED
    BY <1>2, <1>3, <2>1 DEF EnvelopeAdmits, Terminal
<1> HIDE DEF r
<1>9. r.put.state = p.state /\ p.state # "none"
  BY <1>3, <1>5
<1>10. Background(m) => /\ r.put.state = rows[m].state
                        /\ rows[m].state = "complete" => r.text \in {"whole", "same"}
  BY <1>3, <1>5, <1>8, <1>9
<1> QED
  BY <1>2, <1>5, <1>6, <1>7, <1>9, <1>10, PatchKeepsInv

LEMMA MetadataKeepsInv ==
    ASSUME Inv, NEW m \in DOMAIN rows, PatchRead(Nobody, m, Metadata)
    PROVE  Inv'
<1>1. Shape /\ Tree /\ Patches /\ Answers
  BY DEF Inv
<1> DEFINE r == [row |-> m, by |-> Nobody, put |-> Envelope(rows[m], Metadata.state), text |-> Metadata.text]
<1>2. /\ requests' = requests \cup {r} /\ UNCHANGED <<rows, next, leaf, jobs, notices, lost, faults>>
      /\ WriterAdmits(rows[m], Nobody)
  BY DEF PatchRead
<1>3. Metadata.state = "none" /\ Metadata.text = "same"
  BY DEF Metadata
<1>4. rows[m] \in MessageRows /\ m \in Ids
  BY <1>1 DEF Shape, TypeOK
<1>5. rows[m].writer = Nobody /\ rows[m].state # "reserved" /\ rows[m].state \in States
  BY <1>2, <1>4 DEF WriterAdmits, MessageRows
<1>6. r.row = m /\ r.by = Nobody /\ r.text = "same" /\ r.put = [state |-> rows[m].state, writer |-> Nobody]
  BY <1>3, <1>5 DEF Envelope
<1>7. r \in [row : Ids, by : Tabs \cup {Nobody}, text : Texts \cup {"same"},
             put : [state : States \ {"reserved"}, writer : {Nobody}]]
  BY <1>4, <1>5, <1>6
<1> HIDE DEF r
<1>8. r.put.state = rows[m].state
  BY <1>6
<1> QED
  BY <1>2, <1>5, <1>6, <1>7, <1>8, PatchKeepsInv

LEMMA PatchWriteKeepsInv ==
    ASSUME Inv, NEW r \in requests, PatchWrite(r)
    PROVE  Inv'
<1>1. Shape /\ Tree /\ Patches /\ Answers
  BY DEF Inv
<1>2. /\ rows' = [m \in DOMAIN rows |-> IF m = r.row THEN Written(rows[m], r) ELSE rows[m]]
      /\ requests' = requests \ {r} /\ UNCHANGED <<next, leaf, jobs, notices, lost, faults>>
  BY DEF PatchWrite
<1>3. /\ r.row \in Ids /\ r.text \in Texts \cup {"same"}
      /\ r.put \in [state : States \ {"reserved"}, writer : {Nobody}]
  BY <1>1 DEF Shape, TypeOK
<1>4. DOMAIN rows' = DOMAIN rows /\ \A k \in DOMAIN rows : k # r.row => rows'[k] = rows[k]
  BY <1>2
<1>5. ASSUME r.row \in DOMAIN rows
      PROVE  /\ rows'[r.row] \in MessageRows
             /\ rows'[r.row].parent = rows[r.row].parent /\ rows'[r.row].role = rows[r.row].role
             /\ rows'[r.row].state = r.put.state /\ rows'[r.row].writer = Nobody
             /\ r.text = "same" => rows'[r.row].text = rows[r.row].text
             /\ r.text # "same" => rows'[r.row].text = r.text
  <2> DEFINE text == IF r.text = "same" THEN rows[r.row].text ELSE r.text
             old == rows[r.row]
  <2>1. old \in MessageRows
    BY <1>1, <1>5 DEF Shape
  <2>2. rows'[r.row] = [old EXCEPT !.state = r.put.state, !.writer = r.put.writer, !.text = text]
    BY <1>2, <1>5 DEF Written
  <2>3. text \in Texts
    BY <1>3, <2>1 DEF MessageRows
  <2> HIDE DEF text, old
  <2>4. rows'[r.row] = [parent |-> old.parent, role |-> old.role, state |-> r.put.state,
                        writer |-> Nobody, text |-> text]
    BY <1>3, <2>1, <2>2 DEF MessageRows
  <2>5. rows'[r.row] \in MessageRows
    <3>1. r.put.state \in States /\ r.put.state # "reserved"
      BY <1>3
    <3>2. old.parent \in {Root} \cup Ids /\ old.role \in {"user", "assistant"}
      BY <2>1 DEF MessageRows
    <3> QED
      BY <2>3, <2>4, <3>1, <3>2 DEF MessageRows
  <2> QED
    BY <2>4, <2>5 DEF old, text
<1>6. rows' \in [DOMAIN rows' -> MessageRows]
  <2>1. \A k \in DOMAIN rows' : rows'[k] \in MessageRows
    BY <1>1, <1>4, <1>5 DEF Shape
  <2> QED
    BY <1>2, <1>4, <2>1
<1>7. Shape'
  <2>1. TypeOK'
    BY <1>1, <1>2, <1>4, <1>6 DEF Shape, TypeOK
  <2> QED
    BY <1>1, <1>2, <1>6, <2>1 DEF Shape
<1>8. Tree'
  <2>1. \A k \in DOMAIN rows : rows'[k].parent = rows[k].parent /\ rows'[k].role = rows[k].role
    BY <1>4, <1>5
  <2> QED
    BY <1>1, <1>2, <1>4, <2>1, TreeKept
<1>9. Patches'
  <2> SUFFICES ASSUME NEW q \in requests, q.row \in DOMAIN rows
               PROVE  /\ q.put.state = "none" <=> rows'[q.row].state = "none"
                      /\ rows'[q.row].state = "reserved" => q.by = rows'[q.row].writer
    BY <1>2, <1>4 DEF Patches
  <2>1. CASE q.row = r.row
    <3>1. r.put.state # "reserved"
      BY <1>3
    <3> QED
      BY <1>1, <1>5, <2>1, <3>1 DEF Patches
  <2>2. CASE q.row # r.row
    BY <1>1, <1>4, <2>2 DEF Patches
  <2> QED
    BY <2>1, <2>2
\* What a patch writes into the row of a background answer is what the row says already.
<1>10. ASSUME r.row \in DOMAIN rows, Background(r.row)
       PROVE  /\ rows'[r.row].state = rows[r.row].state /\ rows[r.row].state # "reserved"
              /\ rows[r.row].state = "complete" /\ rows[r.row].text = "whole" => rows'[r.row].text = "whole"
  <2>1. r.put.state = rows[r.row].state /\ (rows[r.row].state = "complete" => r.text \in {"whole", "same"})
    BY <1>1, <1>10 DEF Answers
  <2>2. r.put.state # "reserved"
    BY <1>3
  <2> QED
    BY <1>5, <1>10, <2>1, <2>2
<1>11. \A k \in DOMAIN jobs' :
         /\ \A n \in notices : n.row # k
         /\ jobs[k].stage = "telling" => jobs[k].verdict # "none"
         /\ k \in DOMAIN rows' =>
              IF jobs[k].stage = "telling"
              THEN /\ rows'[k].state = jobs[k].verdict
                   /\ jobs[k].verdict = "complete" => rows'[k].text = "whole"
              ELSE rows'[k].writer = Server
  <2> SUFFICES ASSUME NEW k \in DOMAIN jobs, k \in DOMAIN rows
               PROVE  IF jobs[k].stage = "telling"
                      THEN /\ rows'[k].state = jobs[k].verdict
                           /\ jobs[k].verdict = "complete" => rows'[k].text = "whole"
                      ELSE rows'[k].writer = Server
    BY <1>1, <1>2, <1>4 DEF Answers
  <2>1. CASE k = r.row
    <3>1. Background(r.row)
      BY <2>1 DEF Background
    <3>2. jobs[k].stage = "telling"
      BY <2>1, WaitingRow
    <3> QED
      BY <1>1, <1>10, <2>1, <3>1, <3>2 DEF Answers
  <2>2. CASE k # r.row
    BY <1>1, <1>4, <2>2 DEF Answers
  <2> QED
    BY <2>1, <2>2
<1>12. NoticeTellsTheTruth'
  <2> SUFFICES ASSUME NEW n \in notices, n.row \in DOMAIN rows
               PROVE  IF n.type = "answer_ready"
                      THEN rows'[n.row].state = "complete" /\ rows'[n.row].text = "whole"
                      ELSE rows'[n.row].state = "failed"
    BY <1>1, <1>2, <1>4 DEF Answers, NoticeTellsTheTruth
  <2>1. CASE n.row = r.row
    <3>1. Background(r.row)
      BY <2>1 DEF Background
    <3> QED
      BY <1>1, <1>10, <2>1, <3>1 DEF Answers, NoticeTellsTheTruth
  <2>2. CASE n.row # r.row
    BY <1>1, <1>4, <2>2 DEF Answers, NoticeTellsTheTruth
  <2> QED
    BY <2>1, <2>2
<1>13. \A q \in requests : q.row \in DOMAIN rows /\ Background(q.row) =>
         /\ q.put.state = rows'[q.row].state
         /\ rows'[q.row].state = "complete" => q.text \in {"whole", "same"}
  <2> SUFFICES ASSUME NEW q \in requests, q.row \in DOMAIN rows, Background(q.row)
               PROVE  /\ q.put.state = rows'[q.row].state
                      /\ rows'[q.row].state = "complete" => q.text \in {"whole", "same"}
    OBVIOUS
  <2>1. rows'[q.row].state = rows[q.row].state
    BY <1>4, <1>10
  <2> QED
    BY <1>1, <2>1 DEF Answers
<1>14. \A q \in requests : Background(q.row)' <=> Background(q.row)
  BY <1>2 DEF Background
<1>15. Answers'
  BY <1>2, <1>4, <1>11, <1>12, <1>13, <1>14 DEF Answers
<1> QED
  BY <1>7, <1>8, <1>9, <1>15 DEF Inv

LEMMA InitInv ==
    ASSUME Init
    PROVE  Inv
<1>1. /\ leaf \in {0, 1} /\ rows = [m \in 1..leaf |-> Question(Root)] /\ next = leaf + 1
      /\ requests = {} /\ DOMAIN jobs = {} /\ jobs \in [{} -> JobRecords] /\ notices = {} /\ lost = {} /\ faults = 0
  <2>1. DOMAIN jobs = {} /\ jobs \in [{} -> JobRecords]
    BY DEF Init
  <2> QED
    BY <2>1 DEF Init, Root
<1>2. MaxRows \in Nat \ {0} /\ MaxFaults \in Nat
  BY RowsAssumption, BoundsAssumption
<1>3. Question(Root) \in MessageRows /\ Question(Root).parent = Root /\ Question(Root).role = "user"
  BY DEF Question, Row, MessageRows, States, Terminal, Texts
<1>4. DOMAIN rows \subseteq {1} /\ 1 \in Ids /\ (1 \in DOMAIN rows <=> leaf = 1)
  BY <1>1, <1>2 DEF Ids
<1>5. \A m \in DOMAIN rows : rows[m] = Question(Root) /\ m = 1 /\ leaf = 1
  BY <1>1, <1>4
<1>6. Shape
  <2>1. TypeOK
    <3>1. next \in 1..(MaxRows + 1) /\ leaf \in {Root} \cup Ids /\ lost \subseteq Ids
          /\ faults \in 0..MaxFaults
      BY <1>1, <1>2 DEF Root, Ids
    <3>2. \A m \in DOMAIN rows : rows[m] \in MessageRows /\ m < next
      BY <1>1, <1>3, <1>5
    <3> QED
      BY <1>1, <1>4, <3>1, <3>2 DEF TypeOK
  <2>2. rows \in [DOMAIN rows -> MessageRows]
    BY <1>1, <1>3
  <2> QED
    BY <1>1, <2>1, <2>2 DEF Shape
<1>7. Tree
  <2>1. TurnsAlternate /\ \A m \in DOMAIN rows : rows[m].parent < m
    BY <1>3, <1>5 DEF TurnsAlternate, Root
  <2>2. LeafIsATip /\ (DOMAIN rows = {} => leaf = Root)
    BY <1>1, <1>3, <1>4, <1>5 DEF LeafIsATip, Children, Root
  <2> QED
    BY <2>1, <2>2 DEF Tree
<1>8. Patches /\ Answers
  BY <1>1 DEF Patches, Answers, NoticeTellsTheTruth
<1> QED
  BY <1>6, <1>7, <1>8 DEF Inv
-----------------------------------------------------------------------------
(* The steps together, and the theorems. *)

LEMMA TurnKeepsInv ==
    ASSUME Inv, NEW t \in Tabs, StartTurn(t)
    PROVE  Inv'
<1>1. Shape /\ Tree
  BY DEF Inv
<1>2. NewTurn(t) /\ UNCHANGED <<requests, jobs, notices, lost, faults>>
  BY DEF StartTurn
<1>3. Insert(Turn(t)) /\ Turn(t) \in Seq(MessageRows) /\ Turn(t) # <<>> /\ Fits(Turn(t))
  BY <1>1, <1>2, TurnFits
<1> QED
  BY <1>2, <1>3, GrowingKeepsInv

LEMMA AdditionKeepsInv ==
    ASSUME Inv, NEW m \in DOMAIN rows, NEW t \in Tabs \cup {Server},
           ReserveReply(t, m) \/ BranchTurn(t, m) \/ BranchMessage(m)
    PROVE  Inv'
<1>1. Shape /\ Tree
  BY DEF Inv
<1>2. PICK new \in Seq(MessageRows) : new # <<>> /\ Insert(new) /\ Fits(new)
  BY <1>1, Additions
<1>3. UNCHANGED <<requests, jobs, notices, lost, faults>>
  BY DEF ReserveReply, BranchTurn, BranchMessage
<1> QED
  BY <1>2, <1>3, GrowingKeepsInv

LEMMA StutterKeepsInv ==
    ASSUME Inv, UNCHANGED vars
    PROVE  Inv'
BY DEF Inv, vars, Shape, TypeOK, Tree, TurnsAlternate, LeafIsATip, Children, Patches, Answers, Background,
       NoticeTellsTheTruth

LEMMA StepKeepsInv ==
    ASSUME Inv, [Next]_vars
    PROVE  Inv'
<1>1. CASE \E t \in Tabs : StartTurn(t)
  BY <1>1, TurnKeepsInv
<1>2. CASE \E t \in Tabs, m \in DOMAIN rows : ReserveReply(t, m) \/ BranchTurn(t, m)
  BY <1>2, AdditionKeepsInv
<1>3. CASE \E m \in DOMAIN rows : BranchMessage(m) \/ SetActiveLeaf(m) \/ DeleteBranch(m)
  <2> PICK m \in DOMAIN rows : BranchMessage(m) \/ SetActiveLeaf(m) \/ DeleteBranch(m)
    BY <1>3
  <2>1. CASE BranchMessage(m)
    <3>1. ReserveReply(Server, m) \/ BranchTurn(Server, m) \/ BranchMessage(m)
      BY <2>1
    <3> QED
      BY <3>1, AdditionKeepsInv
  <2>2. CASE SetActiveLeaf(m)
    BY <2>2, MovingKeepsInv
  <2>3. CASE DeleteBranch(m)
    BY <2>3, PruningKeepsInv
  <2> QED
    BY <2>1, <2>2, <2>3
<1>4. CASE \E t \in Tabs, p \in Endings :
              \E m \in {k \in DOMAIN rows : rows[k].state # "none"} : PatchRead(t, m, p)
  BY <1>4, EndingKeepsInv
<1>5. CASE \E m \in DOMAIN rows : PatchRead(Nobody, m, Metadata)
  BY <1>5, MetadataKeepsInv
<1>6. CASE \E r \in requests : PatchWrite(r)
  BY <1>6, PatchWriteKeepsInv
<1>7. CASE Enqueue
  BY <1>7, EnqueueKeepsInv
<1>8. CASE \E m \in DOMAIN jobs : JobStep(m) \/ JobCrashes(m)
  BY <1>8, JobLoadsKeepsInv, JobWritesKeepsInv, JobTellsKeepsInv, JobCrashesKeepsInv DEF JobStep
<1>9. CASE Restart
  BY <1>9, RestartKeepsInv
<1>10. CASE UNCHANGED vars
  BY <1>10, StutterKeepsInv
<1> QED
  BY <1>1, <1>2, <1>3, <1>4, <1>5, <1>6, <1>7, <1>8, <1>9, <1>10 DEF Next

\* Only a patch and a task write into a row that is there.
LEMMA WhoWrites ==
    ASSUME Inv, [Next]_vars, NEW m \in DOMAIN rows \cap DOMAIN rows', rows'[m] # rows[m]
    PROVE  \/ \E r \in requests : r.row = m /\ PatchWrite(r)
           \/ m \in DOMAIN jobs /\ \E verdict \in {"complete", "failed"} : JobWrites(m, verdict)
<1>1. Shape /\ Tree
  BY DEF Inv
<1>2. ASSUME NEW new \in Seq(MessageRows), new # <<>>, Insert(new)
      PROVE  FALSE
  BY <1>1, <1>2, InsertMoves
<1>3. CASE \E t \in Tabs : StartTurn(t)
  BY <1>1, <1>2, <1>3, TurnFits DEF StartTurn
<1>4. CASE \E t \in Tabs, k \in DOMAIN rows : ReserveReply(t, k) \/ BranchTurn(t, k)
  BY <1>1, <1>2, <1>4, Additions
<1>5. CASE \E k \in DOMAIN rows : BranchMessage(k) \/ SetActiveLeaf(k) \/ DeleteBranch(k)
  <2> PICK k \in DOMAIN rows : BranchMessage(k) \/ SetActiveLeaf(k) \/ DeleteBranch(k)
    BY <1>5
  <2>1. CASE BranchMessage(k)
    <3>1. ReserveReply(Server, k) \/ BranchTurn(Server, k) \/ BranchMessage(k)
      BY <2>1
    <3>2. \E new \in Seq(MessageRows) : new # <<>> /\ Insert(new) /\ Fits(new)
      BY <1>1, <3>1, Additions
    <3> QED
      BY <1>2, <3>2
  <2>2. CASE SetActiveLeaf(k)
    BY <2>2 DEF SetActiveLeaf
  <2>3. CASE DeleteBranch(k)
    BY <1>1, <2>3, PruningKeepsTree
  <2> QED
    BY <2>1, <2>2, <2>3
<1>6. CASE \E t \in Tabs, p \in Endings :
              \E k \in {j \in DOMAIN rows : rows[j].state # "none"} : PatchRead(t, k, p)
  BY <1>6 DEF PatchRead
<1>7. CASE \E k \in DOMAIN rows : PatchRead(Nobody, k, Metadata)
  BY <1>7 DEF PatchRead
<1>8. CASE \E r \in requests : PatchWrite(r)
  <2> PICK r \in requests : PatchWrite(r)
    BY <1>8
  <2>1. r.row = m
    BY DEF PatchWrite
  <2> QED
    BY <2>1
<1>9. CASE Enqueue
  BY <1>1, <1>2, <1>9, TurnFits DEF Enqueue
<1>10. CASE \E k \in DOMAIN jobs : JobStep(k) \/ JobCrashes(k)
  <2> PICK k \in DOMAIN jobs : JobStep(k) \/ JobCrashes(k)
    BY <1>10
  <2>1. CASE JobLoads(k) \/ JobTells(k) \/ JobCrashes(k)
    BY <2>1 DEF JobLoads, JobTells, JobCrashes
  <2>2. CASE \E verdict \in {"complete", "failed"} : JobWrites(k, verdict)
    <3> PICK verdict \in {"complete", "failed"} : JobWrites(k, verdict)
      BY <2>2
    <3>1. k = m
      BY <1>1 DEF JobWrites, Shape
    <3> QED
      BY <3>1
  <2> QED
    BY <2>1, <2>2 DEF JobStep
<1>11. CASE Restart
  BY <1>11 DEF Restart
<1>12. CASE UNCHANGED vars
  BY <1>12 DEF vars
<1> QED
  BY <1>3, <1>4, <1>5, <1>6, <1>7, <1>8, <1>9, <1>10, <1>11, <1>12 DEF Next

LEMMA Invariant == Spec => []Inv
BY InitInv, StepKeepsInv, PTL DEF Spec

(* Every variable keeps its type, and a row has a writer token exactly     *)
(* while it waits for its answer.                                          *)
THEOREM TypeCorrect == Spec => []TypeOK
<1>1. Inv => TypeOK
  BY DEF Inv, Shape
<1> QED
  BY <1>1, Invariant, PTL

(* However turns, branches and deletions follow one another, no question   *)
(* ends up below a question and no answer below an answer.                 *)
THEOREM TurnsAlwaysAlternate == Spec => []TurnsAlternate
<1>1. Inv => TurnsAlternate
  BY DEF Inv, Tree
<1> QED
  BY <1>1, Invariant, PTL

(* The active leaf is a message that is there with nothing below it, after *)
(* moves, deletions of the branch it is in, and turns started meanwhile.   *)
THEOREM LeafAlwaysATip == Spec => []LeafIsATip
<1>1. Inv => LeafIsATip
  BY DEF Inv, Tree
<1> QED
  BY <1>1, Invariant, PTL

(* What a user was told of a background answer, once, is what the row says *)
(* for as long as it is there, patches in flight included.                 *)
THEOREM NoticesTellTheTruth == Spec => []NoticeTellsTheTruth
<1>1. Inv => NoticeTellsTheTruth
  BY DEF Inv, Answers
<1> QED
  BY <1>1, Invariant, PTL

(* A row that is finished stays finished, though patches write what they   *)
(* decided when they read it.                                              *)
THEOREM FinishedStaysFinished == Spec => FinishedNeverReopens
<1>1. ASSUME Inv, [Next]_vars, NEW m \in DOMAIN rows \cap DOMAIN rows', rows[m].state \in Terminal
      PROVE  rows'[m].state \in Terminal
  <2>1. CASE rows'[m] = rows[m]
    BY <1>1, <2>1
  <2>2. CASE \E r \in requests : r.row = m /\ PatchWrite(r)
    <3> PICK r \in requests : r.row = m /\ PatchWrite(r)
      BY <2>2
    <3>1. rows[m] \in MessageRows /\ r.put.state \in States \ {"reserved"}
      BY <1>1 DEF Inv, Shape, TypeOK
    <3>2. r.put.state # "none"
      BY <1>1 DEF Inv, Patches, Terminal
    <3>3. rows'[m].state = r.put.state
      BY <1>1, <3>1 DEF PatchWrite, Written, MessageRows
    <3> QED
      BY <3>1, <3>2, <3>3 DEF States
  <2>3. CASE m \in DOMAIN jobs /\ \E verdict \in {"complete", "failed"} : JobWrites(m, verdict)
    <3>1. jobs[m].stage # "telling"
      BY <2>3 DEF JobWrites
    <3>2. rows[m].state = "reserved"
      BY <1>1, <2>3, <3>1, WaitingRow
    <3> QED
      BY <1>1, <3>2 DEF Terminal
  <2> QED
    BY <1>1, <2>1, <2>2, <2>3, WhoWrites
<1>2. Inv /\ [Next]_vars => [\A m \in DOMAIN rows \cap DOMAIN rows' :
                               rows[m].state \in Terminal => rows'[m].state \in Terminal]_vars
  BY <1>1
<1> QED
  BY <1>2, Invariant, PTL DEF Spec, FinishedNeverReopens

(* While a row waits for its answer, only a patch of the tab that holds    *)
(* its token or the task that answers it changes the row.                  *)
THEOREM OnlyTheWriterWrites == Spec => WriterKeepsItsRow
<1> DEFINE byWriter(m) == \/ \E r \in requests : r.row = m /\ r.by = rows[m].writer
                          \/ /\ rows[m].writer = Server
                             /\ m \in DOMAIN jobs
<1>1. ASSUME Inv, [Next]_vars, NEW m \in DOMAIN rows \cap DOMAIN rows', rows[m].state = "reserved",
             rows'[m] # rows[m]
      PROVE  byWriter(m)
  <2>1. CASE \E r \in requests : r.row = m /\ PatchWrite(r)
    BY <1>1, <2>1 DEF Inv, Patches
  <2>2. CASE m \in DOMAIN jobs /\ \E verdict \in {"complete", "failed"} : JobWrites(m, verdict)
    <3>1. jobs[m].stage # "telling"
      BY <2>2 DEF JobWrites
    <3>2. rows[m].writer = Server
      BY <1>1, <2>2, <3>1, WaitingRow
    <3> QED
      BY <2>2, <3>2
  <2> QED
    BY <1>1, <2>1, <2>2, WhoWrites
<1>2. Inv /\ [Next]_vars => [\A m \in DOMAIN rows \cap DOMAIN rows' :
                               rows[m].state = "reserved" /\ rows'[m] # rows[m] => byWriter(m)]_vars
  BY <1>1
<1> QED
  BY <1>2, Invariant, PTL DEF Spec, WriterKeepsItsRow
=============================================================================
