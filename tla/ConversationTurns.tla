------------------------- MODULE ConversationTurns -------------------------
(***************************************************************************)
(* The message tree of one conversation, the rows reserved for answers     *)
(* that are still being produced, and the answers CSP completes in the     *)
(* background.                                                             *)
(*                                                                         *)
(* An operation on the tree holds the conversation's row lock from its     *)
(* first read to its commit and is one step.  PUT on a message takes no    *)
(* lock: it reads the row, decides, and writes in a later step, when other *)
(* requests may have written.  A background answer is a task in the memory *)
(* of a CSP process: it loads the active path, waits for the model, writes *)
(* the row, and notifies in another transaction.                           *)
(***************************************************************************)
EXTENDS Integers, Sequences, FiniteSets, FiniteSetsExt

CONSTANTS
    Tabs,         \* browser tabs; a tab holds the tokens it made
    Server,       \* holder of the tokens of background answers
    Nobody,       \* the row has no writer token
    MaxRequests,  \* bound on the PUT requests in flight at a time
    MaxSiblings,  \* _max_siblings
    MaxRows,      \* bound on the rows ever created
    MaxFaults     \* bound on restarts of CSP and tasks that crash

ASSUME WritersAssumption == Server \notin Tabs /\ Nobody \notin Tabs \cup {Server}
ASSUME RowsAssumption == MaxRows \in Nat \ {0} /\ MaxSiblings \in Nat \ {0}
ASSUME BoundsAssumption == MaxRequests \in Nat /\ MaxFaults \in Nat

Root == 0
Ids == 1..MaxRows
Terminal == {"complete", "stopped", "failed", "unanswered"}
States == {"none", "reserved"} \cup Terminal
Texts == {"empty", "half", "whole"}

VARIABLES
    rows,      \* messages of the conversation by id
    next,      \* the next id; ids and created_at grow together
    leaf,      \* active_leaf_message_id, Root when NULL
    requests,  \* PUTs that have read their row: what they will write
    jobs,      \* background tasks by the id of the row they answer
    notices,   \* notifications written, by row and type
    lost,      \* rows whose task crashed or was in memory at a restart (history)
    faults     \* restarts and crashes so far

vars == <<rows, next, leaf, requests, jobs, notices, lost, faults>>

----------------------------------------------------------------------------
(* The tree.                                                               *)

Children(t, m) == {k \in DOMAIN t : t[k].parent = m}

(* m and its descendants: what every set holding m and closed under        *)
(* children has.                                                           *)
Subtree(t, m) ==
    LET closed == {S \in SUBSET DOMAIN t :
                      /\ m \in S
                      /\ \A k \in DOMAIN t : t[k].parent \in S => k \in S}
    IN  {k \in DOMAIN t : \A S \in closed : k \in S}

(* m and the messages above it, up to the root.                            *)
Path(t, m) ==
    LET closed == {S \in SUBSET DOMAIN t :
                      /\ m \in S
                      /\ \A k \in S : t[k].parent # Root => t[k].parent \in S}
    IN  {k \in DOMAIN t : \A S \in closed : k \in S}

(* From m down, always to the newest child, and of that the end: ids grow  *)
(* downwards, so that it is the largest.                                   *)
NewestUnder(t, m) ==
    LET closed == {S \in SUBSET {k \in DOMAIN t : k >= m} :
                      /\ m \in S
                      /\ \A k \in S : Children(t, k) # {} => Max(Children(t, k)) \in S}
    IN  Max({k \in DOMAIN t : \A S \in closed : k \in S})

Row(parent, role, state, writer, text) ==
    [parent |-> parent, role |-> role, state |-> state,
     writer |-> writer, text |-> text]

Question(parent) == Row(parent, "user", "none", Nobody, "whole")
Reserved(parent, w) == Row(parent, "assistant", "reserved", w, "empty")

\* Mutant: the added answer looks like one still being written.
UnansweredHeld(parent) == Row(parent, "assistant", "unanswered", Server, "empty")

Unanswered(parent) == Row(parent, "assistant", "unanswered", Nobody, "empty")

(* The new rows take the next ids and leaf moves to the last of them.      *)
Insert(new) ==
    /\ next + Len(new) <= MaxRows + 1
    /\ rows' = [m \in DOMAIN rows \cup {next + i - 1 : i \in DOMAIN new} |->
                    IF m \in DOMAIN rows THEN rows[m] ELSE new[m - next + 1]]
    /\ next' = next + Len(new)
    /\ leaf' = next + Len(new) - 1

RoomUnder(m) == Cardinality(Children(rows, m)) < MaxSiblings

LeafUnanswered ==
    /\ leaf # Root
    /\ rows[leaf].role = "user"
    /\ Children(rows, leaf) = {}

\* Mutant: the new turn always goes right below the leaf.
TurnBelowLeaf(w) == <<Question(leaf), Reserved(next, w)>>

(* _close_unanswered_leaf runs in the same transaction: a question left    *)
(* without an answer gets an empty final row and the new turn goes below.  *)
Turn(w) ==
    IF LeafUnanswered
    THEN <<Unanswered(leaf), Question(next), Reserved(next + 1, w)>>
    ELSE <<Question(leaf), Reserved(next, w)>>

NewTurn(w) ==
    /\ LeafUnanswered \/ RoomUnder(leaf)
    /\ Insert(Turn(w))

StartTurn(t) ==
    /\ NewTurn(t)
    /\ UNCHANGED <<requests, jobs, notices, lost, faults>>

ReserveReply(t, m) ==
    /\ rows[m].role = "user"
    /\ Children(rows, m) = {}
    /\ Insert(<<Reserved(m, t)>>)
    /\ UNCHANGED <<requests, jobs, notices, lost, faults>>

(* Edit and ask again.                                                     *)
BranchTurn(t, m) ==
    /\ rows[m].role = "user"
    /\ RoomUnder(rows[m].parent)
    /\ Insert(<<Question(rows[m].parent), Reserved(next, t)>>)
    /\ UNCHANGED <<requests, jobs, notices, lost, faults>>

(* Regenerate: the answer was streamed first and is stored complete.       *)
BranchMessage(m) ==
    /\ RoomUnder(rows[m].parent)
    /\ Insert(<<Row(rows[m].parent, rows[m].role, "none", Nobody, "whole")>>)
    /\ UNCHANGED <<requests, jobs, notices, lost, faults>>

SetActiveLeaf(m) ==
    /\ leaf' = NewestUnder(rows, m)
    /\ UNCHANGED <<rows, next, requests, jobs, notices, lost, faults>>

\* Mutant: the parent becomes the leaf even when it has other children.
LeafIsTheParent(m, left) ==
    IF leaf \in DOMAIN left THEN leaf
    ELSE IF rows[m].parent \in DOMAIN left THEN rows[m].parent
    ELSE NewestUnder(left, Max(Children(left, Root)))

(* The leaf of what is left when the branch at m goes.                     *)
LeafWithout(m, left) ==
    IF leaf \in DOMAIN left THEN leaf
    ELSE IF rows[m].parent \in DOMAIN left THEN NewestUnder(left, rows[m].parent)
    ELSE NewestUnder(left, Max(Children(left, Root)))

DeleteBranch(m) ==
    LET left == [k \in DOMAIN rows \ Subtree(rows, m) |-> rows[k]] IN
    /\ DOMAIN left # {}
    /\ rows' = left
    /\ leaf' = LeafWithout(m, left)
    /\ UNCHANGED <<next, requests, jobs, notices, lost, faults>>

----------------------------------------------------------------------------
(* PUT on a message.                                                       *)

(* What a tab sends of a row reserved for a stream: the end of the stream  *)
(* with what it has of the text, or the mark of a closing page.  Nothing   *)
(* here tells "stopped" and "interrupted" apart: "stopped" is either.      *)
Endings == {[state |-> "complete", text |-> "whole"],
            [state |-> "stopped", text |-> "half"],
            [state |-> "failed", text |-> "half"]}

(* Other patches carry no token and say nothing of a stream.               *)
Metadata == [state |-> "none", text |-> "same"]

\* Mutant: any tab of the user may write any row.
AnyWriter(row, t) == TRUE

(* A row with a writer token is written by its holder only.                *)
WriterAdmits(row, t) == row.writer # Nobody => t = row.writer

\* Mutant: a final state may be replaced by another.
AnyEnvelope(row, state) == TRUE

(* A finished row keeps its state.                                         *)
EnvelopeAdmits(row, state) ==
    state # "none" /\ row.state \in Terminal => state = row.state

(* Metadata without an envelope carries the stored envelope over; a final  *)
(* envelope drops the writer.                                              *)
Envelope(row, state) ==
    IF state = "none" THEN [state |-> row.state, writer |-> row.writer]
    ELSE [state |-> state, writer |-> Nobody]

PatchRead(by, m, p) ==
    /\ Cardinality(requests) < MaxRequests
    /\ rows[m].role = "assistant"
    /\ WriterAdmits(rows[m], by)
    /\ EnvelopeAdmits(rows[m], p.state)
    /\ requests' = requests \cup
           {[row |-> m, by |-> by,
             put |-> Envelope(rows[m], p.state), text |-> p.text]}
    /\ UNCHANGED <<rows, next, leaf, jobs, notices, lost, faults>>

Written(row, r) ==
    [row EXCEPT !.state = r.put.state, !.writer = r.put.writer,
                !.text = IF r.text = "same" THEN row.text ELSE r.text]

(* The row may be gone by now; then the update matches nothing.            *)
PatchWrite(r) ==
    /\ rows' = [m \in DOMAIN rows |->
                    IF m = r.row THEN Written(rows[m], r) ELSE rows[m]]
    /\ requests' = requests \ {r}
    /\ UNCHANGED <<next, leaf, jobs, notices, lost, faults>>

----------------------------------------------------------------------------
(* Background answers.                                                     *)

WithoutJob(m) == [k \in DOMAIN jobs \ {m} |-> jobs[k]]

Enqueue ==
    /\ NewTurn(Server)
    /\ jobs' = [k \in DOMAIN jobs \cup {leaf'} |->
                    IF k \in DOMAIN jobs THEN jobs[k]
                    ELSE [stage |-> "queued", asked |-> Root, verdict |-> "none"]]
    /\ UNCHANGED <<requests, notices, lost, faults>>

(* history_for_completion leaves out the row being answered and answers    *)
(* with no text; the model answers the last message that remains.          *)
LastAsked(m) ==
    Max({Root} \cup {k \in Path(rows, leaf) \ {m} :
                        rows[k].role = "user" \/ rows[k].text # "empty"})

JobLoads(m) ==
    /\ jobs[m].stage = "queued"
    /\ jobs' = IF m \in DOMAIN rows
               THEN [jobs EXCEPT ![m].stage = "calling", ![m].asked = LastAsked(m)]
               ELSE WithoutJob(m)
    /\ UNCHANGED <<rows, next, leaf, requests, notices, lost, faults>>

\* Mutant: the failure path stores the text and forgets to notify.
JobWritesSilently(m, verdict) ==
    /\ jobs[m].stage = "calling"
    /\ IF m \in DOMAIN rows
       THEN /\ rows' = [rows EXCEPT
                   ![m].state = verdict, ![m].writer = Nobody,
                   ![m].text = IF verdict = "complete" THEN "whole" ELSE "half"]
            /\ jobs' = IF verdict = "complete"
                       THEN [jobs EXCEPT ![m].stage = "telling", ![m].verdict = verdict]
                       ELSE WithoutJob(m)
       ELSE rows' = rows /\ jobs' = WithoutJob(m)
    /\ UNCHANGED <<next, leaf, requests, notices, lost, faults>>

(* The model answered, or it failed, was withdrawn or timed out.  The row  *)
(* is written under the token read at the start; if the row was deleted    *)
(* the write ends in a 404 that only the log sees.                         *)
JobWrites(m, verdict) ==
    /\ jobs[m].stage = "calling"
    /\ IF m \in DOMAIN rows
       THEN /\ rows' = [rows EXCEPT
                   ![m].state = verdict, ![m].writer = Nobody,
                   ![m].text = IF verdict = "complete" THEN "whole" ELSE "half"]
            /\ jobs' = [jobs EXCEPT ![m].stage = "telling", ![m].verdict = verdict]
       ELSE rows' = rows /\ jobs' = WithoutJob(m)
    /\ UNCHANGED <<next, leaf, requests, notices, lost, faults>>

NoticeFor(verdict) == IF verdict = "complete" THEN "answer_ready" ELSE "answer_failed"

JobTells(m) ==
    /\ jobs[m].stage = "telling"
    /\ notices' = notices \cup {[row |-> m, type |-> NoticeFor(jobs[m].verdict)]}
    /\ jobs' = WithoutJob(m)
    /\ UNCHANGED <<rows, next, leaf, requests, lost, faults>>

Fault == faults < MaxFaults /\ faults' = faults + 1

(* An exception outside the call of the model, in the write of the row or  *)
(* in that of the notification say: run_detached logs it, and that is all. *)
JobCrashes(m) ==
    /\ Fault
    /\ jobs' = WithoutJob(m)
    /\ lost' = lost \cup {m}
    /\ UNCHANGED <<rows, next, leaf, requests, notices>>

(* Tasks and requests live in the memory of the process.                   *)
Restart ==
    /\ Fault
    /\ lost' = lost \cup DOMAIN jobs
    /\ jobs' = [m \in {} |-> jobs[m]]
    /\ requests' = {}
    /\ UNCHANGED <<rows, next, leaf, notices>>

----------------------------------------------------------------------------

(* A new conversation, or one from before replies were reserved that ends  *)
(* in a question nobody answered.                                          *)
Init ==
    /\ leaf \in {Root, 1}
    /\ rows = [m \in 1..leaf |-> Question(Root)]
    /\ next = leaf + 1
    /\ requests = {}
    /\ jobs = <<>>
    /\ notices = {}
    /\ lost = {}
    /\ faults = 0

JobStep(m) ==
    \/ JobLoads(m)
    \/ \E verdict \in {"complete", "failed"} : JobWrites(m, verdict)
    \/ JobTells(m)

Next ==
    \/ \E t \in Tabs : StartTurn(t)
    \/ \E t \in Tabs, m \in DOMAIN rows : ReserveReply(t, m) \/ BranchTurn(t, m)
    \/ \E m \in DOMAIN rows : BranchMessage(m) \/ SetActiveLeaf(m) \/ DeleteBranch(m)
    \/ \E t \in Tabs, p \in Endings :
          \E m \in {k \in DOMAIN rows : rows[k].state # "none"} : PatchRead(t, m, p)
    \/ \E m \in DOMAIN rows : PatchRead(Nobody, m, Metadata)
    \/ \E r \in requests : PatchWrite(r)
    \/ Enqueue
    \/ \E m \in DOMAIN jobs : JobStep(m) \/ JobCrashes(m)
    \/ Restart

Spec == Init /\ [][Next]_vars

(* Calls to a model end: proxy_request has timeouts.  Nothing is assumed   *)
(* of users and tabs.                                                      *)
FairSpec == Spec /\ \A m \in Ids : WF_vars(m \in DOMAIN jobs /\ JobStep(m))

----------------------------------------------------------------------------
(* Properties.                                                             *)

MessageRows ==
    {r \in [parent : {Root} \cup Ids, role : {"user", "assistant"}, state : States,
            writer : Tabs \cup {Server, Nobody}, text : Texts] :
        r.state = "reserved" <=> r.writer # Nobody}

(* Every variable has its type; a row has a writer token exactly while it  *)
(* waits for its answer, so that a finished row can be patched again.      *)
TypeOK ==
    /\ DOMAIN rows \subseteq Ids
    /\ \A m \in DOMAIN rows : rows[m] \in MessageRows
    /\ next \in 1..(MaxRows + 1)
    /\ \A m \in DOMAIN rows : m < next
    /\ leaf \in {Root} \cup Ids
    /\ requests \subseteq
           [row : Ids, by : Tabs \cup {Nobody}, text : Texts \cup {"same"},
            put : [state : States \ {"reserved"}, writer : {Nobody}]]
    /\ DOMAIN jobs \subseteq Ids
    /\ \A m \in DOMAIN jobs :
           jobs[m] \in [stage : {"queued", "calling", "telling"},
                        asked : {Root} \cup Ids, verdict : {"none", "complete", "failed"}]
    /\ notices \subseteq [row : Ids, type : {"answer_ready", "answer_failed"}]
    /\ lost \subseteq Ids
    /\ faults \in 0..MaxFaults

(* Along every branch questions and answers alternate, whichever turns,    *)
(* branches and deletions interleave: no question ends up below a question,*)
(* where the server would refuse to store its answer.                      *)
TurnsAlternate ==
    \A m \in DOMAIN rows :
        IF rows[m].parent = Root THEN rows[m].role = "user"
        ELSE /\ rows[m].parent \in DOMAIN rows
             /\ rows[m].role # rows[rows[m].parent].role

(* The active leaf is a message with nothing below it, so the next turn    *)
(* extends the conversation the user sees and does not fork it.            *)
LeafIsATip ==
    DOMAIN rows # {} => leaf \in DOMAIN rows /\ Children(rows, leaf) = {}

(* A finished row never waits for an answer again and never loses the mark *)
(* of how it ended, although patches write what they read earlier.         *)
FinishedNeverReopens ==
    [][\A m \in DOMAIN rows \cap DOMAIN rows' :
         rows[m].state \in Terminal => rows'[m].state \in Terminal]_vars

(* While a row waits for its answer only the holder of its token changes   *)
(* it: the tab that reserved it or the task that answers it.               *)
WriterKeepsItsRow ==
    [][\A m \in DOMAIN rows \cap DOMAIN rows' :
         rows[m].state = "reserved" /\ rows'[m] # rows[m] =>
             \/ \E r \in requests : r.row = m /\ r.by = rows[m].writer
             \/ /\ rows[m].writer = Server
                /\ m \in DOMAIN jobs]_vars

(* A user is told once about a background answer, and what the row says    *)
(* agrees with what he was told.                                           *)
NoticeTellsTheTruth ==
    \A n \in notices :
        /\ n.row \in DOMAIN rows =>
              IF n.type = "answer_ready"
              THEN rows[n.row].state = "complete" /\ rows[n.row].text = "whole"
              ELSE rows[n.row].state = "failed"
        /\ \A other \in notices : other.row = n.row => other = n

(* Whoever asked for a background answer is told how it ended, unless he   *)
(* deleted it or its task was lost: CSP restarted meanwhile, or the task   *)
(* crashed while it wrote the row or the notification, which nothing makes *)
(* up for.                                                                 *)
BackgroundReported ==
    \A m \in Ids :
        m \in DOMAIN jobs ~>
            \/ \E n \in notices : n.row = m
            \/ m \notin DOMAIN rows
            \/ m \in lost

(* What the code says of itself and does not keep.                         *)

(* The history sent for a background answer ends with its own question.    *)
AnswersItsOwnQuestion ==
    \A m \in DOMAIN jobs \cap DOMAIN rows :
        jobs[m].asked # Root => jobs[m].asked = rows[m].parent

=============================================================================
