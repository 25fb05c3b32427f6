--------------------------- MODULE IngestJobProofs ---------------------------
(***************************************************************************)
(* Proofs about IngestJob, for any number of documents, requests, jobs,    *)
(* tries and failures.  Typed says what refers to what and that jobs are   *)
(* numbered; Stored, that a handler's place tells which chunks are there;  *)
(* Counts, who will count a document; Alone, that a document has one job   *)
(* or one request about to enqueue it; Left, that nobody is left to take   *)
(* an indexed document back; Agree, that a job's row and the document      *)
(* agree, also while the row is about to be written.                       *)
(***************************************************************************)
EXTENDS IngestJob, FiniteSetTheorems, TLAPS

Causes == {"unqueued", "reply_lost", "step_failed", "status_lost", "timed_out", "worker_died", "tries_used"}
RequestRecords == [op  : {"upload", "reprocess", "delete"}, doc : Docs,
                   pc  : {"insert", "claim", "enqueue", "giveback", "record", "look", "unlink"},
                   job : 0..MaxJobs]
JobRecords == [doc : Docs, pc : Running \cup Ended \cup {"queued"}, try : 1..MaxTries]

\* What a handler does or suffers, and its two ways to enqueue another job.
HandlerStep(j) ==
    JobStep(j) \/ DeferReplyLost(j) \/ StepFails(j) \/ FailLost(j) \/ TimesOut(j) \/ WorkerDies(j)
Defers(j) == Defer(j) \/ DeferReplyLost(j)

Shape ==
    /\ docs \in [Docs -> {"none", "indexed", "failed", "gone"} \cup Working]
    /\ chunks \in [Docs -> SUBSET Parts]
    /\ counted \in [Docs -> Nat]
    /\ requests \in [Requests -> RequestRecords \cup {NoRequest}]
    /\ jobs \in [Jobs -> JobRecords \cup {NoJob}]
    /\ rows \in [Jobs -> {"none", "queued", "running", "succeeded", "failed"}]
    /\ unsettled \subseteq Jobs
    /\ befell \in [Docs -> SUBSET Causes]

\* Jobs are numbered as they come, and whoever is about to enqueue one has room for it.
Numbered ==
    /\ Used = 1..Cardinality(Used)
    /\ Cardinality(Used) + Cardinality(Asking) + Cardinality(Deferring) <= MaxJobs

\* What jobs, requests and rows refer to.
Refers ==
    /\ \A j \in Used : docs[jobs[j].doc] # "none"
    /\ \A q \in Requests :
         /\ requests[q].pc \in {"claim", "enqueue", "giveback", "record"} => docs[requests[q].doc] # "none"
         /\ requests[q].pc = "record" =>
              requests[q].job \in Used /\ jobs[requests[q].job].doc = requests[q].doc
    /\ \A j \in Jobs : rows[j] # "none" => j \in Used /\ Exists(jobs[j].doc)
    /\ \A d \in Docs : ~Exists(d) => chunks[d] = {}

\* An upload inserts a row that is not there, and is the only one to do it.
Inserting ==
    /\ \A q \in Requests : requests[q].pc = "insert" => docs[requests[q].doc] = "none"
    /\ \A p, q \in Requests : requests[p].pc = "insert" /\ requests[q].pc = "insert"
                                /\ requests[p].doc = requests[q].doc => p = q

Typed == Shape /\ Numbered /\ Inserting /\ Refers

\* The leaves of a document are inserted after its parents, and it is settled after both.
Stored ==
    /\ IndexedIsComplete
    /\ \A d \in Docs : "leaves" \in chunks[d] => "parents" \in chunks[d]
    /\ \A j \in Used : Exists(jobs[j].doc) =>
         /\ jobs[j].pc = "leaves" => "parents" \in chunks[jobs[j].doc]
         /\ jobs[j].pc = "settle" => chunks[jobs[j].doc] = Parts

\* The jobs that will count the document, if they get there.
Counting(d) == {j \in JobsOf(d) : jobs[j].pc \in {"settle", "count"}}
Broke(d) == befell[d] \cap {"timed_out", "worker_died", "tries_used", "step_failed"} # {}

\* Who has inserted the leaves counts the document, alone and once.
Counts ==
    \A d \in Docs :
        /\ counted[d] \in {0, 1}
        /\ \A i, j \in Counting(d) : i = j
        /\ counted[d] = 1 => Counting(d) = {}
        /\ counted[d] = 1 \/ Counting(d) # {} => "leaves" \in chunks[d] \/ docs[d] = "gone"
        /\ Exists(d) /\ "leaves" \in chunks[d] /\ counted[d] = 0 => Counting(d) # {} \/ Broke(d)

BusyJobs(d) == {j \in JobsOf(d) : Busy(j)}
Enqueuing(d) == {q \in Requests : requests[q].op \in {"upload", "reprocess"}
                                    /\ requests[q].doc = d /\ requests[q].pc \in {"enqueue", "giveback"}}
Disturbed(d) == befell[d] \cap {"worker_died", "reply_lost"} # {}

\* One job at a time, or one request about to enqueue it or to give that up; a document
\* that failed or is not there yet has neither.
Alone ==
    \A d \in Docs :
        \/ Disturbed(d)
        \/ /\ \A i, j \in BusyJobs(d) : i = j
           /\ \A p, q \in Enqueuing(d) : p = q
           /\ BusyJobs(d) = {} \/ Enqueuing(d) = {}
           /\ docs[d] \in {"none", "failed"} => BusyJobs(d) = {} /\ Enqueuing(d) = {}

\* Nobody is left to take an indexed document back.
Left ==
    \A d \in Docs : docs[d] = "indexed" =>
        \/ befell[d] \cap {"worker_died", "reply_lost", "step_failed"} # {}
        \/ Enqueuing(d) = {} /\ \A j \in BusyJobs(d) : jobs[j].pc \in {"count", "finish"}
-----------------------------------------------------------------------------
(* What the steps do to the arrays of jobs and requests. *)

LEMMA FiniteSets ==
    /\ IsFiniteSet(Used) /\ Cardinality(Used) \in Nat
    /\ IsFiniteSet(Asking) /\ Cardinality(Asking) \in Nat
    /\ IsFiniteSet(Deferring) /\ Cardinality(Deferring) \in Nat
<1>1. IsFiniteSet(1..MaxJobs)
  BY FS_Interval, IngestAssumption
<1>2. Used \in SUBSET (1..MaxJobs) /\ Deferring \in SUBSET (1..MaxJobs) /\ Asking \in SUBSET Requests
  BY DEF Used, Deferring, Asking, Jobs
<1>3. IsFiniteSet(Used) /\ IsFiniteSet(Deferring) /\ IsFiniteSet(Asking)
  BY <1>1, <1>2, FS_Subset, IngestAssumption
<1> QED
  BY <1>3, FS_CardinalityType

LEMMA MoveJob ==
    ASSUME Shape, NEW j \in Used, NEW to \in Running \cup Ended \cup {"queued"},
           jobs' = [jobs EXCEPT ![j].pc = to]
    PROVE  /\ jobs' \in [Jobs -> JobRecords \cup {NoJob}]
           /\ Used' = Used
           /\ jobs'[j].pc = to /\ jobs'[j].doc = jobs[j].doc /\ jobs[j].doc \in Docs
           /\ \A i \in Jobs : i # j => jobs'[i] = jobs[i]
<1>1. j \in Jobs /\ jobs[j] \in JobRecords
  BY DEF Shape, Used
<1>2. jobs'[j] = [jobs[j] EXCEPT !.pc = to] /\ \A i \in Jobs : i # j => jobs'[i] = jobs[i]
  BY <1>1 DEF Shape
<1>3. jobs'[j] \in JobRecords /\ jobs'[j].pc = to /\ jobs'[j].doc = jobs[j].doc /\ jobs[j].doc \in Docs
  BY <1>1, <1>2 DEF JobRecords
<1>4. jobs' \in [Jobs -> JobRecords \cup {NoJob}]
  BY <1>1, <1>2, <1>3 DEF Shape
<1>5. \A r \in JobRecords : r # NoJob
  BY IngestAssumption DEF JobRecords, NoJob
<1>6. Used' = Used
  BY <1>1, <1>2, <1>3, <1>5 DEF Used
<1> QED
  BY <1>2, <1>3, <1>4, <1>6

LEMMA AddJob ==
    ASSUME Shape, Used = 1..Cardinality(Used), Cardinality(Used) < MaxJobs, NEW d \in Docs,
           jobs' = [jobs EXCEPT ![NextJob] = Queued(d)]
    PROVE  /\ NextJob \in Jobs /\ NextJob \notin Used
           /\ jobs' \in [Jobs -> JobRecords \cup {NoJob}]
           /\ Used' = Used \cup {NextJob}
           /\ jobs'[NextJob] = Queued(d)
           /\ \A i \in Jobs : i # NextJob => jobs'[i] = jobs[i]
<1>1. IsFiniteSet(Used) /\ Cardinality(Used) \in Nat
  BY FiniteSets
<1>2. NextJob \in Jobs /\ NextJob \notin Used
  BY <1>1, IngestAssumption DEF NextJob, Jobs
<1>3. Queued(d) \in JobRecords /\ Queued(d) # NoJob
  BY IngestAssumption DEF Queued, JobRecords, NoJob, Running, Ended
<1>4. jobs'[NextJob] = Queued(d) /\ \A i \in Jobs : i # NextJob => jobs'[i] = jobs[i]
  BY <1>2 DEF Shape
<1>5. jobs' \in [Jobs -> JobRecords \cup {NoJob}]
  BY <1>2, <1>3 DEF Shape
<1>6. Used' = Used \cup {NextJob}
  BY <1>2, <1>3, <1>4 DEF Used
<1> QED
  BY <1>2, <1>4, <1>5, <1>6

LEMMA AddAndMove ==
    ASSUME Shape, Used = 1..Cardinality(Used), Cardinality(Used) < MaxJobs, NEW j \in Used,
           NEW to \in Running \cup Ended \cup {"queued"},
           jobs' = [jobs EXCEPT ![j].pc = to, ![NextJob] = Queued(jobs[j].doc)]
    PROVE  /\ NextJob \in Jobs /\ NextJob \notin Used
           /\ jobs' \in [Jobs -> JobRecords \cup {NoJob}]
           /\ Used' = Used \cup {NextJob}
           /\ jobs'[NextJob] = Queued(jobs[j].doc)
           /\ jobs'[j].pc = to /\ jobs'[j].doc = jobs[j].doc /\ jobs[j].doc \in Docs
           /\ \A i \in Jobs : i # NextJob /\ i # j => jobs'[i] = jobs[i]
<1>1. IsFiniteSet(Used) /\ Cardinality(Used) \in Nat
  BY FiniteSets
<1>2. NextJob \in Jobs /\ NextJob \notin Used
  BY <1>1, IngestAssumption DEF NextJob, Jobs
<1>3. j \in Jobs /\ jobs[j] \in JobRecords /\ jobs[j].doc \in Docs /\ j # NextJob
  BY <1>2 DEF Shape, Used, JobRecords
<1>4. \A r \in JobRecords : r # NoJob
  BY IngestAssumption DEF JobRecords, NoJob
<1>5. Queued(jobs[j].doc) \in JobRecords
  BY <1>3, IngestAssumption DEF Queued, JobRecords, Running, Ended
<1>6. /\ jobs'[NextJob] = Queued(jobs[j].doc) /\ jobs'[j] = [jobs[j] EXCEPT !.pc = to]
      /\ \A i \in Jobs : i # NextJob /\ i # j => jobs'[i] = jobs[i]
  BY <1>2, <1>3 DEF Shape
<1>7. jobs'[j] \in JobRecords /\ jobs'[j].pc = to /\ jobs'[j].doc = jobs[j].doc
  BY <1>3, <1>6 DEF JobRecords
<1>8. jobs' \in [Jobs -> JobRecords \cup {NoJob}]
  BY <1>2, <1>3, <1>5, <1>6, <1>7 DEF Shape
<1>9. Used' = Used \cup {NextJob}
  BY <1>2, <1>3, <1>4, <1>5, <1>6, <1>7 DEF Used
<1> QED
  BY <1>2, <1>3, <1>6, <1>7, <1>8, <1>9

LEMMA MoveRequest ==
    ASSUME Shape, NEW q \in Requests, NEW op \in {"upload", "reprocess", "delete"}, NEW d \in Docs,
           NEW pc \in {"insert", "claim", "enqueue", "giveback", "record", "look", "unlink"},
           Request(q, op, d, pc)
    PROVE  /\ requests' \in [Requests -> RequestRecords \cup {NoRequest}]
           /\ requests'[q].op = op /\ requests'[q].doc = d /\ requests'[q].pc = pc
           /\ \A p \in Requests : p # q => requests'[p] = requests[p]
<1>1. [op |-> op, doc |-> d, pc |-> pc, job |-> 0] \in RequestRecords
  BY IngestAssumption DEF RequestRecords
<1> QED
  BY <1>1 DEF Request, Shape

LEMMA DropRequest ==
    ASSUME Shape, NEW q \in Requests, EndRequest(q)
    PROVE  /\ requests' \in [Requests -> RequestRecords \cup {NoRequest}]
           /\ requests'[q] = NoRequest /\ requests'[q].pc = "none" /\ requests'[q].op = "none"
           /\ \A p \in Requests : p # q => requests'[p] = requests[p]
BY DEF EndRequest, Shape, NoRequest

LEMMA KeepJob ==
    ASSUME Shape, NEW q \in Requests, requests[q] \in RequestRecords, NEW j \in Jobs,
           requests' = [requests EXCEPT ![q].pc = "record", ![q].job = j]
    PROVE  /\ requests' \in [Requests -> RequestRecords \cup {NoRequest}]
           /\ requests'[q].op = requests[q].op /\ requests'[q].doc = requests[q].doc
           /\ requests'[q].pc = "record" /\ requests'[q].job = j
           /\ \A p \in Requests : p # q => requests'[p] = requests[p]
<1>1. requests'[q] = [requests[q] EXCEPT !.pc = "record", !.job = j]
  BY DEF Shape
<1>2. \A p \in Requests : p # q => requests'[p] = requests[p]
  BY DEF Shape
<1>3. /\ requests'[q] \in RequestRecords
      /\ requests'[q].op = requests[q].op /\ requests'[q].doc = requests[q].doc
      /\ requests'[q].pc = "record" /\ requests'[q].job = j
  <2>1. j \in 0..MaxJobs
    BY IngestAssumption DEF Jobs
  <2>2. requests[q] = [op |-> requests[q].op, doc |-> requests[q].doc, pc |-> requests[q].pc,
                       job |-> requests[q].job]
    BY DEF RequestRecords
  <2>3. requests'[q] = [op |-> requests[q].op, doc |-> requests[q].doc, pc |-> "record", job |-> j]
    BY <1>1, <2>2
  <2> QED
    BY <2>1, <2>3 DEF RequestRecords
<1> QED
  BY <1>1, <1>2, <1>3 DEF Shape
-----------------------------------------------------------------------------
(* Types, numbers and references. *)

LEMMA InitTyped == Init => Typed
<1> SUFFICES ASSUME Init PROVE Typed
  OBVIOUS
<1>1. Shape
  BY DEF Init, Shape, Working, NoRequest
<1>2. Used = {} /\ Asking = {} /\ Deferring = {}
  BY DEF Init, Used, Asking, Deferring, NoRequest
<1>3. Numbered
  <2>1. Cardinality({}) = 0
    BY FS_EmptySet
  <2> QED
    BY <1>2, <2>1, IngestAssumption DEF Numbered
<1>4. Refers
  BY <1>2, IngestAssumption DEF Refers, Init, NoRequest, Exists
<1>5. Inserting
  BY DEF Inserting, Init, NoRequest
<1> QED
  BY <1>1, <1>3, <1>4, <1>5 DEF Typed

LEMMA ShapeStep == Typed /\ [Next]_vars => Shape'
<1> SUFFICES ASSUME Typed, [Next]_vars PROVE Shape'
  OBVIOUS
<1> USE DEF Typed
<1> DEFINE Statuses == {"none", "indexed", "failed", "gone"} \cup Working
<1>0. Shape
  OBVIOUS
<1>a. /\ Cardinality(Used) \in Nat /\ Cardinality(Asking) \in Nat /\ Cardinality(Deferring) \in Nat
      /\ Used = 1..Cardinality(Used)
      /\ Cardinality(Used) + Cardinality(Asking) + Cardinality(Deferring) <= MaxJobs
  BY FiniteSets DEF Numbered
<1>b. ASSUME NEW q \in Requests, requests[q].pc \in {"insert", "claim", "enqueue"}
      PROVE  Cardinality(Used) < MaxJobs
  <2>1. Asking # {}
    BY <1>b DEF Asking
  <2> QED
    BY <2>1, <1>a, FiniteSets, FS_EmptySet, IngestAssumption
<1>c. ASSUME NEW j \in Used, jobs[j].pc \in {"hold", "defer"} PROVE Cardinality(Used) < MaxJobs
  <2>1. Deferring # {}
    BY <1>c DEF Deferring
  <2> QED
    BY <2>1, <1>a, FiniteSets, FS_EmptySet, IngestAssumption
<1>d. ASSUME NEW q \in Requests, requests[q] # NoRequest
      PROVE  requests[q] \in RequestRecords /\ requests[q].doc \in Docs /\ requests[q].job \in 0..MaxJobs
  BY <1>d, <1>0 DEF Shape, RequestRecords
<1>e. ASSUME NEW d \in Docs, NEW s \in Statuses, SetStatus(d, s)
      PROVE  docs' \in [Docs -> Statuses]
  BY <1>e, <1>0 DEF SetStatus, Shape
<1>f. ASSUME NEW j \in Jobs, NEW s \in {"none", "queued", "running", "succeeded", "failed"}, SetRow(j, s)
      PROVE  rows' \in [Jobs -> {"none", "queued", "running", "succeeded", "failed"}]
  BY <1>f, <1>0 DEF SetRow, Shape
<1>g. ASSUME NEW d \in Docs, NEW c \in Causes, Befalls(d, c)
      PROVE  befell' \in [Docs -> SUBSET Causes]
  BY <1>g, <1>0 DEF Befalls, Shape
<1>h. ASSUME NEW j \in Used, NEW from, NEW s \in Statuses, NEW to \in Running \cup Ended \cup {"queued"},
             Moves(j, from, s, to)
      PROVE  Shape'
  BY <1>h, <1>0, <1>e, MoveJob DEF Moves, GoTo, Shape
<1>i. ASSUME NEW j \in Jobs, NEW s \in {"queued", "running", "succeeded", "failed"},
             TellsRow(j, s) \/ SettlesRow(j, s)
      PROVE  /\ rows' \in [Jobs -> {"none", "queued", "running", "succeeded", "failed"}]
             /\ unsettled' \subseteq Jobs
  BY <1>i, <1>0, <1>f DEF TellsRow, SettlesRow, Shape
<1>1. ASSUME NEW q \in Requests, NEW d \in Docs,
             PersistBlob(q, d) \/ AskReprocess(q, d) \/ DeleteDocument(q, d)
      PROVE  Shape'
  <2>1. CASE PersistBlob(q, d)
    BY <2>1, <1>0, MoveRequest DEF PersistBlob, Shape
  <2>2. CASE AskReprocess(q, d)
    BY <2>2, <1>0, MoveRequest DEF AskReprocess, Shape
  <2>3. CASE DeleteDocument(q, d)
    <3>1. requests' \in [Requests -> RequestRecords \cup {NoRequest}]
      BY <2>3, <1>0, MoveRequest DEF DeleteDocument
    <3> QED
      BY <2>3, <3>1, <1>0 DEF DeleteDocument, Shape, RowsWithout
  <2> QED
    BY <1>1, <2>1, <2>2, <2>3
<1>2. ASSUME NEW q \in Requests, RequestStep(q) PROVE Shape'
  <2>1. CASE InsertDocument(q)
    <3>1. requests[q].doc \in Docs
      BY <2>1, <1>d DEF InsertDocument, NoRequest
    <3>2. requests' \in [Requests -> RequestRecords \cup {NoRequest}]
      BY <2>1, <3>1, <1>0, MoveRequest DEF InsertDocument
    <3> QED
      BY <2>1, <3>1, <3>2, <1>0 DEF InsertDocument, Shape, Working
  <2>2. CASE Claim(q)
    <3>1. requests[q].doc \in Docs
      BY <2>2, <1>d DEF Claim, NoRequest
    <3>2. requests' \in [Requests -> RequestRecords \cup {NoRequest}]
      BY <2>2, <3>1, <1>0, MoveRequest, DropRequest DEF Claim
    <3>3. docs' \in [Docs -> Statuses]
      BY <2>2, <3>1, <1>0, <1>e DEF Claim, Shape, Working
    <3> QED
      BY <2>2, <3>2, <3>3, <1>0 DEF Claim, Shape
  <2>3. CASE Enqueue(q)
    <3>1. requests[q] \in RequestRecords /\ requests[q].doc \in Docs
      BY <2>3, <1>d DEF Enqueue, NoRequest
    <3>2. /\ jobs' = [jobs EXCEPT ![NextJob] = Queued(requests[q].doc)]
          /\ Cardinality(Used) < MaxJobs
      BY <2>3, <1>b DEF Enqueue
    <3>3. NextJob \in Jobs /\ jobs' \in [Jobs -> JobRecords \cup {NoJob}]
      BY <3>1, <3>2, <1>0, <1>a, AddJob
    <3>4. requests' \in [Requests -> RequestRecords \cup {NoRequest}]
      BY <2>3, <3>1, <3>3, <1>0, KeepJob DEF Enqueue
    <3> QED
      BY <2>3, <3>3, <3>4, <1>0 DEF Enqueue, Shape
  <2>4. CASE RecordJob(q)
    <3>1. requests[q].job \in Jobs \/ ~Exists(requests[q].doc) \/ requests[q].job = 0
      BY <2>4, <1>d DEF RecordJob, NoRequest, Jobs
    <3>2. requests[q].job \in Jobs
      BY <2>4 DEF RecordJob, Refers, Used
    <3>3. requests' \in [Requests -> RequestRecords \cup {NoRequest}]
      BY <2>4, <1>0, DropRequest DEF RecordJob
    <3> QED
      BY <2>4, <3>2, <3>3, <1>0 DEF RecordJob, Shape
  <2>5. CASE UnlinkBlob(q)
    BY <2>5, <1>0, DropRequest DEF UnlinkBlob, Shape
  <2>6. CASE LookForOthers(q)
    <3>1. requests[q].doc \in Docs
      BY <2>6, <1>d DEF LookForOthers, NoRequest
    <3>2. requests' \in [Requests -> RequestRecords \cup {NoRequest}]
      BY <2>6, <3>1, <1>0, MoveRequest, DropRequest DEF LookForOthers
    <3> QED
      BY <2>6, <3>2, <1>0 DEF LookForOthers, Shape
  <2>7. CASE GiveBack(q)
    <3>1. requests[q].doc \in Docs
      BY <2>7, <1>d DEF GiveBack, NoRequest
    <3>2. docs' \in [Docs -> Statuses]
      BY <2>7, <3>1, <1>0, <1>e DEF GiveBack, Shape
    <3> QED
      BY <2>7, <3>2, <1>0, DropRequest DEF GiveBack, Shape
  <2> QED
    BY <1>2, <2>1, <2>2, <2>3, <2>4, <2>5, <2>6, <2>7 DEF RequestStep
<1>3. ASSUME NEW q \in Requests, EnqueueFails(q) \/ ReplyLost(q) \/ RequestDies(q) PROVE Shape'
  <2>0. requests[q].doc \in Docs /\ requests' \in [Requests -> RequestRecords \cup {NoRequest}]
    <3>1. requests[q] # NoRequest
      BY <1>3 DEF EnqueueFails, ReplyLost, RequestDies, NoRequest
    <3>2. requests[q].doc \in Docs
      BY <3>1, <1>d
    <3> QED
      BY <1>3, <3>2, <1>0, MoveRequest, DropRequest DEF EnqueueFails, ReplyLost, RequestDies
  <2>1. CASE EnqueueFails(q)
    BY <2>1, <2>0, <1>0, <1>g DEF EnqueueFails, Shape, Causes
  <2>2. CASE ReplyLost(q)
    <3>1. jobs' \in [Jobs -> JobRecords \cup {NoJob}]
      BY <2>0, <2>2, <1>0, <1>a, <1>b, AddJob DEF ReplyLost
    <3>2. befell' \in [Docs -> SUBSET Causes]
      BY <2>0, <2>2, <1>0, <1>g DEF ReplyLost, Shape, Causes
    <3> QED
      BY <2>0, <2>2, <3>1, <3>2, <1>0 DEF ReplyLost, Shape
  <2>3. CASE RequestDies(q)
    BY <2>3, <2>0, <1>0, <1>g DEF RequestDies, Shape, Causes
  <2> QED
    BY <1>3, <2>1, <2>2, <2>3
<1>4. ASSUME (\E d \in Docs : UploadAgain(d)) \/ UnsetRole \/ DesignateRole \/ UNCHANGED vars
      PROVE  Shape'
  BY <1>4, <1>0 DEF UploadAgain, UnsetRole, DesignateRole, vars, Shape
<1>5. ASSUME NEW j \in Jobs, JobStep(j) PROVE Shape'
  <2>0. j \in Used /\ jobs[j].doc \in Docs /\ docs[jobs[j].doc] \in Statuses
    <3>1. j \in Used
      BY <1>5 DEF HandlerStep, JobStep, Take, RoleUnset, RoleSet, HoldRow, Defer, DeferReturns,
             DeferReplyLost, Load, Parse, FileMissing, Chunk, ChunkEmpty, InsertChunks, Settle, Count, Finish,
             Fail, FailJob, Moves, At
    <3>2. jobs[j] \in JobRecords
      BY <3>1, <1>0 DEF Shape, Used
    <3> QED
      BY <3>1, <3>2, <1>0 DEF JobRecords, Shape
  <2> USE DEF Running, Ended, Working
  <2>1. CASE RoleSet(j) \/ Count(j) \/ DeferReturns(j)
    <3>1. jobs' \in [Jobs -> JobRecords \cup {NoJob}]
      BY <2>1, <2>0, <1>0, MoveJob DEF RoleSet, Count, DeferReturns, GoTo
    <3> QED
      BY <2>1, <2>0, <3>1, <1>0 DEF RoleSet, Count, DeferReturns, Shape
  <2>5. CASE Take(j) \/ HoldRow(j) \/ Finish(j) \/ FailJob(j)
    <3>1. jobs' \in [Jobs -> JobRecords \cup {NoJob}]
      BY <2>5, <2>0, <1>0, MoveJob DEF Take, HoldRow, Finish, FailJob, GoTo
    <3>2. /\ rows' \in [Jobs -> {"none", "queued", "running", "succeeded", "failed"}]
          /\ unsettled' \subseteq Jobs
      BY <2>5, <1>i DEF Take, HoldRow, Finish, FailJob
    <3> QED
      BY <2>5, <3>1, <3>2, <1>0 DEF Take, HoldRow, Finish, FailJob, Shape
  <2>2. CASE RoleUnset(j) \/ Load(j) \/ Parse(j) \/ FileMissing(j) \/ Chunk(j) \/ ChunkEmpty(j)
               \/ Settle(j) \/ Fail(j)
    BY <2>2, <2>0, <1>h DEF RoleUnset, Load, Parse, FileMissing, Chunk, ChunkEmpty, Settle, Fail
  <2>3. CASE InsertChunks(j, "parents", "leaves") \/ InsertChunks(j, "leaves", "settle")
    <3>1. jobs' \in [Jobs -> JobRecords \cup {NoJob}]
      BY <2>3, <2>0, <1>0, MoveJob DEF InsertChunks, GoTo
    <3> QED
      BY <2>3, <2>0, <3>1, <1>0 DEF InsertChunks, Shape, Parts
  <2>4. CASE Defer(j)
    <3>1. jobs' \in [Jobs -> JobRecords \cup {NoJob}]
      BY <2>4, <2>0, <1>0, <1>a, <1>c, AddAndMove DEF Defer, At
    <3> QED
      BY <2>4, <2>0, <3>1, <1>0 DEF Defer, Shape
  <2> QED
    BY <1>5, <2>1, <2>2, <2>3, <2>4, <2>5 DEF JobStep
<1>6. ASSUME NEW j \in Jobs, DeferReplyLost(j) \/ StepFails(j) \/ FailLost(j) \/ TimesOut(j) \/ WorkerDies(j)
      PROVE  Shape'
  <2>0. j \in Used /\ jobs[j] \in JobRecords /\ jobs[j].doc \in Docs
    BY <1>6, <1>0 DEF DeferReplyLost, StepFails, FailLost, TimesOut, WorkerDies, At, Shape, Used, JobRecords
  <2>1. befell' \in [Docs -> SUBSET Causes]
    BY <1>6, <2>0, <1>g DEF DeferReplyLost, StepFails, FailLost, TimesOut, WorkerDies, Causes
  <2>2. jobs' \in [Jobs -> JobRecords \cup {NoJob}]
    <3>0. CASE DeferReplyLost(j)
      BY <3>0, <2>0, <1>0, <1>a, <1>c, AddAndMove DEF DeferReplyLost, At, Running
    <3>1. CASE StepFails(j) \/ FailLost(j) \/ TimesOut(j) \/ (WorkerDies(j) /\ ~(jobs[j].try < MaxTries))
      BY <2>0, <3>1, <1>0, MoveJob DEF StepFails, FailLost, TimesOut, WorkerDies, GoTo, Running, Ended
    <3>2. CASE WorkerDies(j) /\ jobs[j].try < MaxTries
      <4>1. jobs' = [jobs EXCEPT ![j].pc = "queued", ![j].try = @ + 1]
        BY <3>2 DEF WorkerDies
      <4>2. jobs'[j] = [jobs[j] EXCEPT !.pc = "queued", !.try = jobs[j].try + 1]
        BY <4>1, <1>0 DEF Shape
      <4>3. jobs'[j] \in JobRecords
        <5>1. /\ jobs[j].try \in 1..MaxTries /\ jobs[j].try < MaxTries /\ jobs[j].doc \in Docs
              /\ jobs[j] = [doc |-> jobs[j].doc, pc |-> jobs[j].pc, try |-> jobs[j].try]
          BY <2>0, <3>2 DEF JobRecords
        <5>2. jobs[j].try + 1 \in 1..MaxTries
          BY <5>1, IngestAssumption
        <5>3. jobs'[j] = [doc |-> jobs[j].doc, pc |-> "queued", try |-> jobs[j].try + 1]
          BY <4>2, <5>1
        <5> QED
          BY <5>1, <5>2, <5>3 DEF JobRecords
      <4> QED
        BY <4>1, <4>3, <1>0 DEF Shape
    <3> QED
      BY <1>6, <3>0, <3>1, <3>2
  <2> QED
    BY <1>6, <2>0, <2>1, <2>2, <1>0 DEF DeferReplyLost, StepFails, FailLost, TimesOut, WorkerDies, Shape
<1> QED
  BY <1>1, <1>2, <1>3, <1>4, <1>5, <1>6 DEF Next, HandlerStep

\* Room that was not needed any more is room for others.
LEMMA RoomKept ==
    ASSUME Numbered, Used' = Used, Asking' \subseteq Asking, Deferring' \subseteq Deferring
    PROVE  Numbered'
<1>1. Cardinality(Asking') <= Cardinality(Asking) /\ Cardinality(Asking') \in Nat
  BY FiniteSets, FS_Subset, FS_CardinalityType
<1>2. Cardinality(Deferring') <= Cardinality(Deferring) /\ Cardinality(Deferring') \in Nat
  BY FiniteSets, FS_Subset, FS_CardinalityType
<1> QED
  BY <1>1, <1>2, FiniteSets, IngestAssumption DEF Numbered

LEMMA RoomTaken ==
    ASSUME Numbered, RoomForJob, Used' = Used, NEW x,
           \/ Asking' \subseteq Asking \cup {x} /\ Deferring' \subseteq Deferring
           \/ Asking' \subseteq Asking /\ Deferring' \subseteq Deferring \cup {x}
    PROVE  Numbered'
<1>1. /\ IsFiniteSet(Asking \cup {x}) /\ Cardinality(Asking \cup {x}) <= Cardinality(Asking) + 1
      /\ IsFiniteSet(Deferring \cup {x}) /\ Cardinality(Deferring \cup {x}) <= Cardinality(Deferring) + 1
      /\ Cardinality(Asking \cup {x}) \in Nat /\ Cardinality(Deferring \cup {x}) \in Nat
  <2>1. IsFiniteSet(Asking \cup {x}) /\ Cardinality(Asking \cup {x}) <= Cardinality(Asking) + 1
    <3>1. IsFiniteSet(Asking) /\ Cardinality(Asking) \in Nat
      BY FiniteSets
    <3>2. /\ IsFiniteSet(Asking \cup {x})
          /\ Cardinality(Asking \cup {x}) = IF x \in Asking THEN Cardinality(Asking) ELSE Cardinality(Asking) + 1
      BY <3>1, FS_AddElement
    <3> QED
      BY <3>1, <3>2
  <2>2. IsFiniteSet(Deferring \cup {x}) /\ Cardinality(Deferring \cup {x}) <= Cardinality(Deferring) + 1
    <3>1. IsFiniteSet(Deferring) /\ Cardinality(Deferring) \in Nat
      BY FiniteSets
    <3>2. /\ IsFiniteSet(Deferring \cup {x})
          /\ Cardinality(Deferring \cup {x}) = IF x \in Deferring THEN Cardinality(Deferring) ELSE Cardinality(Deferring) + 1
      BY <3>1, FS_AddElement
    <3> QED
      BY <3>1, <3>2
  <2> QED
    BY <2>1, <2>2, FS_CardinalityType
<1>2. CASE Asking' \subseteq Asking \cup {x} /\ Deferring' \subseteq Deferring
  <2>1. /\ Cardinality(Asking') <= Cardinality(Asking \cup {x}) /\ Cardinality(Asking') \in Nat
        /\ Cardinality(Deferring') <= Cardinality(Deferring) /\ Cardinality(Deferring') \in Nat
    BY <1>1, <1>2, FiniteSets, FS_Subset, FS_CardinalityType
  <2> QED
    BY <1>1, <2>1, FiniteSets, IngestAssumption DEF Numbered, RoomForJob
<1>3. CASE Asking' \subseteq Asking /\ Deferring' \subseteq Deferring \cup {x}
  <2>1. /\ Cardinality(Deferring') <= Cardinality(Deferring \cup {x}) /\ Cardinality(Asking') \in Nat
        /\ Cardinality(Asking') <= Cardinality(Asking) /\ Cardinality(Deferring') \in Nat
    BY <1>1, <1>3, FiniteSets, FS_Subset, FS_CardinalityType
  <2> QED
    BY <1>1, <2>1, FiniteSets, IngestAssumption DEF Numbered, RoomForJob
<1> QED
  BY <1>2, <1>3

\* A job takes the place of the request or the job that enqueues it.
LEMMA RoomUsed ==
    ASSUME Numbered, Used' = Used \cup {NextJob}, NEW x,
           \/ x \in Asking /\ Asking' \subseteq Asking \ {x} /\ Deferring' \subseteq Deferring
           \/ x \in Deferring /\ Asking' \subseteq Asking /\ Deferring' \subseteq Deferring \ {x}
    PROVE  Numbered'
<1> DEFINE n == Cardinality(Used)
<1>0. n \in Nat /\ Used = 1..n
  BY FiniteSets DEF Numbered
<1>1. Used' = 1..(n + 1)
  BY <1>0 DEF NextJob
<1>2. Cardinality(Used') = n + 1
  <2>1. 1 \in Int /\ n + 1 \in Int /\ ~(1 > n + 1) /\ n + 1 - 1 + 1 = n + 1
    BY <1>0
  <2>2. Cardinality(1..(n + 1)) = n + 1
    BY <2>1, FS_Interval
  <2> QED
    BY <1>1, <2>2
<1>3. CASE x \in Asking /\ Asking' \subseteq Asking \ {x} /\ Deferring' \subseteq Deferring
  <2>1. IsFiniteSet(Asking \ {x}) /\ Cardinality(Asking \ {x}) = Cardinality(Asking) - 1
    BY <1>3, FiniteSets, FS_RemoveElement
  <2>2. /\ Cardinality(Asking') <= Cardinality(Asking \ {x}) /\ Cardinality(Asking') \in Nat
        /\ Cardinality(Deferring') <= Cardinality(Deferring) /\ Cardinality(Deferring') \in Nat
    BY <1>3, <2>1, FiniteSets, FS_Subset, FS_CardinalityType
  <2> QED
    BY <1>0, <1>1, <1>2, <2>1, <2>2, FiniteSets, IngestAssumption DEF Numbered
<1>4. CASE x \in Deferring /\ Asking' \subseteq Asking /\ Deferring' \subseteq Deferring \ {x}
  <2>1. IsFiniteSet(Deferring \ {x}) /\ Cardinality(Deferring \ {x}) = Cardinality(Deferring) - 1
    BY <1>4, FiniteSets, FS_RemoveElement
  <2>2. /\ Cardinality(Deferring') <= Cardinality(Deferring \ {x}) /\ Cardinality(Asking') \in Nat
        /\ Cardinality(Asking') <= Cardinality(Asking) /\ Cardinality(Deferring') \in Nat
    BY <1>4, <2>1, FiniteSets, FS_Subset, FS_CardinalityType
  <2> QED
    BY <1>0, <1>1, <1>2, <2>1, <2>2, FiniteSets, IngestAssumption DEF Numbered
<1> QED
  BY <1>3, <1>4

\* Whoever is about to enqueue a job finds a number for it.
LEMMA RoomFound ==
    ASSUME Numbered, Asking # {} \/ Deferring # {}
    PROVE  Cardinality(Used) < MaxJobs /\ Used = 1..Cardinality(Used)
BY FiniteSets, FS_EmptySet, IngestAssumption DEF Numbered

\* The job that a step of the worker is about is one, and its document exists or did.
LEMMA StepsOfJobs ==
    ASSUME Shape, NEW j \in Jobs, HandlerStep(j)
    PROVE  j \in Used /\ jobs[j] \in JobRecords /\ jobs[j].doc \in Docs
<1>1. j \in Used
  BY DEF HandlerStep, JobStep, Take, RoleUnset, RoleSet, HoldRow, Defer, DeferReturns, DeferReplyLost, Load,
         Parse, FileMissing, Chunk, ChunkEmpty, InsertChunks, Settle, Count, Finish, Fail, FailJob, Moves, At,
         StepFails, FailLost, TimesOut, WorkerDies
<1> QED
  BY <1>1 DEF Shape, Used, JobRecords

LEMMA StepsOfRequests ==
    ASSUME Shape, NEW q \in Requests, RequestStep(q) \/ EnqueueFails(q) \/ ReplyLost(q) \/ RequestDies(q)
    PROVE  requests[q] \in RequestRecords /\ requests[q].doc \in Docs
<1>1. requests[q] # NoRequest
  BY DEF RequestStep, InsertDocument, Claim, Enqueue, RecordJob, GiveBack, LookForOthers, UnlinkBlob,
         EnqueueFails, ReplyLost, RequestDies, NoRequest
<1> QED
  BY <1>1 DEF Shape, RequestRecords

\* A request that enqueues a job, and a handler that does.
LEMMA EnqueueMoves ==
    ASSUME Shape, Numbered, NEW q \in Requests, Enqueue(q) \/ ReplyLost(q)
    PROVE  /\ requests[q] \in RequestRecords /\ requests[q].doc \in Docs /\ q \in Asking
           /\ NextJob \in Jobs /\ NextJob \notin Used /\ Used' = Used \cup {NextJob}
           /\ jobs'[NextJob] = Queued(requests[q].doc)
           /\ \A i \in Jobs : i # NextJob => jobs'[i] = jobs[i]
           /\ requests'[q].doc = requests[q].doc /\ requests'[q].op = requests[q].op
           /\ requests[q].op \in {"upload", "reprocess"}
           /\ Enqueue(q) => requests'[q].pc = "record" /\ requests'[q].job = NextJob
           /\ ReplyLost(q) => requests'[q].pc = "giveback"
           /\ \A p \in Requests : p # q => requests'[p] = requests[p]
<1>1. requests[q] \in RequestRecords /\ requests[q].doc \in Docs /\ q \in Asking
  BY StepsOfRequests DEF RequestStep, Enqueue, ReplyLost, Asking
<1>2. Cardinality(Used) < MaxJobs /\ Used = 1..Cardinality(Used)
  BY <1>1, RoomFound
<1>3. jobs' = [jobs EXCEPT ![NextJob] = Queued(requests[q].doc)]
  BY DEF Enqueue, ReplyLost
<1>4. /\ NextJob \in Jobs /\ NextJob \notin Used /\ Used' = Used \cup {NextJob}
      /\ jobs'[NextJob] = Queued(requests[q].doc)
      /\ \A i \in Jobs : i # NextJob => jobs'[i] = jobs[i]
  BY <1>1, <1>2, <1>3, AddJob
<1>5. CASE Enqueue(q)
  <2>1. requests' = [requests EXCEPT ![q].pc = "record", ![q].job = NextJob]
          /\ requests[q].op \in {"upload", "reprocess"} /\ requests[q].pc = "enqueue"
    BY <1>5 DEF Enqueue
  <2>2. /\ requests'[q].op = requests[q].op /\ requests'[q].doc = requests[q].doc
        /\ requests'[q].pc = "record" /\ requests'[q].job = NextJob
        /\ \A p \in Requests : p # q => requests'[p] = requests[p]
    BY <1>1, <1>4, <2>1, KeepJob
  <2>3. ~ReplyLost(q)
    <3>1. ASSUME ReplyLost(q) PROVE requests'[q].pc = "giveback"
      BY <1>1, <3>1, MoveRequest DEF ReplyLost
    <3> QED
      BY <2>2, <3>1
  <2> QED
    BY <1>1, <1>4, <2>1, <2>2, <2>3
<1>6. CASE ReplyLost(q)
  <2>1. /\ Request(q, requests[q].op, requests[q].doc, "giveback")
        /\ requests[q].op \in {"upload", "reprocess"}
    BY <1>6 DEF ReplyLost
  <2>2. /\ requests'[q].op = requests[q].op /\ requests'[q].doc = requests[q].doc
        /\ requests'[q].pc = "giveback" /\ \A p \in Requests : p # q => requests'[p] = requests[p]
    BY <1>1, <2>1, MoveRequest
  <2>3. ~Enqueue(q)
    <3>1. ASSUME Enqueue(q) PROVE requests'[q].pc = "record"
      BY <1>1, <1>4, <3>1, KeepJob DEF Enqueue
    <3> QED
      BY <2>2, <3>1
  <2> QED
    BY <1>1, <1>4, <2>1, <2>2, <2>3
<1> QED
  BY <1>5, <1>6

LEMMA DeferMoves ==
    ASSUME Shape, Numbered, NEW j \in Jobs, Defers(j)
    PROVE  /\ j \in Used /\ jobs[j].doc \in Docs /\ jobs[j].pc = "defer" /\ j \in Deferring
           /\ NextJob \in Jobs /\ NextJob \notin Used /\ Used' = Used \cup {NextJob}
           /\ jobs'[NextJob] = Queued(jobs[j].doc)
           /\ jobs'[j].doc = jobs[j].doc /\ jobs'[j].pc \in {"leave", "fail"}
           /\ Defer(j) => jobs'[j].pc = "leave"
           /\ DeferReplyLost(j) => jobs'[j].pc = "fail"
           /\ \A i \in Jobs : i # NextJob /\ i # j => jobs'[i] = jobs[i]
           /\ requests' = requests
<1>1. j \in Used /\ jobs[j].doc \in Docs /\ jobs[j].pc = "defer" /\ j \in Deferring
  BY StepsOfJobs DEF HandlerStep, JobStep, Defers, Defer, DeferReplyLost, At, Deferring
<1>2. Cardinality(Used) < MaxJobs /\ Used = 1..Cardinality(Used)
  BY <1>1, RoomFound
<1>3. PICK to \in {"leave", "fail"} :
        jobs' = [jobs EXCEPT ![j].pc = to, ![NextJob] = Queued(jobs[j].doc)]
  BY DEF Defers, Defer, DeferReplyLost
<1>4. to \in Running \cup Ended \cup {"queued"}
  BY DEF Running
<1>5. ASSUME NEW t \in {"leave", "fail"}, jobs' = [jobs EXCEPT ![j].pc = t, ![NextJob] = Queued(jobs[j].doc)]
      PROVE  jobs'[j].pc = t
  BY <1>1, <1>2, <1>5, AddAndMove DEF Running
<1>6. /\ NextJob \in Jobs /\ NextJob \notin Used /\ Used' = Used \cup {NextJob}
      /\ jobs'[NextJob] = Queued(jobs[j].doc) /\ jobs'[j].doc = jobs[j].doc
      /\ \A i \in Jobs : i # NextJob /\ i # j => jobs'[i] = jobs[i]
  BY <1>1, <1>2, <1>3, <1>4, AddAndMove
<1>7. requests' = requests
  BY DEF Defers, Defer, DeferReplyLost
<1>8. (Defer(j) => jobs'[j].pc = "leave") /\ (DeferReplyLost(j) => jobs'[j].pc = "fail")
  BY <1>5 DEF Defer, DeferReplyLost
<1> QED
  BY <1>1, <1>3, <1>5, <1>6, <1>7, <1>8

\* What a handler does is to move on, except that it may enqueue another job for its document.
LEMMA WorkMoves ==
    ASSUME Typed, NEW j \in Jobs, HandlerStep(j), ~Defers(j)
    PROVE  /\ Used' = Used /\ jobs'[j].doc = jobs[j].doc
           /\ \A i \in Jobs : i # j => jobs'[i] = jobs[i]
           /\ requests' = requests
<1> USE DEF Typed
<1>0. Shape /\ j \in Used /\ jobs[j] \in JobRecords /\ jobs[j].doc \in Docs
  BY StepsOfJobs
<1>1. requests' = requests
  BY DEF HandlerStep, JobStep, Take, RoleUnset, RoleSet, HoldRow, Defers, DeferReturns, Load, Parse,
         FileMissing, Chunk, ChunkEmpty, InsertChunks, Settle, Count, Finish, Fail, FailJob, Moves, StepFails,
         FailLost, TimesOut, WorkerDies
<1>2. CASE \E to \in Running \cup Ended \cup {"queued"} : GoTo(j, to)
  BY <1>0, <1>1, <1>2, MoveJob DEF GoTo
<1>3. CASE jobs' = [jobs EXCEPT ![j].pc = "queued", ![j].try = @ + 1]
  <2>1. jobs'[j] = [jobs[j] EXCEPT !.pc = "queued", !.try = jobs[j].try + 1]
        /\ \A i \in Jobs : i # j => jobs'[i] = jobs[i]
    BY <1>0, <1>3 DEF Shape
  <2>2. jobs'[j].doc = jobs[j].doc /\ jobs'[j].pc = "queued"
    BY <1>0, <2>1 DEF JobRecords
  <2>3. Used' = Used
    <3>1. NoJob.pc = "none"
      BY DEF NoJob
    <3>2. jobs'[j] # NoJob
      BY <2>2, <3>1
    <3> QED
      BY <1>0, <2>1, <3>2 DEF Used
  <2> QED
    BY <1>1, <2>1, <2>2, <2>3
<1>4. (\E to \in Running \cup Ended \cup {"queued"} : GoTo(j, to))
        \/ jobs' = [jobs EXCEPT ![j].pc = "queued", ![j].try = @ + 1]
  BY DEF HandlerStep, JobStep, Take, RoleUnset, RoleSet, HoldRow, Defers, DeferReturns, Load, Parse,
         FileMissing, Chunk, ChunkEmpty, InsertChunks, Settle, Count, Finish, Fail, FailJob, Moves, StepFails,
         FailLost, TimesOut, WorkerDies, Running, Ended
<1> QED
  BY <1>2, <1>3, <1>4

\* Where a handler goes on from and to.
LEMMA PcMoves ==
    ASSUME Typed, NEW j \in Used, HandlerStep(j)
    PROVE  \/ Take(j) /\ jobs[j].pc = "queued" /\ jobs'[j].pc = "role"
           \/ RoleUnset(j) /\ jobs[j].pc = "role" /\ jobs'[j].pc = "hold"
           \/ RoleSet(j) /\ jobs[j].pc = "role" /\ jobs'[j].pc \in {"load", "fail"}
           \/ HoldRow(j) /\ jobs[j].pc = "hold" /\ jobs'[j].pc = "defer"
           \/ Defer(j) /\ jobs[j].pc = "defer" /\ jobs'[j].pc = "leave"
           \/ DeferReturns(j) /\ jobs[j].pc = "leave" /\ jobs'[j].pc = "deferred"
           \/ /\ DeferReplyLost(j) /\ jobs[j].pc = "defer" /\ jobs'[j].pc = "fail"
              /\ "reply_lost" \in befell'[jobs[j].doc]
           \/ Load(j) /\ jobs[j].pc = "load" /\ jobs'[j].pc = "parse"
           \/ (Parse(j) \/ FileMissing(j)) /\ jobs[j].pc = "parse" /\ jobs'[j].pc \in {"chunk", "fail"}
           \/ Chunk(j) /\ jobs[j].pc = "chunk" /\ jobs'[j].pc = "parents"
           \/ ChunkEmpty(j) /\ jobs[j].pc = "chunk" /\ jobs'[j].pc = "failjob"
           \/ InsertChunks(j, "parents", "leaves") /\ jobs[j].pc = "parents" /\ jobs'[j].pc \in {"leaves", "fail"}
           \/ InsertChunks(j, "leaves", "settle") /\ jobs[j].pc = "leaves" /\ jobs'[j].pc \in {"settle", "fail"}
           \/ Settle(j) /\ jobs[j].pc = "settle" /\ jobs'[j].pc = "count"
           \/ Count(j) /\ jobs[j].pc = "count" /\ jobs'[j].pc = "finish"
           \/ Finish(j) /\ jobs[j].pc = "finish" /\ jobs'[j].pc = "succeeded"
           \/ Fail(j) /\ jobs[j].pc = "fail" /\ jobs'[j].pc = "failjob"
           \/ FailJob(j) /\ jobs[j].pc = "failjob" /\ jobs'[j].pc = "failed"
           \/ /\ StepFails(j) /\ jobs'[j].pc = "fail" /\ "step_failed" \in befell'[jobs[j].doc]
              /\ jobs[j].pc \in Running \ {"leave", "finish", "fail", "failjob"}
           \/ FailLost(j) /\ jobs[j].pc = "fail" /\ jobs'[j].pc = "failed"
           \/ /\ TimesOut(j) /\ jobs'[j].pc = "cut" /\ "timed_out" \in befell'[jobs[j].doc]
              /\ jobs[j].pc \in Running
           \/ /\ WorkerDies(j) /\ jobs'[j].pc = "queued" /\ "worker_died" \in befell'[jobs[j].doc]
              /\ jobs[j].pc \in Running
           \/ /\ WorkerDies(j) /\ jobs'[j].pc = "cut" /\ "tries_used" \in befell'[jobs[j].doc]
              /\ jobs[j].pc \in Running
<1> USE DEF Typed
<1>0. Shape /\ j \in Jobs /\ jobs[j] \in JobRecords /\ jobs[j].doc \in Docs
  BY DEF Shape, Used, JobRecords
<1>1. ASSUME NEW to \in Running \cup Ended \cup {"queued"}, GoTo(j, to) PROVE jobs'[j].pc = to
  BY <1>1, <1>0, MoveJob DEF GoTo
<1>2. ASSUME NEW what, Befalls(jobs[j].doc, what) PROVE what \in befell'[jobs[j].doc]
  BY <1>2, <1>0 DEF Befalls, Shape
<1>3. CASE JobStep(j)
  <2> USE DEF Running, Ended
  <2>1. CASE Defer(j)
    BY <2>1, <1>0, DeferMoves DEF Defers
  <2>2. CASE Take(j) \/ RoleUnset(j) \/ RoleSet(j) \/ HoldRow(j) \/ DeferReturns(j)
    BY <2>2, <1>1 DEF Take, RoleUnset, RoleSet, HoldRow, DeferReturns, Moves, At
  <2>5. CASE Load(j) \/ Parse(j) \/ FileMissing(j)
    BY <2>5, <1>1 DEF Load, Parse, FileMissing, Moves, At
  <2>3. CASE Chunk(j) \/ ChunkEmpty(j) \/ InsertChunks(j, "parents", "leaves") \/ InsertChunks(j, "leaves", "settle")
    BY <2>3, <1>1 DEF Chunk, ChunkEmpty, InsertChunks, Moves, At
  <2>4. CASE Settle(j) \/ Count(j) \/ Finish(j) \/ Fail(j) \/ FailJob(j)
    BY <2>4, <1>1 DEF Settle, Count, Finish, Fail, FailJob, Moves, At
  <2> QED
    BY <1>3, <2>1, <2>2, <2>3, <2>4, <2>5 DEF JobStep
<1>4. CASE StepFails(j)
  BY <1>4, <1>1, <1>2 DEF StepFails, Running, Ended
<1>7. CASE FailLost(j)
  BY <1>7, <1>1 DEF FailLost, At, Ended
<1>8. CASE DeferReplyLost(j)
  BY <1>8, <1>0, <1>2, DeferMoves DEF Defers, DeferReplyLost, At
<1>5. CASE TimesOut(j)
  BY <1>5, <1>1, <1>2 DEF TimesOut, Running, Ended
<1>6. CASE WorkerDies(j)
  <2>1. CASE jobs[j].try < MaxTries
    <3>1. /\ jobs' = [jobs EXCEPT ![j].pc = "queued", ![j].try = @ + 1]
          /\ Befalls(jobs[j].doc, "worker_died") /\ jobs[j].pc \in Running
      BY <1>6, <2>1 DEF WorkerDies
    <3>2. jobs'[j] = [jobs[j] EXCEPT !.pc = "queued", !.try = jobs[j].try + 1]
      BY <3>1, <1>0 DEF Shape
    <3>3. jobs'[j].pc = "queued"
      BY <3>2, <1>0 DEF JobRecords
    <3> QED
      BY <1>6, <3>1, <3>3, <1>2
  <2>2. CASE ~(jobs[j].try < MaxTries)
    BY <1>6, <2>2, <1>1, <1>2 DEF WorkerDies, Running, Ended
  <2> QED
    BY <2>1, <2>2
<1> QED
  BY <1>3, <1>4, <1>5, <1>6, <1>7, <1>8 DEF HandlerStep

LEMMA NumberedStep == Typed /\ [Next]_vars => Numbered'
<1> SUFFICES ASSUME Typed, [Next]_vars PROVE Numbered'
  OBVIOUS
<1> USE DEF Typed
<1>0. Shape /\ Numbered
  OBVIOUS
<1>1. ASSUME NEW q \in Requests, NEW d \in Docs,
             PersistBlob(q, d) \/ AskReprocess(q, d) \/ DeleteDocument(q, d)
      PROVE  Numbered'
  <2>1. Used' = Used /\ Deferring' = Deferring
    BY <1>1 DEF PersistBlob, AskReprocess, DeleteDocument, Used, Deferring
  <2>2. CASE PersistBlob(q, d) \/ AskReprocess(q, d)
    <3>1. Asking' \subseteq Asking \cup {q}
      BY <2>2, <1>0, MoveRequest DEF PersistBlob, AskReprocess, Asking
    <3> QED
      BY <2>1, <2>2, <3>1, <1>0, RoomTaken DEF PersistBlob, AskReprocess
  <2>3. CASE DeleteDocument(q, d)
    <3>1. Asking' \subseteq Asking
      BY <2>3, <1>0, MoveRequest DEF DeleteDocument, Asking
    <3> QED
      BY <2>1, <3>1, <1>0, RoomKept
  <2> QED
    BY <1>1, <2>2, <2>3
<1>2. ASSUME NEW q \in Requests, RequestStep(q) \/ EnqueueFails(q) \/ ReplyLost(q) \/ RequestDies(q)
      PROVE  Numbered'
  <2>0. requests[q] \in RequestRecords /\ requests[q].doc \in Docs
    BY <1>2, <1>0, StepsOfRequests
  <2>1. CASE Enqueue(q) \/ ReplyLost(q)
    <3>1. /\ q \in Asking /\ Used' = Used \cup {NextJob} /\ jobs'[NextJob] = Queued(requests[q].doc)
          /\ \A i \in Jobs : i # NextJob => jobs'[i] = jobs[i]
          /\ requests'[q].pc \in {"record", "giveback"}
          /\ \A p \in Requests : p # q => requests'[p] = requests[p]
      BY <2>1, <1>0, EnqueueMoves
    <3>2. Deferring' \subseteq Deferring
      BY <3>1 DEF Deferring, Queued, Used
    <3>3. Asking' \subseteq Asking \ {q}
      BY <3>1 DEF Asking
    <3> QED
      BY <3>1, <3>2, <3>3, <1>0, RoomUsed
  <2>2. CASE \/ InsertDocument(q) \/ Claim(q) \/ GiveBack(q) \/ RecordJob(q) \/ LookForOthers(q)
             \/ UnlinkBlob(q) \/ EnqueueFails(q) \/ RequestDies(q)
    <3>1. Used' = Used /\ Deferring' = Deferring
      BY <2>2 DEF InsertDocument, Claim, RecordJob, GiveBack, LookForOthers, UnlinkBlob, EnqueueFails,
             RequestDies, Used, Deferring
    <3>2. Asking' \subseteq Asking
      <4>1. CASE InsertDocument(q)
        BY <4>1, <2>0, <1>0, MoveRequest DEF InsertDocument, Asking
      <4>2. CASE Claim(q)
        BY <4>2, <2>0, <1>0, MoveRequest, DropRequest DEF Claim, Asking
      <4>3. CASE GiveBack(q) \/ RecordJob(q) \/ UnlinkBlob(q) \/ RequestDies(q)
        BY <4>3, <1>0, DropRequest DEF GiveBack, RecordJob, UnlinkBlob, RequestDies, Asking
      <4>4. CASE LookForOthers(q)
        BY <4>4, <2>0, <1>0, MoveRequest, DropRequest DEF LookForOthers, Asking
      <4>5. CASE EnqueueFails(q)
        BY <4>5, <2>0, <1>0, MoveRequest DEF EnqueueFails, Asking
      <4> QED
        BY <2>2, <4>1, <4>2, <4>3, <4>4, <4>5
    <3> QED
      BY <3>1, <3>2, <1>0, RoomKept
  <2> QED
    BY <1>2, <2>1, <2>2 DEF RequestStep
<1>3. ASSUME (\E d \in Docs : UploadAgain(d)) \/ UnsetRole \/ DesignateRole \/ UNCHANGED vars
      PROVE  Numbered'
  <2>1. jobs' = jobs /\ requests' = requests
    BY <1>3 DEF UploadAgain, UnsetRole, DesignateRole, vars
  <2> QED
    BY <2>1, <1>0 DEF Numbered, Used, Asking, Deferring
<1>4. ASSUME NEW j \in Jobs, HandlerStep(j)
      PROVE  Numbered'
  <2>0. j \in Used /\ jobs[j] \in JobRecords /\ jobs[j].doc \in Docs
    BY <1>4, <1>0, StepsOfJobs
  <2>1. CASE Defers(j)
    <3>1. /\ j \in Deferring /\ Used' = Used \cup {NextJob} /\ requests' = requests
          /\ jobs'[NextJob] = Queued(jobs[j].doc) /\ jobs'[j].pc \in {"leave", "fail"}
          /\ \A i \in Jobs : i # NextJob /\ i # j => jobs'[i] = jobs[i]
      BY <2>1, <1>0, DeferMoves
    <3>2. Deferring' \subseteq Deferring \ {j}
      BY <3>1 DEF Deferring, Queued, Used
    <3>3. Asking' = Asking
      BY <3>1 DEF Asking
    <3> QED
      BY <3>1, <3>2, <3>3, <1>0, RoomUsed
  <2>2. CASE ~Defers(j)
    <3>1. /\ Used' = Used /\ \A i \in Jobs : i # j => jobs'[i] = jobs[i]
          /\ requests' = requests
      BY <1>4, <2>2, WorkMoves
    <3>2. Asking' = Asking
      BY <3>1 DEF Asking
    <3>3. CASE RoleUnset(j)
      <4>1. Deferring' \subseteq Deferring \cup {j}
        BY <3>1 DEF Deferring, Used
      <4> QED
        BY <3>1, <3>2, <3>3, <4>1, <1>0, RoomTaken DEF RoleUnset
    <3>4. CASE ~RoleUnset(j)
      <4>1. jobs'[j].pc \in {"hold", "defer"} => jobs[j].pc \in {"hold", "defer"}
        BY <1>4, <2>0, <3>4, PcMoves
      <4>2. Deferring' \subseteq Deferring
        BY <2>0, <3>1, <4>1 DEF Deferring, Used
      <4> QED
        BY <3>1, <3>2, <4>2, <1>0, RoomKept
    <3> QED
      BY <3>3, <3>4
  <2> QED
    BY <2>1, <2>2
<1> QED
  BY <1>1, <1>2, <1>3, <1>4 DEF Next, HandlerStep

\* The status of a document does not go back to where it had no row, and only a
\* deletion removes the row.
LEMMA DocsGoOn ==
    ASSUME Typed, [Next]_vars, NEW d \in Docs
    PROVE  /\ docs[d] # "none" => docs'[d] # "none"
           /\ docs[d] = "gone" => docs'[d] = "gone"
           /\ Exists(d) => \/ Exists(d)'
                           \/ \E q \in Requests : DeleteDocument(q, d)
<1> USE DEF Typed
<1>0. Shape /\ d \in Docs
  OBVIOUS
<1>a. ASSUME NEW e \in Docs, NEW s \in {"indexed", "failed"} \cup Working, SetStatus(e, s)
      PROVE  /\ docs[d] # "none" => docs'[d] # "none"
             /\ docs[d] = "gone" => docs'[d] = "gone"
             /\ Exists(d) => Exists(d)'
  BY <1>a, <1>0 DEF SetStatus, Shape, Exists, Working
<1>1. ASSUME NEW q \in Requests, NEW e \in Docs,
             PersistBlob(q, e) \/ AskReprocess(q, e) \/ DeleteDocument(q, e)
      PROVE  /\ docs[d] # "none" => docs'[d] # "none"
             /\ docs[d] = "gone" => docs'[d] = "gone"
             /\ Exists(d) => Exists(d)' \/ DeleteDocument(q, d)
  BY <1>1, <1>0 DEF PersistBlob, AskReprocess, DeleteDocument, Shape, Exists
<1>2. ASSUME NEW q \in Requests, RequestStep(q) \/ EnqueueFails(q) \/ ReplyLost(q) \/ RequestDies(q)
      PROVE  /\ docs[d] # "none" => docs'[d] # "none"
             /\ docs[d] = "gone" => docs'[d] = "gone"
             /\ Exists(d) => Exists(d)'
  <2>0. requests[q] \in RequestRecords /\ requests[q].doc \in Docs
    BY <1>2, <1>0, StepsOfRequests
  <2>1. CASE InsertDocument(q)
    BY <2>0, <2>1, <1>0 DEF InsertDocument, Inserting, Shape, Exists
  <2>2. CASE docs' = docs
    BY <2>2 DEF Exists
  <2>3. CASE SetStatus(requests[q].doc, "pending") \/ SetStatus(requests[q].doc, "failed")
    BY <2>0, <2>3, <1>a DEF Working
  <2> QED
    BY <1>2, <2>1, <2>2, <2>3 DEF RequestStep, Claim, Enqueue, RecordJob, GiveBack, LookForOthers, UnlinkBlob,
           EnqueueFails, ReplyLost, RequestDies
<1>3. ASSUME (\E e \in Docs : UploadAgain(e)) \/ UnsetRole \/ DesignateRole \/ UNCHANGED vars
      PROVE  docs' = docs
  BY <1>3 DEF UploadAgain, UnsetRole, DesignateRole, vars
<1>4. ASSUME NEW j \in Jobs, HandlerStep(j)
      PROVE  /\ docs[d] # "none" => docs'[d] # "none"
             /\ docs[d] = "gone" => docs'[d] = "gone"
             /\ Exists(d) => Exists(d)'
  <2>0. j \in Used /\ jobs[j].doc \in Docs
    BY <1>4, <1>0, StepsOfJobs
  <2>1. CASE docs' = docs
    BY <2>1 DEF Exists
  <2>2. CASE \E s \in {"indexed", "failed"} \cup Working : SetStatus(jobs[j].doc, s)
    BY <2>0, <2>2, <1>a
  <2>3. CASE SetStatus(jobs[j].doc, docs[jobs[j].doc])
    <3>1. docs' = docs
      BY <2>0, <2>3, <1>0 DEF SetStatus, Shape
    <3> QED
      BY <3>1, <2>1
  <2> QED
    BY <1>4, <2>1, <2>2, <2>3 DEF HandlerStep, JobStep, Take, RoleUnset, RoleSet, HoldRow, Defer,
           DeferReturns, DeferReplyLost, Load, Parse, FileMissing, Chunk, ChunkEmpty, InsertChunks, Settle,
           Count, Finish, Fail, FailJob, Moves, StepFails, FailLost, TimesOut, WorkerDies, Working
<1>5. docs' = docs => (Exists(d) <=> Exists(d)') /\ docs'[d] = docs[d]
  BY DEF Exists
<1> QED
  BY <1>1, <1>2, <1>3, <1>4, <1>5 DEF Next, HandlerStep

\* The jobs there are keep their document, and a new one is queued for a document
\* that is there.
LEMMA JobsGoOn ==
    ASSUME Typed, [Next]_vars
    PROVE  /\ \A j \in Used : j \in Used' /\ jobs'[j].doc = jobs[j].doc
           /\ \A j \in Used' \ Used :
                /\ jobs'[j].doc \in Docs /\ docs[jobs'[j].doc] # "none"
                /\ jobs'[j].pc = "queued"
<1> USE DEF Typed
<1>0. Shape /\ Numbered
  OBVIOUS
<1>1. CASE jobs' = jobs
  BY <1>1 DEF Used
<1>2. ASSUME NEW q \in Requests, Enqueue(q) \/ ReplyLost(q)
      PROVE  /\ \A j \in Used : j \in Used' /\ jobs'[j].doc = jobs[j].doc
             /\ \A j \in Used' \ Used :
                  /\ jobs'[j].doc \in Docs /\ docs[jobs'[j].doc] # "none"
                  /\ jobs'[j].pc = "queued"
  <2>1. /\ requests[q].doc \in Docs /\ NextJob \notin Used /\ Used' = Used \cup {NextJob}
        /\ jobs'[NextJob] = Queued(requests[q].doc)
        /\ \A i \in Jobs : i # NextJob => jobs'[i] = jobs[i]
    BY <1>2, <1>0, EnqueueMoves
  <2>2. docs[requests[q].doc] # "none"
    BY <1>2, <1>0 DEF Enqueue, ReplyLost, Refers
  <2> QED
    BY <2>1, <2>2 DEF Queued, Used
<1>3. ASSUME NEW j \in Jobs, Defers(j)
      PROVE  /\ \A i \in Used : i \in Used' /\ jobs'[i].doc = jobs[i].doc
             /\ \A i \in Used' \ Used :
                  /\ jobs'[i].doc \in Docs /\ docs[jobs'[i].doc] # "none"
                  /\ jobs'[i].pc = "queued"
  <2>1. /\ j \in Used /\ jobs[j].doc \in Docs /\ NextJob \notin Used /\ Used' = Used \cup {NextJob}
        /\ jobs'[NextJob] = Queued(jobs[j].doc) /\ jobs'[j].doc = jobs[j].doc
        /\ \A i \in Jobs : i # NextJob /\ i # j => jobs'[i] = jobs[i]
    BY <1>3, <1>0, DeferMoves
  <2> QED
    BY <2>1 DEF Queued, Used, Refers
<1>4. ASSUME NEW j \in Jobs, HandlerStep(j), ~Defers(j)
      PROVE  Used' = Used /\ \A i \in Used : jobs'[i].doc = jobs[i].doc
  BY <1>4, <1>0, WorkMoves DEF Used
<1>5. (~ \E q \in Requests : Enqueue(q) \/ ReplyLost(q)) /\ (~ \E j \in Jobs :
          HandlerStep(j)) => jobs' = jobs
  BY DEF Next, HandlerStep, RequestStep, PersistBlob, AskReprocess, DeleteDocument, InsertDocument, Claim,
         RecordJob, GiveBack, LookForOthers, UnlinkBlob, EnqueueFails, RequestDies, UploadAgain, UnsetRole,
         DesignateRole, vars
<1> QED
  BY <1>1, <1>2, <1>3, <1>4, <1>5
\* A request goes on with the document it is about, or ends.
LEMMA RequestsGoOn ==
    ASSUME Typed, [Next]_vars, NEW q \in Requests
    PROVE  \/ requests'[q] = requests[q]
           \/ requests'[q] = NoRequest
           \/ /\ requests[q] = NoRequest /\ requests'[q].doc \in Docs
              /\ \/ PersistBlob(q, requests'[q].doc) /\ requests'[q].pc = "insert"
                 \/ AskReprocess(q, requests'[q].doc) /\ requests'[q].pc = "claim"
                 \/ DeleteDocument(q, requests'[q].doc) /\ requests'[q].pc = "look"
           \/ LookForOthers(q) /\ requests'[q].op = "delete" /\ requests'[q].pc = "unlink"
           \/ /\ requests[q].doc \in Docs /\ requests'[q].doc = requests[q].doc
              /\ requests'[q].op = requests[q].op /\ requests'[q].op \in {"upload", "reprocess"}
              /\ \/ InsertDocument(q) /\ requests'[q].pc = "enqueue"
                 \/ Claim(q) /\ docs[requests[q].doc] = "failed" /\ requests'[q].pc = "enqueue"
                 \/ Enqueue(q) /\ requests'[q].pc = "record" /\ requests'[q].job = NextJob
                 \/ (EnqueueFails(q) \/ ReplyLost(q)) /\ requests'[q].pc = "giveback"
<1> USE DEF Typed
<1>0. Shape /\ Numbered
  OBVIOUS
<1>1. ASSUME NEW p \in Requests, NEW d \in Docs,
             PersistBlob(p, d) \/ AskReprocess(p, d) \/ DeleteDocument(p, d)
      PROVE  /\ p # q => requests'[q] = requests[q]
             /\ requests'[p].doc = d
             /\ \/ PersistBlob(p, d) /\ requests'[p].pc = "insert"
                \/ AskReprocess(p, d) /\ requests'[p].pc = "claim"
                \/ DeleteDocument(p, d) /\ requests'[p].pc = "look"
             /\ requests[p] = NoRequest
  BY <1>1, <1>0, MoveRequest DEF PersistBlob, AskReprocess, DeleteDocument
<1>2. ASSUME NEW p \in Requests, EndRequest(p)
      PROVE  requests'[q] \in {requests[q], NoRequest}
  BY <1>2, <1>0, DropRequest
<1>3. ASSUME NEW p \in Requests, RequestStep(p) \/ EnqueueFails(p) \/ ReplyLost(p) \/ RequestDies(p)
      PROVE  \/ EndRequest(p)
             \/ /\ p # q => requests'[q] = requests[q]
                /\ LookForOthers(p) /\ requests'[p].op = "delete" /\ requests'[p].pc = "unlink"
             \/ /\ p # q => requests'[q] = requests[q]
                /\ requests[p].doc \in Docs /\ requests'[p].doc = requests[p].doc
                /\ requests'[p].op = requests[p].op /\ requests'[p].op \in {"upload", "reprocess"}
                /\ \/ InsertDocument(p) /\ requests'[p].pc = "enqueue"
                   \/ Claim(p) /\ docs[requests[p].doc] = "failed" /\ requests'[p].pc = "enqueue"
                   \/ Enqueue(p) /\ requests'[p].pc = "record" /\ requests'[p].job = NextJob
                   \/ (EnqueueFails(p) \/ ReplyLost(p)) /\ requests'[p].pc = "giveback"
  <2>0. requests[p] \in RequestRecords /\ requests[p].doc \in Docs
    BY <1>3, <1>0, StepsOfRequests
  <2>1. CASE InsertDocument(p)
    BY <2>0, <2>1, <1>0, MoveRequest DEF InsertDocument
  <2>2. CASE Claim(p)
    BY <2>0, <2>2, <1>0, MoveRequest DEF Claim
  <2>3. CASE Enqueue(p) \/ ReplyLost(p)
    BY <2>3, <1>0, EnqueueMoves
  <2>4. CASE EnqueueFails(p)
    BY <2>0, <2>4, <1>0, MoveRequest DEF EnqueueFails
  <2>5. CASE LookForOthers(p)
    BY <2>0, <2>5, <1>0, MoveRequest DEF LookForOthers
  <2> QED
    BY <1>3, <2>1, <2>2, <2>3, <2>4, <2>5 DEF RequestStep, RecordJob, GiveBack, UnlinkBlob, RequestDies
<1>4. ASSUME NEW j \in Jobs, HandlerStep(j)
      PROVE  requests' = requests
  BY <1>4, <1>0, WorkMoves, DeferMoves
<1>5. (\E e \in Docs : UploadAgain(e)) \/ UnsetRole \/ DesignateRole \/ UNCHANGED vars
        => requests' = requests
  BY DEF UploadAgain, UnsetRole, DesignateRole, vars
<1> QED
  BY <1>1, <1>2, <1>3, <1>4, <1>5 DEF Next, HandlerStep

LEMMA InsertingStep == Typed /\ [Next]_vars => Inserting'
<1> SUFFICES ASSUME Typed, [Next]_vars PROVE Inserting'
  OBVIOUS
<1> USE DEF Typed
<1>0. Shape
  OBVIOUS
<1>a. NoRequest.pc = "none"
  BY DEF NoRequest
<1>1. ASSUME NEW q \in Requests, requests'[q].pc = "insert"
      PROVE  \/ /\ requests'[q] = requests[q] /\ requests[q].doc \in Docs
                /\ docs[requests[q].doc] = "none"
             \/ requests'[q].doc \in Docs /\ PersistBlob(q, requests'[q].doc)
  <2>1. CASE requests'[q] = requests[q]
    <3>1. requests[q].doc \in Docs
      BY <1>1, <2>1, <1>0, <1>a DEF Shape, RequestRecords
    <3> QED
      BY <1>1, <2>1, <3>1 DEF Inserting
  <2> QED
    BY <1>1, <1>a, <2>1, RequestsGoOn
<1>2. ASSUME NEW q \in Requests, requests'[q].pc = "insert"
      PROVE  docs'[requests'[q].doc] = "none"
  <2>1. CASE requests'[q].doc \in Docs /\ PersistBlob(q, requests'[q].doc)
    BY <2>1 DEF PersistBlob
  <2>2. CASE requests'[q] = requests[q] /\ requests[q].doc \in Docs /\ docs[requests[q].doc] = "none"
    <3> DEFINE d == requests[q].doc
    <3>1. CASE docs'[d] # "none"
      <4>1. PICK p \in Requests : InsertDocument(p) /\ requests[p].doc = d
        <5>1. ASSUME NEW e \in Docs, NEW s, SetStatus(e, s) PROVE docs'[d] = "none"
          BY <5>1, <2>2, <1>0 DEF SetStatus, Shape, Exists
        <5>2. ASSUME NEW p \in Requests, NEW e \in Docs,
                     PersistBlob(p, e) \/ AskReprocess(p, e) \/ DeleteDocument(p, e)
              PROVE  docs'[d] = "none"
          BY <5>2, <2>2, <1>0 DEF PersistBlob, AskReprocess, DeleteDocument, Shape, Exists
        <5>3. ASSUME NEW p \in Requests, RequestStep(p) \/ EnqueueFails(p) \/ ReplyLost(p) \/ RequestDies(p)
              PROVE  docs'[d] = "none" \/ (InsertDocument(p) /\ requests[p].doc = d)
          <6>1. requests[p].doc \in Docs
            BY <5>3, <1>0, StepsOfRequests
          <6>2. CASE InsertDocument(p)
            BY <6>1, <6>2, <2>2, <1>0 DEF InsertDocument, Shape
          <6> QED
            BY <5>1, <5>3, <6>1, <6>2, <2>2 DEF RequestStep, Claim, Enqueue, RecordJob, GiveBack,
                   LookForOthers, UnlinkBlob, EnqueueFails, ReplyLost, RequestDies
        <5>4. ASSUME NEW j \in Jobs, HandlerStep(j)
              PROVE  docs'[d] = "none"
          <6>1. jobs[j].doc \in Docs
            BY <5>4, <1>0, StepsOfJobs
          <6> QED
            BY <5>1, <5>4, <6>1, <2>2 DEF HandlerStep, JobStep, Take, RoleUnset, RoleSet, HoldRow, Defer,
                   DeferReturns, DeferReplyLost, Load, Parse, FileMissing, Chunk, ChunkEmpty, InsertChunks,
                   Settle, Count, Finish, Fail, FailJob, Moves, StepFails, FailLost, TimesOut, WorkerDies
        <5>5. (\E e \in Docs : UploadAgain(e)) \/ UnsetRole \/ DesignateRole \/ UNCHANGED vars
                => docs'[d] = "none"
          BY <2>2 DEF UploadAgain, UnsetRole, DesignateRole, vars
        <5> QED
          BY <3>1, <5>2, <5>3, <5>4, <5>5 DEF Next, HandlerStep
      <4>2. requests[p].pc = "insert"
        BY <4>1 DEF InsertDocument
      <4>3. p = q
        BY <1>2, <2>2, <4>1, <4>2 DEF Inserting
      <4>4. requests'[p].pc = "enqueue"
        BY <4>1, <2>2, <1>0, MoveRequest DEF InsertDocument
      <4> QED
        BY <1>2, <4>3, <4>4
    <3> QED
      BY <2>2, <3>1
  <2> QED
    BY <1>1, <1>2, <2>1, <2>2
<1>3. ASSUME NEW p \in Requests, NEW q \in Requests, requests'[p].pc = "insert", requests'[q].pc = "insert",
             requests'[p].doc = requests'[q].doc, p # q
      PROVE  FALSE
  <2>1. CASE requests'[p] = requests[p] /\ requests'[q] = requests[q]
    BY <1>3, <2>1 DEF Inserting
  <2>2. ASSUME NEW a \in Requests, NEW b \in Requests, a # b, requests'[a].doc = requests'[b].doc,
               requests'[a].doc \in Docs, PersistBlob(a, requests'[a].doc)
        PROVE  FALSE
    <3>1. requests'[b] = requests[b]
      BY <2>2, <1>0, MoveRequest DEF PersistBlob
    <3> QED
      BY <2>2, <3>1 DEF PersistBlob
  <2> QED
    BY <1>1, <1>3, <2>1, <2>2
<1> QED
  BY <1>2, <1>3 DEF Inserting

\* Which steps change a job's row.
LEMMA RowsMove ==
    ASSUME Typed, [Next]_vars, NEW j \in Jobs
    PROVE  \/ rows'[j] = rows[j]
           \/ /\ rows'[j] = "queued"
              /\ \E q \in Requests : RecordJob(q) /\ requests[q].job = j /\ Exists(requests[q].doc)
           \/ rows'[j] = "none" /\ \E q \in Requests, d \in Docs : DeleteDocument(q, d)
           \/ /\ rows[j] # "none" /\ unsettled' = unsettled
              /\ \/ Take(j) /\ rows'[j] = "running"
                 \/ HoldRow(j) /\ rows'[j] = "queued"
                 \/ Finish(j) /\ rows'[j] = "succeeded"
                 \/ FailJob(j) /\ rows'[j] = "failed"
<1>0. Shape
  BY DEF Typed
<1>1. ASSUME NEW i \in Jobs, NEW s, TellsRow(i, s) \/ SettlesRow(i, s)
      PROVE  rows'[j] = rows[j] \/ (i = j /\ rows[j] # "none" /\ rows'[j] = s /\ unsettled' = unsettled)
  BY <1>1, <1>0 DEF TellsRow, SettlesRow, SetRow, Shape
<1>2. ASSUME NEW q \in Requests, RecordJob(q)
      PROVE  rows'[j] = rows[j] \/ (rows'[j] = "queued" /\ requests[q].job = j /\ Exists(requests[q].doc))
  BY <1>2, <1>0 DEF RecordJob, Shape
<1>3. ASSUME NEW q \in Requests, NEW d \in Docs, DeleteDocument(q, d)
      PROVE  rows'[j] = rows[j] \/ rows'[j] = "none"
  BY <1>3, <1>0 DEF DeleteDocument, RowsWithout
<1>4. ASSUME NEW i \in Jobs, Take(i) \/ HoldRow(i) \/ Finish(i) \/ FailJob(i)
      PROVE  \/ rows'[j] = rows[j]
             \/ /\ rows[j] # "none" /\ unsettled' = unsettled
                /\ \/ Take(j) /\ rows'[j] = "running"
                   \/ HoldRow(j) /\ rows'[j] = "queued"
                   \/ Finish(j) /\ rows'[j] = "succeeded"
                   \/ FailJob(j) /\ rows'[j] = "failed"
  <2>1. CASE Take(i)
    BY <2>1, <1>1 DEF Take
  <2>2. CASE HoldRow(i)
    BY <2>2, <1>1 DEF HoldRow
  <2>3. CASE Finish(i)
    BY <2>3, <1>1 DEF Finish
  <2>4. CASE FailJob(i)
    BY <2>4, <1>1 DEF FailJob
  <2> QED
    BY <1>4, <2>1, <2>2, <2>3, <2>4
<1>5. \/ \E i \in Jobs : Take(i) \/ HoldRow(i) \/ Finish(i) \/ FailJob(i)
      \/ \E q \in Requests : RecordJob(q)
      \/ \E q \in Requests, d \in Docs : DeleteDocument(q, d)
      \/ rows' = rows
  BY DEF Next, RequestStep, PersistBlob, AskReprocess, InsertDocument, Claim, Enqueue, GiveBack,
         LookForOthers, UnlinkBlob, EnqueueFails, ReplyLost, RequestDies, UploadAgain, UnsetRole, DesignateRole,
         vars, JobStep, RoleUnset, RoleSet, Defer, DeferReturns, DeferReplyLost, Load, Parse, FileMissing,
         Chunk, ChunkEmpty, InsertChunks, Settle, Count, Fail, Moves, StepFails, FailLost, TimesOut, WorkerDies
<1> QED
  BY <1>2, <1>3, <1>4, <1>5

LEMMA RefersStep == Typed /\ [Next]_vars => Refers'
<1> SUFFICES ASSUME Typed, [Next]_vars PROVE Refers'
  OBVIOUS
<1> USE DEF Typed
<1>0. Shape /\ Shape'
  BY ShapeStep
<1>a. ASSUME NEW j \in Used PROVE jobs[j].doc \in Docs
  BY <1>0 DEF Shape, Used, JobRecords
<1>1. \A j \in Used' : docs'[jobs'[j].doc] # "none"
  <2>1. \A j \in Used : docs'[jobs'[j].doc] # "none"
    BY <1>a, DocsGoOn, JobsGoOn DEF Refers
  <2> QED
    BY <2>1, DocsGoOn, JobsGoOn
<1>2. ASSUME NEW q \in Requests
      PROVE  /\ requests'[q].pc \in {"claim", "enqueue", "giveback", "record"} =>
                  docs'[requests'[q].doc] # "none"
             /\ requests'[q].pc = "record" =>
                  requests'[q].job \in Used' /\ jobs'[requests'[q].job].doc = requests'[q].doc
  <2>1. CASE requests'[q] = requests[q]
    <3>1. requests[q].pc # "none" => requests[q].doc \in Docs
      BY <1>0 DEF Shape, RequestRecords, NoRequest
    <3> QED
      BY <2>1, <3>1, DocsGoOn, JobsGoOn DEF Refers
  <2>2. CASE requests'[q] = NoRequest
    BY <2>2 DEF NoRequest
  <2>3. CASE requests'[q].doc \in Docs /\ PersistBlob(q, requests'[q].doc) /\ requests'[q].pc = "insert"
    BY <2>3
  <2>4. CASE requests'[q].doc \in Docs /\ AskReprocess(q, requests'[q].doc) /\ requests'[q].pc = "claim"
    BY <2>4, DocsGoOn DEF AskReprocess
  <2>5. CASE requests'[q].pc \in {"look", "unlink"}
    BY <2>5
  <2>6. CASE /\ requests[q].doc \in Docs /\ requests'[q].doc = requests[q].doc /\ requests'[q].pc = "enqueue"
             /\ InsertDocument(q) \/ (Claim(q) /\ docs[requests[q].doc] = "failed")
    <3>1. CASE InsertDocument(q)
      BY <2>6, <3>1, <1>0 DEF InsertDocument, Shape
    <3>2. CASE docs[requests[q].doc] = "failed"
      BY <2>6, <3>2, DocsGoOn
    <3> QED
      BY <2>6, <3>1, <3>2
  <2>7. CASE /\ requests[q].doc \in Docs /\ requests'[q].doc = requests[q].doc
             /\ Enqueue(q) /\ requests'[q].pc = "record" /\ requests'[q].job = NextJob
    <3>1. docs[requests[q].doc] # "none"
      BY <2>7 DEF Enqueue, Refers
    <3>2. Used' = Used \cup {NextJob} /\ jobs'[NextJob] = Queued(requests[q].doc)
      BY <2>7, <1>0, EnqueueMoves
    <3> QED
      BY <2>7, <3>1, <3>2, DocsGoOn DEF Queued
  <2>9. CASE /\ requests[q].doc \in Docs /\ requests'[q].doc = requests[q].doc
             /\ EnqueueFails(q) \/ ReplyLost(q)
             /\ requests'[q].pc = "giveback"
    <3>1. docs[requests[q].doc] # "none"
      BY <2>9 DEF EnqueueFails, ReplyLost, Refers
    <3> QED
      BY <2>9, <3>1, DocsGoOn
  <2>8. \/ requests'[q] = requests[q]
        \/ requests'[q] = NoRequest
        \/ /\ requests'[q].doc \in Docs
           /\ \/ PersistBlob(q, requests'[q].doc) /\ requests'[q].pc = "insert"
              \/ AskReprocess(q, requests'[q].doc) /\ requests'[q].pc = "claim"
        \/ requests'[q].pc \in {"look", "unlink"}
        \/ /\ requests[q].doc \in Docs /\ requests'[q].doc = requests[q].doc
           /\ \/ InsertDocument(q) /\ requests'[q].pc = "enqueue"
              \/ Claim(q) /\ docs[requests[q].doc] = "failed" /\ requests'[q].pc = "enqueue"
              \/ Enqueue(q) /\ requests'[q].pc = "record" /\ requests'[q].job = NextJob
              \/ (EnqueueFails(q) \/ ReplyLost(q)) /\ requests'[q].pc = "giveback"
    BY RequestsGoOn
  <2> QED
    BY <2>1, <2>2, <2>3, <2>4, <2>5, <2>6, <2>7, <2>8, <2>9
<1>3. ASSUME NEW j \in Jobs, rows'[j] # "none" PROVE j \in Used' /\ Exists(jobs[j].doc)'
  <2>1. rows[j] # "none" \/ \E q \in Requests : RecordJob(q) /\ requests[q].job = j /\ Exists(requests[q].doc)
    BY <1>3, RowsMove
  <2>2. CASE rows[j] # "none"
    <3>1. j \in Used /\ jobs[j].doc \in Docs /\ Exists(jobs[j].doc)
      BY <2>2, <1>a DEF Refers
    <3>2. ASSUME NEW q \in Requests, DeleteDocument(q, jobs[j].doc) PROVE FALSE
      BY <1>3, <3>1, <3>2 DEF DeleteDocument, RowsWithout, JobsOf
    <3> QED
      BY <3>1, <3>2, DocsGoOn, JobsGoOn
  <2>3. ASSUME NEW q \in Requests, RecordJob(q), requests[q].job = j, Exists(requests[q].doc)
        PROVE  j \in Used' /\ Exists(jobs[j].doc)'
    BY <2>3 DEF RecordJob, Refers, Used, Exists
  <2> QED
    BY <2>1, <2>2, <2>3
<1>4. ASSUME NEW d \in Docs, ~Exists(d)' PROVE chunks'[d] = {}
  <2>1. CASE ~Exists(d)
    <3>1. ASSUME NEW j \in Jobs, NEW part, NEW to, InsertChunks(j, part, to) PROVE chunks'[d] = {}
      <4>1. jobs[j].doc \in Docs
        BY <3>1, <1>0 DEF InsertChunks, At, Used, Shape, JobRecords
      <4> QED
        BY <2>1, <3>1, <4>1, <1>0 DEF InsertChunks, Inserts, Shape, Refers
    <3>2. ASSUME NEW q \in Requests, NEW e \in Docs, DeleteDocument(q, e) PROVE chunks'[d] = {}
      BY <2>1, <3>2, <1>0 DEF DeleteDocument, Shape, Refers
    <3>3. chunks[d] = {}
      BY <2>1 DEF Refers
    <3> QED
      BY <3>1, <3>2, <3>3 DEF Next, HandlerStep, RequestStep, PersistBlob, AskReprocess, InsertDocument,
             Claim, Enqueue, RecordJob, GiveBack, LookForOthers, UnlinkBlob, EnqueueFails, ReplyLost,
             RequestDies, UploadAgain, UnsetRole, DesignateRole, vars, JobStep, Take, RoleUnset, RoleSet,
             HoldRow, Defer, DeferReturns, DeferReplyLost, Load, Parse, FileMissing, Chunk, ChunkEmpty,
             Settle, Count, Finish, Fail, FailJob, Moves, StepFails, FailLost, TimesOut, WorkerDies
  <2>2. CASE Exists(d)
    <3>1. PICK q \in Requests : DeleteDocument(q, d)
      BY <1>4, <2>2, DocsGoOn
    <3> QED
      BY <3>1, <1>0 DEF DeleteDocument, Shape
  <2> QED
    BY <2>1, <2>2
<1> QED
  BY <1>1, <1>2, <1>3, <1>4 DEF Refers

LEMMA TypedStep == Typed /\ [Next]_vars => Typed'
BY ShapeStep, NumberedStep, InsertingStep, RefersStep DEF Typed

\* The state of documents, requests, jobs and rows is what TypeOK says: in particular
\* the chunks and the job rows of a document never outlive its row, whichever jobs and
\* requests are under way when it is deleted.
THEOREM TypeCorrect == Spec => []TypeOK
<1>1. Typed => TypeOK
  BY DEF Typed, Shape, Numbered, Refers, TypeOK, Used, JobRecords
<1> QED
  BY <1>1, InitTyped, TypedStep, PTL DEF Spec
-----------------------------------------------------------------------------
(* Which steps change what about a document. *)

LEMMA JobsMove ==
    ASSUME Typed, [Next]_vars, NEW j \in Used'
    PROVE  \/ j \in Used /\ jobs'[j] = jobs[j]
           \/ j \in Used /\ jobs'[j].doc = jobs[j].doc
                /\ HandlerStep(j)
           \/ /\ j \notin Used /\ jobs'[j].pc = "queued"
              /\ \/ \E q \in Requests : (Enqueue(q) \/ ReplyLost(q)) /\ requests[q].doc = jobs'[j].doc
                 \/ \E i \in Used : Defers(i) /\ jobs[i].doc = jobs'[j].doc
<1> USE DEF Typed
<1>0. Shape /\ Numbered
  OBVIOUS
<1>1. CASE jobs' = jobs
  BY <1>1 DEF Used
<1>2. ASSUME NEW q \in Requests, Enqueue(q) \/ ReplyLost(q)
      PROVE  \/ j \in Used /\ jobs'[j] = jobs[j]
             \/ j \notin Used /\ jobs'[j].pc = "queued" /\ requests[q].doc = jobs'[j].doc
  <2>1. /\ NextJob \notin Used /\ Used' = Used \cup {NextJob}
        /\ jobs'[NextJob] = Queued(requests[q].doc)
        /\ \A i \in Jobs : i # NextJob => jobs'[i] = jobs[i]
    BY <1>2, <1>0, EnqueueMoves
  <2> QED
    BY <2>1 DEF Queued, Used
<1>3. ASSUME NEW i \in Jobs, Defers(i)
      PROVE  \/ j \in Used /\ jobs'[j] = jobs[j]
             \/ j = i /\ j \in Used /\ jobs'[j].doc = jobs[j].doc /\ HandlerStep(j)
             \/ j \notin Used /\ jobs'[j].pc = "queued" /\ jobs[i].doc = jobs'[j].doc /\ i \in Used
  <2>1. HandlerStep(i)
    BY <1>3 DEF Defers, HandlerStep, JobStep
  <2>2. /\ i \in Used /\ NextJob \notin Used /\ Used' = Used \cup {NextJob}
        /\ jobs'[NextJob] = Queued(jobs[i].doc) /\ jobs'[i].doc = jobs[i].doc
        /\ \A k \in Jobs : k # NextJob /\ k # i => jobs'[k] = jobs[k]
    BY <1>3, <1>0, DeferMoves
  <2> QED
    BY <2>1, <2>2 DEF Queued, Used
<1>4. ASSUME NEW i \in Jobs, HandlerStep(i), ~Defers(i)
      PROVE  /\ j \in Used
             /\ jobs'[j] = jobs[j] \/ (i = j /\ jobs'[j].doc = jobs[j].doc)
  BY <1>4, <1>0, WorkMoves DEF Used
<1>5. (~ \E q \in Requests : Enqueue(q) \/ ReplyLost(q)) /\ (~ \E i \in Jobs :
          HandlerStep(i)) => jobs' = jobs
  BY DEF Next, HandlerStep, RequestStep, PersistBlob, AskReprocess, DeleteDocument, InsertDocument, Claim,
         RecordJob, GiveBack, LookForOthers, UnlinkBlob, EnqueueFails, RequestDies, UploadAgain, UnsetRole,
         DesignateRole, vars
<1> QED
  BY <1>1, <1>2, <1>3, <1>4, <1>5

LEMMA ChunksMove ==
    ASSUME Typed, [Next]_vars, NEW d \in Docs
    PROVE  \/ chunks'[d] = chunks[d]
           \/ docs'[d] = "gone" /\ chunks'[d] = {}
           \/ \E j \in Used : /\ jobs[j].doc = d /\ Exists(d) /\ docs' = docs
                              /\ \/ /\ InsertChunks(j, "parents", "leaves") /\ jobs[j].pc = "parents"
                                    /\ "parents" \notin chunks[d]
                                    /\ chunks'[d] = chunks[d] \cup {"parents"} /\ jobs'[j].pc = "leaves"
                                 \/ /\ InsertChunks(j, "leaves", "settle") /\ jobs[j].pc = "leaves"
                                    /\ "leaves" \notin chunks[d]
                                    /\ chunks'[d] = chunks[d] \cup {"leaves"} /\ jobs'[j].pc = "settle"
<1> USE DEF Typed
<1>0. Shape
  OBVIOUS
<1>1. ASSUME NEW q \in Requests, NEW e \in Docs, DeleteDocument(q, e)
      PROVE  chunks'[d] = chunks[d] \/ (docs'[d] = "gone" /\ chunks'[d] = {})
  BY <1>1, <1>0 DEF DeleteDocument, Shape
<1>2. ASSUME NEW j \in Jobs, NEW part, NEW to \in Running, InsertChunks(j, part, to)
      PROVE  \/ chunks'[d] = chunks[d]
             \/ /\ j \in Used /\ jobs[j].doc = d /\ Exists(d) /\ part \notin chunks[d] /\ docs' = docs
                /\ jobs[j].pc = part /\ chunks'[d] = chunks[d] \cup {part} /\ jobs'[j].pc = to
  <2>1. j \in Used /\ jobs[j].pc = part
    BY <1>2 DEF InsertChunks, At
  <2>2. jobs[j].doc \in Docs
    BY <2>1, <1>0 DEF Shape, Used, JobRecords
  <2>3. CASE chunks' = chunks
    BY <2>3
  <2>4. CASE /\ Inserts(jobs[j].doc, part) /\ GoTo(j, to)
             /\ chunks' = [chunks EXCEPT ![jobs[j].doc] = @ \cup {part}]
    <3>1. jobs'[j].pc = to
      BY <2>1, <2>4, <1>0, MoveJob DEF GoTo
    <3> QED
      BY <1>2, <2>1, <2>2, <2>4, <3>1, <1>0 DEF Inserts, Shape, InsertChunks
  <2> QED
    BY <1>2, <2>3, <2>4 DEF InsertChunks
<1>3. CASE chunks' = chunks
  BY <1>3
<1>4. \/ \E q \in Requests, e \in Docs : DeleteDocument(q, e)
      \/ \E j \in Jobs : InsertChunks(j, "parents", "leaves") \/ InsertChunks(j, "leaves", "settle")
      \/ chunks' = chunks
  BY DEF Next, HandlerStep, RequestStep, PersistBlob, AskReprocess, InsertDocument, Claim, Enqueue, RecordJob,
         GiveBack, LookForOthers, UnlinkBlob, EnqueueFails, ReplyLost, RequestDies, UploadAgain, UnsetRole,
         DesignateRole, vars, JobStep, Take, RoleUnset, RoleSet, HoldRow, Defer, DeferReturns, DeferReplyLost,
         Load, Parse, FileMissing, Chunk, ChunkEmpty, Settle, Count, Finish, Fail, FailJob, Moves, StepFails,
         FailLost, TimesOut, WorkerDies
<1>5. "leaves" \in Running /\ "settle" \in Running
  BY DEF Running
<1> QED
  BY <1>1, <1>2, <1>3, <1>4, <1>5

\* How a document comes to say that it is indexed, or that it failed.
LEMMA StatusMoves ==
    ASSUME Typed, [Next]_vars, NEW d \in Docs
    PROVE  /\ docs'[d] = "indexed" =>
                docs[d] = "indexed" \/ \E j \in Used : Settle(j) /\ jobs[j].doc = d /\ Exists(d)
           /\ docs'[d] = "failed" =>
                \/ docs[d] = "failed"
                \/ \E j \in Used : (Fail(j) \/ ChunkEmpty(j)) /\ jobs[j].doc = d
                \/ \E q \in Requests : GiveBack(q) /\ q \in Enqueuing(d)
<1> USE DEF Typed
<1>0. Shape
  OBVIOUS
<1>a. ASSUME NEW e \in Docs, NEW s, SetStatus(e, s)
      PROVE  docs'[d] = docs[d] \/ (e = d /\ Exists(d) /\ docs'[d] = s)
  BY <1>a, <1>0 DEF SetStatus, Shape
<1>1. ASSUME NEW q \in Requests, NEW e \in Docs,
             PersistBlob(q, e) \/ AskReprocess(q, e) \/ DeleteDocument(q, e)
      PROVE  docs'[d] \in {docs[d], "gone"}
  BY <1>1, <1>0 DEF PersistBlob, AskReprocess, DeleteDocument, Shape
<1>2. ASSUME NEW q \in Requests, RequestStep(q)
      PROVE  docs'[d] \in {docs[d], "pending"} \/ (GiveBack(q) /\ q \in Enqueuing(d) /\ docs'[d] = "failed")
  <2>1. requests[q].doc \in Docs
    BY <1>2, <1>0, StepsOfRequests
  <2>2. CASE InsertDocument(q)
    BY <2>1, <2>2, <1>0 DEF InsertDocument, Shape
  <2>3. CASE GiveBack(q)
    BY <1>a, <2>1, <2>3 DEF GiveBack, Enqueuing
  <2> QED
    BY <1>2, <1>a, <2>1, <2>2, <2>3 DEF RequestStep, Claim, Enqueue, RecordJob, LookForOthers, UnlinkBlob
<1>3. ASSUME NEW q \in Requests, EnqueueFails(q) \/ ReplyLost(q) \/ RequestDies(q)
      PROVE  docs'[d] = docs[d]
  BY <1>3 DEF EnqueueFails, ReplyLost, RequestDies
<1>4. ASSUME NEW j \in Jobs, HandlerStep(j)
      PROVE  /\ j \in Used
             /\ \/ docs'[d] \in {docs[d], "pending", "parsing", "chunking", "embedding"}
                \/ jobs[j].doc = d /\ Exists(d) /\ Settle(j) /\ docs'[d] = "indexed"
                \/ jobs[j].doc = d /\ (Fail(j) \/ ChunkEmpty(j)) /\ docs'[d] = "failed"
  <2>1. j \in Used /\ jobs[j].doc \in Docs
    BY <1>4, <1>0, StepsOfJobs
  <2> QED
    BY <1>4, <1>a, <2>1 DEF HandlerStep, JobStep, Take, RoleUnset, RoleSet, HoldRow, Defer, DeferReturns,
           DeferReplyLost, Load, Parse, FileMissing, Chunk, ChunkEmpty, InsertChunks, Settle, Count, Finish,
           Fail, FailJob, Moves, StepFails, FailLost, TimesOut, WorkerDies
<1>5. (\E e \in Docs : UploadAgain(e)) \/ UnsetRole \/ DesignateRole \/ UNCHANGED vars => docs' = docs
  BY DEF UploadAgain, UnsetRole, DesignateRole, vars
<1> QED
  BY <1>1, <1>2, <1>3, <1>4, <1>5 DEF Next, HandlerStep

\* What went wrong for a document is not forgotten.
LEMMA BefellGrows ==
    ASSUME Typed, [Next]_vars, NEW d \in Docs
    PROVE  befell[d] \subseteq befell'[d]
<1>0. Shape
  BY DEF Typed
<1>1. ASSUME NEW e \in Docs, NEW what, Befalls(e, what) PROVE befell[d] \subseteq befell'[d]
  BY <1>1, <1>0 DEF Befalls, Shape
<1>2. ASSUME NEW q \in Requests, EnqueueFails(q) \/ ReplyLost(q) \/ RequestDies(q)
      PROVE  befell[d] \subseteq befell'[d]
  <2>1. requests[q].doc \in Docs
    BY <1>2, <1>0, StepsOfRequests
  <2> QED
    BY <1>1, <1>2, <2>1 DEF EnqueueFails, ReplyLost, RequestDies
<1>3. ASSUME NEW j \in Jobs, DeferReplyLost(j) \/ StepFails(j) \/ FailLost(j) \/ TimesOut(j) \/ WorkerDies(j)
      PROVE  befell[d] \subseteq befell'[d]
  <2>1. jobs[j].doc \in Docs
    BY <1>3, <1>0, StepsOfJobs DEF HandlerStep
  <2> QED
    BY <1>1, <1>3, <2>1 DEF DeferReplyLost, StepFails, FailLost, TimesOut, WorkerDies
<1> QED
  BY <1>2, <1>3 DEF Next, HandlerStep, RequestStep, PersistBlob, AskReprocess, DeleteDocument, InsertDocument,
         Claim, Enqueue, RecordJob, GiveBack, LookForOthers, UnlinkBlob, UploadAgain, UnsetRole,
         DesignateRole, vars, JobStep, Take, RoleUnset, RoleSet, HoldRow, Defer, DeferReturns, DeferReplyLost,
         Load, Parse, FileMissing, Chunk, ChunkEmpty, InsertChunks, Settle, Count, Finish, Fail, FailJob,
         Moves

LEMMA CountedMoves ==
    ASSUME Typed, [Next]_vars, NEW d \in Docs
    PROVE  \/ counted'[d] = counted[d]
           \/ \E j \in Used : /\ Count(j) /\ jobs[j].doc = d /\ jobs[j].pc = "count"
                              /\ counted'[d] = counted[d] + 1 /\ jobs'[j].pc = "finish"
<1>0. Shape
  BY DEF Typed
<1>1. ASSUME NEW j \in Jobs, Count(j)
      PROVE  \/ counted'[d] = counted[d]
             \/ /\ j \in Used /\ jobs[j].doc = d /\ jobs[j].pc = "count"
                /\ counted'[d] = counted[d] + 1 /\ jobs'[j].pc = "finish"
  <2>1. j \in Used /\ jobs[j].pc = "count"
    BY <1>1 DEF Count, At
  <2>2. jobs'[j].pc = "finish" /\ jobs[j].doc \in Docs
    BY <1>1, <2>1, <1>0, MoveJob DEF Count, GoTo, Running
  <2> QED
    BY <1>1, <2>1, <2>2, <1>0 DEF Count, Shape
<1>2. (\E j \in Jobs : Count(j)) \/ counted' = counted
  BY DEF Next, HandlerStep, RequestStep, PersistBlob, AskReprocess, DeleteDocument, InsertDocument, Claim,
         Enqueue, RecordJob, GiveBack, LookForOthers, UnlinkBlob, EnqueueFails, ReplyLost, RequestDies,
         UploadAgain, UnsetRole, DesignateRole, vars, JobStep, Take, RoleUnset, RoleSet, HoldRow, Defer,
         DeferReturns, DeferReplyLost, Load, Parse, FileMissing, Chunk, ChunkEmpty, InsertChunks, Settle,
         Finish, Fail, FailJob, Moves, StepFails, FailLost, TimesOut, WorkerDies
<1> QED
  BY <1>1, <1>2
-----------------------------------------------------------------------------
(* Chunks: what is indexed is complete. *)

LEMMA StoredStep == Typed /\ Stored /\ [Next]_vars => Stored'
<1> SUFFICES ASSUME Typed, Stored, [Next]_vars PROVE Stored'
  OBVIOUS
<1>0. /\ Shape /\ Refers
      /\ \A j \in Used : jobs[j].doc \in Docs
  BY DEF Typed, Shape, Used, JobRecords
<1>1. ASSUME NEW d \in Docs, docs'[d] = "indexed" PROVE chunks'[d] = Parts
  <2>1. CASE docs[d] = "indexed"
    <3>1. chunks[d] = Parts
      BY <2>1 DEF Stored, IndexedIsComplete
    <3> QED
      BY <1>1, <3>1, ChunksMove DEF Parts
  <2>2. CASE docs[d] # "indexed"
    <3>1. PICK j \in Used : Settle(j) /\ jobs[j].doc = d /\ Exists(d)
      BY <1>1, <2>2, StatusMoves
    <3> QED
      BY <3>1 DEF Settle, Moves, At, Stored
  <2> QED
    BY <2>1, <2>2
<1>2. ASSUME NEW d \in Docs, "leaves" \in chunks'[d] PROVE "parents" \in chunks'[d]
  <2>1. ASSUME NEW j \in Used, jobs[j].doc = d, Exists(d), jobs[j].pc = "leaves"
        PROVE  "parents" \in chunks[d]
    BY <2>1 DEF Stored
  <2> QED
    BY <1>2, <2>1, ChunksMove DEF Stored
<1>3. ASSUME NEW j \in Used', Exists(jobs[j].doc)'
      PROVE  /\ jobs'[j].pc = "leaves" => "parents" \in chunks'[jobs'[j].doc]
             /\ jobs'[j].pc = "settle" => chunks'[jobs'[j].doc] = Parts
  <2>1. CASE j \in Used /\ jobs'[j].doc = jobs[j].doc
    <3> DEFINE d == jobs[j].doc
    <3>1. d \in Docs /\ Exists(d) /\ docs'[d] # "gone" /\ Exists(d)'
      BY <1>0, <1>3, <2>1, DocsGoOn DEF Refers, Exists
    <3>2. chunks[d] \subseteq chunks'[d] /\ chunks[d] \subseteq Parts
      <4>1. chunks[d] \subseteq Parts
        BY <1>0, <3>1 DEF Shape
      <4> QED
        BY <3>1, <4>1, ChunksMove
    <3>3. CASE jobs'[j] = jobs[j]
      <4>1. chunks'[d] \subseteq Parts
        BY <3>1, ShapeStep DEF Shape
      <4> QED
        BY <2>1, <3>1, <3>2, <3>3, <4>1 DEF Stored
    <3>4. CASE HandlerStep(j)
      <4>1. CASE InsertChunks(j, "parents", "leaves") /\ jobs'[j].pc = "leaves"
        <5>1. j \in Jobs /\ chunks'[d] = chunks[d] \cup {"parents"}
          BY <1>0, <3>1, <4>1 DEF InsertChunks, Inserts, Shape, Used, GoTo, JobRecords
        <5> QED
          BY <2>1, <4>1, <5>1
      <4>2. CASE InsertChunks(j, "leaves", "settle") /\ jobs'[j].pc = "settle"
        <5>1. jobs[j].pc = "leaves" /\ "parents" \in chunks[d]
          BY <2>1, <3>1, <4>2 DEF InsertChunks, At, Stored
        <5>2. chunks'[d] = chunks[d] \cup {"leaves"}
          BY <1>0, <3>1, <4>2 DEF InsertChunks, Inserts, Shape, Used, GoTo, JobRecords
        <5> QED
          BY <2>1, <3>2, <4>2, <5>1, <5>2 DEF Parts
      <4> QED
        BY <2>1, <3>4, <4>1, <4>2, PcMoves
    <3> QED
      BY <2>1, <3>3, <3>4, JobsMove
  <2> QED
    BY <2>1, JobsMove
<1> QED
  BY <1>1, <1>2, <1>3 DEF Stored, IndexedIsComplete

LEMMA InitStored == Init => Stored
<1> SUFFICES ASSUME Init PROVE Stored
  OBVIOUS
<1> QED
  BY DEF Init, Stored, IndexedIsComplete, Used, NoJob

\* A document that says it is indexed has all its chunks stored, however often its job
\* was interrupted, run again or met by another one, and whatever failed.
THEOREM IndexedComplete == Spec => []IndexedIsComplete
<1>1. Init => Typed /\ Stored
  BY InitTyped, InitStored
<1>2. Typed /\ Stored /\ [Next]_vars => Typed' /\ Stored'
  BY TypedStep, StoredStep
<1>3. Stored => IndexedIsComplete
  BY DEF Stored
<1> QED
  BY <1>1, <1>2, <1>3, PTL DEF Spec
-----------------------------------------------------------------------------
(* The counters. *)

LEMMA CountsStep == Typed /\ Stored /\ Counts /\ [Next]_vars => Counts'
<1> SUFFICES ASSUME Typed, Stored, Counts, [Next]_vars, NEW d \in Docs
             PROVE  /\ counted'[d] \in {0, 1}
                    /\ \A i, j \in Counting(d)' : i = j
                    /\ counted'[d] = 1 => Counting(d)' = {}
                    /\ counted'[d] = 1 \/ Counting(d)' # {} => "leaves" \in chunks'[d] \/ docs'[d] = "gone"
                    /\ Exists(d)' /\ "leaves" \in chunks'[d] /\ counted'[d] = 0 => Counting(d)' # {} \/ Broke(d)'
  BY DEF Counts
<1> DEFINE Enters(j) == /\ j \in Used /\ jobs[j].doc = d /\ jobs'[j].pc = "settle"
                        /\ InsertChunks(j, "leaves", "settle") /\ Exists(d) /\ "leaves" \notin chunks[d]
                        /\ "leaves" \in chunks'[d] /\ counted' = counted
<1>0. /\ Shape /\ Refers
      /\ \A j \in Used : j \in Jobs /\ jobs[j].doc \in Docs
  BY DEF Typed, Shape, Used, JobRecords
<1>1. /\ counted[d] \in {0, 1}
      /\ \A i, j \in Counting(d) : i = j
      /\ counted[d] = 1 => Counting(d) = {}
      /\ counted[d] = 1 \/ Counting(d) # {} => "leaves" \in chunks[d] \/ docs[d] = "gone"
      /\ Exists(d) /\ "leaves" \in chunks[d] /\ counted[d] = 0 => Counting(d) # {} \/ Broke(d)
  BY DEF Counts
<1>2. ASSUME NEW j \in Counting(d)' PROVE j \in Counting(d) \/ Enters(j)
  <2>1. j \in Used' /\ jobs'[j].doc = d /\ jobs'[j].pc \in {"settle", "count"}
    BY <1>2 DEF Counting, JobsOf
  <2>2. j \in Used /\ jobs[j].doc = d
    BY <2>1, JobsMove, JobsGoOn
  <2>3. CASE jobs'[j] = jobs[j]
    BY <2>1, <2>2, <2>3 DEF Counting, JobsOf
  <2>4. CASE Settle(j) /\ jobs[j].pc = "settle"
    BY <2>2, <2>4 DEF Counting, JobsOf
  <2>5. CASE InsertChunks(j, "leaves", "settle") /\ jobs'[j].pc = "settle" /\ jobs[j].pc = "leaves"
    <3>1. Inserts(d, "leaves") /\ chunks'[d] = chunks[d] \cup {"leaves"}
      <4>1. ~GoTo(j, "fail")
        BY <1>0, <2>2, <2>5, MoveJob DEF GoTo, Running
      <4> QED
        BY <1>0, <2>2, <2>5, <4>1 DEF InsertChunks, Shape
    <3> QED
      BY <2>1, <2>2, <2>5, <3>1 DEF Inserts, InsertChunks
  <2> QED
    BY <2>1, <2>2, <2>3, <2>4, <2>5, JobsMove, PcMoves
<1>3. ASSUME NEW j, Enters(j) PROVE Counting(d) = {} /\ counted[d] = 0 /\ Counting(d)' = {j}
  <2>1. Counting(d) = {} /\ counted[d] = 0
    BY <1>1, <1>3 DEF Exists
  <2>2. \A i \in Jobs : i # j => jobs'[i] = jobs[i]
    BY <1>0, <1>3, WorkMoves DEF HandlerStep, JobStep, Defers, Defer, DeferReplyLost, At, InsertChunks
  <2>3. j \in Counting(d)'
    BY <1>3, JobsGoOn DEF Counting, JobsOf
  <2>4. ASSUME NEW i \in Counting(d)' PROVE i = j
    <3>1. Enters(i)
      BY <1>2, <2>1, <2>4
    <3>2. jobs[i].pc = "leaves" /\ i \in Jobs /\ jobs'[i].pc = "settle"
      BY <3>1, <1>0 DEF InsertChunks, At
    <3> QED
      BY <2>2, <3>2
  <2> QED
    BY <2>1, <2>3, <2>4
<1>4. CASE \E j : Enters(j)
  BY <1>3, <1>4
<1>5. CASE ~ \E j : Enters(j)
  <2>1. Counting(d)' \subseteq Counting(d)
    BY <1>2, <1>5
  <2>2. counted'[d] \in {0, 1}
    BY <1>1, CountedMoves DEF Counting, JobsOf
  <2>3. counted'[d] = 1 => Counting(d)' = {}
    <3>1. CASE counted'[d] = counted[d]
      BY <1>1, <2>1, <3>1
    <3>2. ASSUME NEW j \in Used, jobs[j].doc = d, jobs[j].pc = "count", jobs'[j].pc = "finish"
          PROVE  Counting(d)' = {}
      <4>1. j \in Counting(d) /\ j \notin Counting(d)'
        BY <3>2 DEF Counting, JobsOf
      <4> QED
        BY <1>1, <2>1, <4>1
    <3> QED
      BY <3>1, <3>2, CountedMoves
  <2>4. counted'[d] = 1 \/ Counting(d)' # {} => "leaves" \in chunks'[d] \/ docs'[d] = "gone"
    <3>1. counted'[d] = 1 \/ Counting(d)' # {} => "leaves" \in chunks[d] \/ docs[d] = "gone"
      BY <1>1, <2>1, CountedMoves DEF Counting, JobsOf
    <3> QED
      BY <3>1, ChunksMove, DocsGoOn
  <2>5. ASSUME Exists(d)', "leaves" \in chunks'[d], counted'[d] = 0 PROVE Counting(d)' # {} \/ Broke(d)'
    <3>1. "leaves" \in chunks[d] /\ Exists(d)
      <4>1. ASSUME NEW j \in Used, InsertChunks(j, "leaves", "settle"), jobs[j].doc = d, Exists(d),
                   "leaves" \notin chunks[d], jobs'[j].pc = "settle"
            PROVE  Enters(j)
        BY <2>5, <4>1 DEF InsertChunks
      <4>2. "leaves" \in chunks[d]
        BY <1>5, <2>5, <4>1, ChunksMove
      <4> QED
        BY <1>0, <4>2 DEF Refers
    <3>2. counted[d] = 0
      BY <1>1, <2>5, CountedMoves
    <3>3. CASE Broke(d)
      BY <3>3, BefellGrows DEF Broke
    <3>4. ASSUME NEW j \in Counting(d) PROVE j \in Counting(d)' \/ Broke(d)'
      <4>1. j \in Used /\ j \in Used' /\ jobs[j].doc = d /\ jobs'[j].doc = d /\ jobs[j].pc \in {"settle", "count"}
        BY <3>4, JobsGoOn DEF Counting, JobsOf
      <4>2. CASE jobs'[j] = jobs[j]
        BY <4>1, <4>2 DEF Counting, JobsOf
      <4>3. CASE Settle(j) /\ jobs'[j].pc = "count"
        BY <4>1, <4>3 DEF Counting, JobsOf
      <4>4. CASE Count(j)
        BY <1>0, <2>5, <3>2, <4>1, <4>4 DEF Count, Shape
      <4> QED
        BY <4>1, <4>2, <4>3, <4>4, JobsMove, PcMoves DEF Broke
    <3> QED
      BY <1>1, <3>1, <3>2, <3>3, <3>4
  <2> QED
    BY <1>1, <2>1, <2>2, <2>3, <2>4, <2>5
<1> QED
  BY <1>4, <1>5

LEMMA InitCounts == Init => Counts
<1> SUFFICES ASSUME Init PROVE Counts
  OBVIOUS
<1>1. Used = {}
  BY DEF Init, Used
<1> QED
  BY <1>1 DEF Init, Counts, Counting, JobsOf

\* A document is counted once at most, and once no job is at it it is counted exactly
\* when its chunks are stored, unless a job was cut short or broke between its steps.
THEOREM CountersTruthful == Spec => []CountersTellTheTruth
<1>1. Init => Typed /\ Stored /\ Counts
  BY InitTyped, InitStored, InitCounts
<1>2. Typed /\ Stored /\ Counts /\ [Next]_vars => Typed' /\ Stored' /\ Counts'
  BY TypedStep, StoredStep, CountsStep
<1>3. Typed /\ Stored /\ Counts => CountersTellTheTruth
  <2> SUFFICES ASSUME Typed, Stored, Counts, NEW d \in Docs
               PROVE  /\ counted[d] <= 1
                      /\ Exists(d) /\ (\A j \in JobsOf(d) : ~Busy(j)) /\ ~Broke(d)
                           => (counted[d] = 1 <=> chunks[d] = Parts)
    BY DEF CountersTellTheTruth, Broke
  <2>1. counted[d] \in {0, 1} /\ chunks[d] \subseteq Parts
    BY DEF Counts, Typed, Shape
  <2>2. ASSUME Exists(d), \A j \in JobsOf(d) : ~Busy(j), ~Broke(d)
        PROVE  counted[d] = 1 <=> chunks[d] = Parts
    <3>1. Counting(d) = {}
      BY <2>2 DEF Counting, Busy, Running
    <3>2. counted[d] = 1 => "leaves" \in chunks[d] \/ docs[d] = "gone"
      BY DEF Counts
    <3>3. "leaves" \in chunks[d] /\ counted[d] = 0 => FALSE
      BY <2>2, <3>1 DEF Counts
    <3>4. "leaves" \in chunks[d] => "parents" \in chunks[d]
      BY DEF Stored
    <3>5. docs[d] # "gone"
      BY <2>2 DEF Exists
    <3> QED
      BY <2>1, <3>2, <3>3, <3>4, <3>5 DEF Parts
  <2> QED
    BY <2>1, <2>2
<1> QED
  BY <1>1, <1>2, <1>3, PTL DEF Spec
-----------------------------------------------------------------------------
(* One job at a time. *)

LEMMA NewJobs ==
    ASSUME Typed, [Next]_vars
    PROVE  Used' \subseteq Used \cup {NextJob}
<1>0. Shape /\ Numbered
  BY DEF Typed
<1>1. ASSUME NEW q \in Requests, Enqueue(q) \/ ReplyLost(q) PROVE Used' \subseteq Used \cup {NextJob}
  BY <1>0, <1>1, EnqueueMoves
<1>2. ASSUME NEW j \in Jobs, Defers(j) PROVE Used' \subseteq Used \cup {NextJob}
  BY <1>0, <1>2, DeferMoves
<1>3. ASSUME NEW j \in Jobs, HandlerStep(j), ~Defers(j)
      PROVE  Used' = Used
  BY <1>3, WorkMoves
<1>4. (~ \E q \in Requests : Enqueue(q) \/ ReplyLost(q)) /\ (~ \E i \in Jobs :
          HandlerStep(i)) => Used' = Used
  BY DEF Next, HandlerStep, RequestStep, PersistBlob, AskReprocess, DeleteDocument, InsertDocument, Claim,
         RecordJob, GiveBack, LookForOthers, UnlinkBlob, EnqueueFails, RequestDies, UploadAgain, UnsetRole,
         DesignateRole, vars, Used
<1> QED
  BY <1>1, <1>2, <1>3, <1>4

\* Who is about to enqueue a job for a document, after a step.
LEMMA EnqueuingMoves ==
    ASSUME Typed, [Next]_vars, NEW d \in Docs, NEW q \in Enqueuing(d)'
    PROVE  \/ q \in Enqueuing(d)
           \/ /\ docs[d] \in {"none", "failed"} /\ docs'[d] = "pending" /\ jobs' = jobs
              /\ \A p \in Requests : p # q => requests'[p] = requests[p]
<1>0. Shape /\ Inserting
  BY DEF Typed
<1>1. /\ q \in Requests /\ requests'[q].op \in {"upload", "reprocess"}
      /\ requests'[q].doc = d /\ requests'[q].pc \in {"enqueue", "giveback"}
  BY DEF Enqueuing
<1>2. CASE requests'[q] = requests[q]
  BY <1>1, <1>2 DEF Enqueuing
<1>3. CASE InsertDocument(q) /\ requests[q].doc = d
  <2>1. docs[d] = "none" /\ docs'[d] = "pending" /\ jobs' = jobs /\ requests[q].pc = "insert"
    BY <1>0, <1>1, <1>3 DEF InsertDocument, Inserting, Shape
  <2>2. \A p \in Requests : p # q => requests'[p] = requests[p]
    BY <1>0, <1>1, <1>3, MoveRequest DEF InsertDocument
  <2> QED
    BY <1>1, <2>1, <2>2
<1>4. CASE Claim(q) /\ requests[q].doc = d /\ docs[d] = "failed"
  <2>1. /\ SetStatus(d, "pending") /\ Request(q, "reprocess", d, "enqueue") /\ jobs' = jobs
        /\ requests[q].pc = "claim"
    BY <1>4 DEF Claim
  <2>2. docs'[d] = "pending"
    BY <1>0, <1>4, <2>1 DEF SetStatus, Exists, Shape
  <2>3. \A p \in Requests : p # q => requests'[p] = requests[p]
    BY <1>0, <1>1, <2>1, MoveRequest
  <2> QED
    BY <1>1, <1>4, <2>1, <2>2, <2>3
<1>5. CASE (EnqueueFails(q) \/ ReplyLost(q)) /\ requests[q].doc = d
  BY <1>1, <1>5 DEF EnqueueFails, ReplyLost, Enqueuing
<1>6. \/ requests'[q] = requests[q]
      \/ InsertDocument(q) /\ requests[q].doc = d
      \/ Claim(q) /\ requests[q].doc = d /\ docs[d] = "failed"
      \/ (EnqueueFails(q) \/ ReplyLost(q)) /\ requests[q].doc = d
  BY <1>1, RequestsGoOn DEF NoRequest
<1> QED
  BY <1>2, <1>3, <1>4, <1>5, <1>6

\* Who is at work on a document, after a step.
LEMMA BusyMoves ==
    ASSUME Typed, [Next]_vars, NEW d \in Docs, NEW j \in BusyJobs(d)'
    PROVE  \/ j \in BusyJobs(d)
           \/ j \notin Used /\ \E q \in Enqueuing(d) : Enqueue(q) /\ q \notin Enqueuing(d)'
           \/ j \notin Used /\ \E i \in BusyJobs(d) : Defer(i) /\ i \notin BusyJobs(d)'
           \/ Disturbed(d)'
<1>0. Shape /\ Numbered
  BY DEF Typed
<1>1. j \in Used' /\ jobs'[j].doc = d /\ jobs'[j].pc \in (Running \cup {"queued"}) \ {"leave", "failjob"}
  BY DEF BusyJobs, JobsOf, Busy
<1>2. CASE j \in Used /\ jobs'[j] = jobs[j]
  BY <1>1, <1>2 DEF BusyJobs, JobsOf, Busy
<1>3. CASE j \in Used /\ jobs'[j].doc = jobs[j].doc /\ HandlerStep(j)
  <2>1. \/ jobs[j].pc \in (Running \cup {"queued"}) \ {"leave", "failjob"}
        \/ jobs'[j].pc \in {"deferred", "failed", "cut"}
        \/ "worker_died" \in befell'[d]
    BY <1>1, <1>3, PcMoves DEF Running
  <2> QED
    BY <1>1, <1>3, <2>1 DEF BusyJobs, JobsOf, Busy, Running, Disturbed
<1>4. ASSUME NEW q \in Requests, Enqueue(q), requests[q].doc = d
      PROVE  q \in Enqueuing(d) /\ q \notin Enqueuing(d)'
  <2>1. requests'[q].pc = "record"
    BY <1>0, <1>4, EnqueueMoves
  <2> QED
    BY <1>4, <2>1 DEF Enqueue, Enqueuing
<1>5. ASSUME NEW q \in Requests, ReplyLost(q), requests[q].doc = d PROVE "reply_lost" \in befell'[d]
  BY <1>0, <1>5 DEF ReplyLost, Befalls, Shape
<1>6. ASSUME NEW i \in Used, Defers(i), jobs[i].doc = d
      PROVE  "reply_lost" \in befell'[d] \/ (Defer(i) /\ i \in BusyJobs(d) /\ i \notin BusyJobs(d)')
  <2>1. CASE Defer(i)
    <3>1. jobs[i].pc = "defer" /\ jobs'[i].pc = "leave"
      BY <1>0, <1>6, <2>1, DeferMoves DEF Used
    <3> QED
      BY <1>6, <2>1, <3>1 DEF BusyJobs, JobsOf, Busy, Running
  <2>2. CASE DeferReplyLost(i)
    BY <1>0, <1>6, <2>2 DEF DeferReplyLost, Befalls, Shape
  <2> QED
    BY <1>6, <2>1, <2>2 DEF Defers
<1> QED
  BY <1>1, <1>2, <1>3, <1>4, <1>5, <1>6, JobsMove DEF Disturbed

LEMMA AloneStep == Typed /\ Alone /\ [Next]_vars => Alone'
<1> SUFFICES ASSUME Typed, Alone, [Next]_vars, NEW d \in Docs, ~Disturbed(d)'
             PROVE  /\ \A i, j \in BusyJobs(d)' : i = j
                    /\ \A p, q \in Enqueuing(d)' : p = q
                    /\ BusyJobs(d)' = {} \/ Enqueuing(d)' = {}
                    /\ docs'[d] \in {"none", "failed"} => BusyJobs(d)' = {} /\ Enqueuing(d)' = {}
  BY DEF Alone
<1>0. Shape
  BY DEF Typed
<1>1. /\ \A i, j \in BusyJobs(d) : i = j
      /\ \A p, q \in Enqueuing(d) : p = q
      /\ BusyJobs(d) = {} \/ Enqueuing(d) = {}
      /\ docs[d] \in {"none", "failed"} => BusyJobs(d) = {} /\ Enqueuing(d) = {}
  BY BefellGrows DEF Alone, Disturbed
<1>2. CASE \E q \in Enqueuing(d)' : q \notin Enqueuing(d)
  <2>1. PICK q \in Enqueuing(d)' : /\ docs[d] \in {"none", "failed"} /\ docs'[d] = "pending" /\ jobs' = jobs
                                   /\ \A p \in Requests : p # q => requests'[p] = requests[p]
    BY <1>2, EnqueuingMoves
  <2>2. BusyJobs(d)' = {}
    BY <1>1, <2>1 DEF BusyJobs, JobsOf, Busy, Used
  <2>3. \A p \in Enqueuing(d)' : p = q
    BY <1>1, <2>1 DEF Enqueuing
  <2> QED
    BY <2>1, <2>2, <2>3
<1>3. CASE Enqueuing(d)' \subseteq Enqueuing(d)
  <2>1. ASSUME NEW j \in BusyJobs(d)', j \notin BusyJobs(d)
        PROVE  \/ BusyJobs(d) = {} /\ Enqueuing(d)' = {} /\ docs[d] \notin {"none", "failed"}
               \/ BusyJobs(d) \cap BusyJobs(d)' = {} /\ Enqueuing(d) = {} /\ BusyJobs(d) # {}
    BY <1>1, <1>3, <2>1, BusyMoves
  <2>2. ASSUME NEW i \in BusyJobs(d)', NEW j \in BusyJobs(d)', i \notin Used, j \notin Used PROVE i = j
    <3>1. i \in Used' /\ j \in Used' /\ i \in Jobs /\ j \in Jobs
      BY DEF BusyJobs, JobsOf, Used
    <3>2. Used' \subseteq Used \cup {NextJob}
      BY NewJobs
    <3> QED
      BY <2>2, <3>1, <3>2
  <2>3. \A j \in BusyJobs(d)' : j \notin BusyJobs(d) => j \notin Used
    BY BusyMoves
  <2>4. \A i, j \in BusyJobs(d)' : i = j
    BY <1>1, <2>1, <2>2, <2>3
  <2>5. BusyJobs(d)' = {} \/ Enqueuing(d)' = {}
    BY <1>1, <1>3, <2>1
  <2>6. docs'[d] \in {"none", "failed"} => BusyJobs(d)' = {} /\ Enqueuing(d)' = {}
    <3>1. CASE docs[d] \in {"none", "failed"}
      BY <1>1, <1>3, <2>1, <3>1
    <3>2. ASSUME NEW j \in Used, Fail(j) \/ ChunkEmpty(j), jobs[j].doc = d
          PROVE  BusyJobs(d)' = {} /\ Enqueuing(d)' = {}
      <4>1. j \in BusyJobs(d)
        BY <3>2 DEF Fail, ChunkEmpty, Moves, At, BusyJobs, JobsOf, Busy, Running
      <4>2. j \notin BusyJobs(d)'
        <5>1. jobs'[j].pc = "failjob"
          BY <1>0, <3>2, MoveJob DEF Fail, ChunkEmpty, Moves, GoTo, Running
        <5> QED
          BY <5>1 DEF BusyJobs, Busy
      <4>3. ASSUME NEW i \in BusyJobs(d)', i \notin BusyJobs(d) PROVE FALSE
        <5>1. Used' = Used
          BY <1>0, <3>2, MoveJob DEF Fail, ChunkEmpty, Moves, GoTo, Running
        <5> QED
          BY <2>3, <4>3, <5>1 DEF BusyJobs, JobsOf
      <4> QED
        BY <1>1, <1>3, <4>1, <4>2, <4>3
    <3>3. ASSUME NEW q \in Requests, GiveBack(q), q \in Enqueuing(d)
          PROVE  BusyJobs(d)' = {} /\ Enqueuing(d)' = {}
      <4>1. q \notin Enqueuing(d)'
        BY <1>0, <3>3, DropRequest DEF GiveBack, Enqueuing
      <4>2. BusyJobs(d)' = BusyJobs(d)
        BY <3>3 DEF GiveBack, BusyJobs, JobsOf, Busy, Used
      <4> QED
        BY <1>1, <1>3, <3>3, <4>1, <4>2
    <3>5. docs'[d] = "none" => docs[d] = "none"
      BY DocsGoOn
    <3> QED
      BY <3>1, <3>2, <3>3, <3>5, StatusMoves
  <2> QED
    BY <1>1, <1>3, <2>4, <2>5, <2>6
<1> QED
  BY <1>2, <1>3

LEMMA InitAlone == Init => Alone
<1> SUFFICES ASSUME Init PROVE Alone
  OBVIOUS
<1> QED
  BY DEF Init, Alone, BusyJobs, JobsOf, Used, Enqueuing, NoRequest

LEMMA AtMostOne ==
    ASSUME NEW S, \A x, y \in S : x = y
    PROVE  Cardinality(S) \in {0, 1} /\ (S = {} => Cardinality(S) = 0)
<1>1. CASE S = {}
  BY <1>1, FS_EmptySet
<1>2. ASSUME NEW x \in S PROVE Cardinality(S) = 1
  <2>1. S = {x}
    BY <1>2
  <2> QED
    BY <2>1, FS_Singleton
<1> QED
  BY <1>1, <1>2

\* No two jobs work on one document, nor does a request enqueue one beside another,
\* however uploads, reprocessing and deletions overlap: only a job that arq runs again,
\* or one enqueued without CSP knowing, may meet another.
THEOREM JobsTakeTurns == Spec => []OneJobAtATime
<1>1. Init => Typed /\ Alone
  BY InitTyped, InitAlone
<1>2. Typed /\ Alone /\ [Next]_vars => Typed' /\ Alone'
  BY TypedStep, AloneStep
<1>3. Alone => OneJobAtATime
  <2> SUFFICES ASSUME Alone, NEW d \in Docs, ~Disturbed(d)
               PROVE  Cardinality({j \in JobsOf(d) : Busy(j)})
                        + Cardinality({q \in Requests : requests[q].op \in {"upload", "reprocess"}
                              /\ requests[q].doc = d /\ requests[q].pc = "enqueue"}) <= 1
    BY DEF OneJobAtATime, Disturbed
  <2> DEFINE Asks == {q \in Requests : requests[q].op \in {"upload", "reprocess"}
                              /\ requests[q].doc = d /\ requests[q].pc = "enqueue"}
  <2>1. Asks \subseteq Enqueuing(d)
    BY DEF Enqueuing
  <2>2. Cardinality(BusyJobs(d)) \in {0, 1} /\ Cardinality(Asks) \in {0, 1}
          /\ (Cardinality(BusyJobs(d)) = 0 \/ Cardinality(Asks) = 0)
    BY <2>1, AtMostOne DEF Alone
  <2> QED
    BY <2>2 DEF BusyJobs
<1> QED
  BY <1>1, <1>2, <1>3, PTL DEF Spec
-----------------------------------------------------------------------------
(* An indexed document stays indexed. *)

LEMMA LeftStep == Typed /\ Alone /\ Left /\ [Next]_vars => Left'
<1> DEFINE Excused(d) == befell[d] \cap {"worker_died", "reply_lost", "step_failed"} # {}
<1> SUFFICES ASSUME Typed, Alone, Left, [Next]_vars, NEW d \in Docs, docs'[d] = "indexed", ~Excused(d)'
             PROVE  Enqueuing(d)' = {} /\ \A j \in BusyJobs(d)' : jobs'[j].pc \in {"count", "finish"}
  BY DEF Left
<1>0. Shape /\ ~Excused(d) /\ ~Disturbed(d)' /\ ~Disturbed(d)
  BY BefellGrows DEF Typed, Disturbed
<1>1. CASE docs[d] = "indexed"
  <2>1. Enqueuing(d) = {} /\ \A j \in BusyJobs(d) : jobs[j].pc \in {"count", "finish"}
    BY <1>0, <1>1 DEF Left
  <2>2. Enqueuing(d)' = {}
    BY <1>1, <2>1, EnqueuingMoves
  <2>3. ASSUME NEW j \in BusyJobs(d)' PROVE jobs'[j].pc \in {"count", "finish"}
    <3>1. j \in BusyJobs(d)
      <4>1. \A i \in BusyJobs(d) : ~Defer(i)
        BY <2>1 DEF Defer, At
      <4> QED
        BY <1>0, <2>1, <4>1, BusyMoves
    <3>2. j \in Used /\ j \in Used' /\ jobs[j].pc \in {"count", "finish"} /\ jobs[j].doc = d
      BY <2>1, <3>1, JobsGoOn DEF BusyJobs, JobsOf
    <3>3. jobs'[j].pc \in Running \cup {"queued"}
      BY DEF BusyJobs, Busy
    <3> QED
      BY <1>0, <3>2, <3>3, JobsMove, PcMoves DEF Running
  <2> QED
    BY <2>2, <2>3
<1>2. CASE docs[d] # "indexed"
  <2>1. PICK j \in Used : Settle(j) /\ jobs[j].doc = d
    BY <1>2, StatusMoves
  <2>2. j \in BusyJobs(d)
    BY <2>1 DEF Settle, Moves, At, BusyJobs, JobsOf, Busy, Running
  <2>3. Enqueuing(d) = {} /\ BusyJobs(d) = {j}
    BY <1>0, <2>2 DEF Alone
  <2>4. Enqueuing(d)' = {}
    BY <2>1, <2>3 DEF Settle, Moves, Enqueuing
  <2>5. jobs'[j].pc = "count" /\ Used' = Used
    BY <1>0, <2>1, MoveJob DEF Settle, Moves, GoTo, Running
  <2>6. BusyJobs(d)' \subseteq {j}
    BY <1>0, <2>3, <2>5, BusyMoves DEF BusyJobs, JobsOf
  <2> QED
    BY <2>4, <2>5, <2>6
<1> QED
  BY <1>1, <1>2

\* Unless somebody is left to do it, only a deletion takes the status back.
LEMMA IndexedKept ==
    ASSUME Typed, [Next]_vars, NEW d \in Docs, docs[d] = "indexed", Enqueuing(d) = {},
           \A j \in BusyJobs(d) : jobs[j].pc \in {"count", "finish"}
    PROVE  docs'[d] \in {"indexed", "gone"}
<1>0. Shape /\ Inserting
  BY DEF Typed
<1>1. ASSUME NEW e \in Docs, NEW s, SetStatus(e, s) PROVE e = d \/ docs'[d] = docs[d]
  BY <1>1, <1>0 DEF SetStatus, Shape
<1>2. ASSUME NEW q \in Requests, RequestStep(q) \/ EnqueueFails(q) \/ ReplyLost(q) \/ RequestDies(q)
      PROVE  docs'[d] = docs[d]
  <2>1. requests[q].doc \in Docs
    BY <1>0, <1>2, StepsOfRequests
  <2>2. CASE InsertDocument(q)
    BY <1>0, <2>1, <2>2 DEF InsertDocument, Inserting, Shape
  <2>3. CASE GiveBack(q)
    BY <1>1, <2>1, <2>3 DEF GiveBack, Enqueuing
  <2>4. CASE Claim(q)
    BY <1>1, <2>1, <2>4 DEF Claim
  <2> QED
    BY <1>2, <2>2, <2>3, <2>4 DEF RequestStep, Enqueue, RecordJob, LookForOthers, UnlinkBlob, EnqueueFails,
                                  ReplyLost, RequestDies
<1>3. ASSUME NEW j \in Jobs, HandlerStep(j) PROVE docs'[d] = docs[d]
  <2>1. j \in Used /\ jobs[j].doc \in Docs
    BY <1>0, <1>3, StepsOfJobs
  <2>2. ASSUME NEW from \in Running \ {"count", "finish", "leave", "failjob"}, NEW s, NEW to,
               Moves(j, from, s, to)
        PROVE  docs'[d] = docs[d]
    BY <2>1, <2>2, <1>1 DEF Moves, At, BusyJobs, JobsOf, Busy, Running
  <2> QED
    BY <1>3, <2>2 DEF HandlerStep, JobStep, Take, RoleUnset, RoleSet, HoldRow, Defer, DeferReturns,
           DeferReplyLost, Load, Parse, FileMissing, Chunk, ChunkEmpty, InsertChunks, Settle, Count, Finish,
           Fail, FailJob, StepFails, FailLost, TimesOut, WorkerDies, Running
<1>4. ASSUME NEW q \in Requests, NEW e \in Docs,
             PersistBlob(q, e) \/ AskReprocess(q, e) \/ DeleteDocument(q, e)
      PROVE  docs'[d] \in {docs[d], "gone"}
  BY <1>0, <1>4 DEF PersistBlob, AskReprocess, DeleteDocument, Shape
<1>5. (\E e \in Docs : UploadAgain(e)) \/ UnsetRole \/ DesignateRole \/ UNCHANGED vars => docs' = docs
  BY DEF UploadAgain, UnsetRole, DesignateRole, vars
<1> QED
  BY <1>2, <1>3, <1>4, <1>5 DEF Next, HandlerStep

LEMMA InitLeft == Init => Left
BY DEF Init, Left

\* An indexed document does not become unsearchable by itself: only a deletion, a job run
\* again, one enqueued unknowingly or a failure after the status was written takes the
\* status back.
THEOREM IndexedRemains == Spec => IndexedStays
<1>1. Init => Typed /\ Alone /\ Left
  BY InitTyped, InitAlone, InitLeft
<1>2. Typed /\ Alone /\ Left /\ [Next]_vars => Typed' /\ Alone' /\ Left'
  BY TypedStep, AloneStep, LeftStep
<1>3. Typed /\ Left /\ [Next]_vars =>
        [\A d \in Docs : docs[d] = "indexed" /\ docs'[d] # "indexed" =>
            \/ docs'[d] = "gone"
            \/ befell[d] \cap {"worker_died", "reply_lost", "step_failed"} # {}]_vars
  <2> SUFFICES ASSUME Typed, Left, [Next]_vars, NEW d \in Docs, docs[d] = "indexed", docs'[d] # "indexed",
                      befell[d] \cap {"worker_died", "reply_lost", "step_failed"} = {}
               PROVE  docs'[d] = "gone"
    OBVIOUS
  <2>1. Enqueuing(d) = {} /\ \A j \in BusyJobs(d) : jobs[j].pc \in {"count", "finish"}
    BY DEF Left
  <2> QED
    BY <2>1, IndexedKept
<1> QED
  BY <1>1, <1>2, <1>3, PTL DEF Spec, IndexedStays
-----------------------------------------------------------------------------
(* Job rows. *)

\* A row that succeeded is the last word on an indexed document; who is about to write
\* it has indexed it; a row that failed is that of a job that failed.
Agree ==
    /\ JobSettlesWithDocument
    /\ \A j \in Used :
         LET d == jobs[j].doc IN
         /\ rows[j] = "succeeded" =>
              Disturbed(d) \/ (docs[d] = "indexed" /\ BusyJobs(d) = {} /\ Enqueuing(d) = {})
         /\ jobs[j].pc \in {"count", "finish"} => Disturbed(d) \/ ~Exists(d) \/ docs[d] = "indexed"
         /\ jobs[j].pc = "failjob" /\ JobsOf(d) = {j} => docs[d] # "indexed"
         /\ rows[j] = "failed" => jobs[j].pc = "failed"

LEMMA UnsettledGrows == [Next]_vars => unsettled \subseteq unsettled'
<1>1. ASSUME NEW i \in Jobs, NEW s, TellsRow(i, s) \/ SettlesRow(i, s) PROVE unsettled \subseteq unsettled'
  BY <1>1 DEF TellsRow, SettlesRow
<1> QED
  BY <1>1 DEF Next, HandlerStep, RequestStep, PersistBlob, AskReprocess, DeleteDocument, InsertDocument, Claim,
         Enqueue, GiveBack, RecordJob, LookForOthers, UnlinkBlob, EnqueueFails, ReplyLost, RequestDies,
         UploadAgain, UnsetRole, DesignateRole, vars, JobStep, Take, RoleUnset, RoleSet, HoldRow, Defer,
         DeferReturns, DeferReplyLost, Load, Parse, FileMissing, Chunk, ChunkEmpty, InsertChunks, Settle, Count,
         Finish, Fail, FailJob, Moves, StepFails, FailLost, TimesOut, WorkerDies

\* A row left open.
LEMMA OpenRows ==
    ASSUME Typed, JobSettlesWithDocument, [Next]_vars, NEW j \in Used',
           jobs'[j].pc \in Ended, rows'[j] \in {"queued", "running"}
    PROVE  jobs'[j].pc \in {"deferred", "cut"} \/ j \in unsettled'
<1>0. Shape /\ j \in Jobs
  BY DEF Typed, Used
<1>1. ASSUME NEW q \in Requests, RecordJob(q), requests[q].job = j, Exists(requests[q].doc)
      PROVE  j \in unsettled'
  BY <1>1 DEF RecordJob
<1>2. CASE j \in Used /\ jobs'[j] = jobs[j]
  <2>1. CASE rows'[j] = rows[j]
    BY <1>2, <2>1, UnsettledGrows DEF JobSettlesWithDocument
  <2>2. ~Take(j) /\ ~HoldRow(j)
    BY <1>2 DEF Take, HoldRow, At, Ended
  <2> QED
    BY <1>0, <1>1, <1>2, <2>1, <2>2, RowsMove
<1>3. CASE j \in Used /\ HandlerStep(j)
  <2>1. CASE Finish(j)
    BY <1>0, <2>1 DEF Finish, SettlesRow, SetRow, Shape
  <2>2. CASE FailJob(j)
    BY <1>0, <2>2 DEF FailJob, SettlesRow, SetRow, Shape
  <2>3. CASE FailLost(j)
    BY <2>3 DEF FailLost
  <2> QED
    BY <1>3, <2>1, <2>2, <2>3, PcMoves DEF Ended
<1>4. CASE jobs'[j].pc = "queued"
  BY <1>4 DEF Ended
<1> QED
  BY <1>2, <1>3, <1>4, JobsMove

LEMMA AgreeStep == Typed /\ Alone /\ Agree /\ [Next]_vars => Agree'
<1> SUFFICES ASSUME Typed, Alone, Agree, [Next]_vars PROVE Agree'
  OBVIOUS
<1>0. Shape /\ Refers /\ JobSettlesWithDocument
  BY DEF Typed, Agree
<1>1. ASSUME NEW j \in Used', NEW d, d = jobs'[j].doc
      PROVE  /\ rows'[j] = "succeeded" =>
                  Disturbed(d)' \/ (docs'[d] = "indexed" /\ BusyJobs(d)' = {} /\ Enqueuing(d)' = {})
             /\ jobs'[j].pc \in {"count", "finish"} => Disturbed(d)' \/ ~Exists(d)' \/ docs'[d] = "indexed"
             /\ jobs'[j].pc = "failjob" /\ JobsOf(d)' = {j} => docs'[d] # "indexed"
             /\ rows'[j] = "failed" /\ JobsOf(d)' = {j} => docs'[d] # "indexed"
             /\ rows'[j] = "failed" => jobs'[j].pc = "failed"
  <2>0. j \in Jobs /\ d \in Docs
    BY <1>1, ShapeStep DEF Typed, Shape, Used, JobRecords
  <2>1. CASE j \notin Used
    <3>1. jobs'[j].pc = "queued"
      BY <2>1, JobsMove
    <3>2. rows[j] = "none"
      BY <1>0, <2>0, <2>1 DEF Refers
    <3>3. rows'[j] \notin {"succeeded", "failed"}
      BY <2>0, <3>2, RowsMove
    <3> QED
      BY <3>1, <3>3
  <2>2. CASE j \in Used
    <3>0. jobs[j].doc = d /\ j \in JobsOf(d)
      BY <1>1, <2>2, JobsGoOn DEF JobsOf
    <3>1. /\ rows[j] = "succeeded" =>
               Disturbed(d) \/ (docs[d] = "indexed" /\ BusyJobs(d) = {} /\ Enqueuing(d) = {})
          /\ jobs[j].pc \in {"count", "finish"} => Disturbed(d) \/ ~Exists(d) \/ docs[d] = "indexed"
          /\ jobs[j].pc = "failjob" /\ JobsOf(d) = {j} => docs[d] # "indexed"
          /\ rows[j] = "failed" /\ JobsOf(d) = {j} => docs[d] # "indexed"
          /\ rows[j] = "failed" => jobs[j].pc = "failed"
      BY <2>2, <3>0 DEF Agree, JobSettlesWithDocument
    <3>2. Disturbed(d) => Disturbed(d)'
      BY <2>0, BefellGrows DEF Disturbed
    <3>3. jobs'[j] = jobs[j] \/ HandlerStep(j)
      BY <2>2, JobsMove
    <3>4. ASSUME jobs[j].pc \in {"count", "finish"}, ~Disturbed(d), Exists(d)
          PROVE  /\ docs[d] = "indexed" /\ BusyJobs(d) = {j} /\ Enqueuing(d) = {}
                 /\ docs'[d] \in {"indexed", "gone"}
      <4>1. j \in BusyJobs(d)
        BY <3>0, <3>4 DEF BusyJobs, Busy, Running
      <4>2. docs[d] = "indexed" /\ BusyJobs(d) = {j} /\ Enqueuing(d) = {}
        BY <2>0, <3>1, <3>4, <4>1 DEF Alone
      <4> QED
        BY <2>0, <3>4, <4>2, IndexedKept
    <3>5. ASSUME rows'[j] = "succeeded", ~Disturbed(d)'
          PROVE  docs'[d] = "indexed" /\ BusyJobs(d)' = {} /\ Enqueuing(d)' = {}
      <4>1. Exists(d)'
        BY <1>1, <2>0, <3>5, RefersStep DEF Refers
      <4>2. CASE rows[j] = "succeeded"
        <5>1. docs[d] = "indexed" /\ BusyJobs(d) = {} /\ Enqueuing(d) = {}
          BY <3>1, <3>2, <3>5, <4>2
        <5>2. docs'[d] = "indexed"
          BY <2>0, <4>1, <5>1, IndexedKept DEF Exists
        <5>3. Enqueuing(d)' = {}
          BY <2>0, <5>1, EnqueuingMoves
        <5>4. BusyJobs(d)' = {}
          BY <2>0, <3>5, <5>1, BusyMoves
        <5> QED
          BY <5>2, <5>3, <5>4
      <4>3. CASE Finish(j)
        <5>1. jobs[j].pc = "finish" /\ ~Disturbed(d) /\ docs' = docs
          BY <3>2, <3>5, <4>3 DEF Finish, At
        <5>2. docs[d] = "indexed" /\ BusyJobs(d) = {j} /\ Enqueuing(d) = {}
          BY <3>4, <4>1, <5>1 DEF Exists
        <5>3. Enqueuing(d)' = {}
          BY <4>3, <5>2 DEF Finish, Enqueuing
        <5>4. jobs'[j].pc = "succeeded"
          BY <1>0, <2>2, <4>3, MoveJob DEF Finish, GoTo, Ended
        <5>5. j \notin BusyJobs(d)'
          BY <5>4 DEF BusyJobs, Busy, Running
        <5>6. BusyJobs(d)' \subseteq BusyJobs(d)
          BY <2>0, <3>5, <4>3, <5>2, BusyMoves DEF Finish, At, Defer
        <5> QED
          BY <5>1, <5>2, <5>3, <5>5, <5>6
      <4> QED
        BY <2>0, <3>5, <4>2, <4>3, RowsMove
    <3>6. ASSUME jobs'[j].pc \in {"count", "finish"}, ~Disturbed(d)', Exists(d)' PROVE docs'[d] = "indexed"
      <4>0. Exists(d)
        BY <1>0, <2>0, <2>2, <3>0, <3>6, DocsGoOn DEF Refers, Exists
      <4>1. CASE jobs[j].pc \in {"count", "finish"}
        BY <3>2, <3>4, <3>6, <4>0, <4>1 DEF Exists
      <4>2. CASE Settle(j)
        BY <1>0, <2>0, <3>0, <4>0, <4>2 DEF Settle, Moves, SetStatus, Shape
      <4> QED
        BY <2>2, <3>3, <3>6, <4>1, <4>2, PcMoves
    <3>7. ASSUME JobsOf(d)' = {j}, jobs'[j].pc = "failjob" \/ rows'[j] = "failed" PROVE docs'[d] # "indexed"
      <4>1. JobsOf(d) = {j}
        BY <3>0, <3>7, JobsGoOn DEF JobsOf
      <4>2. CASE Fail(j) \/ ChunkEmpty(j)
        BY <1>0, <2>0, <3>0, <4>2 DEF Fail, ChunkEmpty, Moves, SetStatus, Shape, Exists
      <4>3. CASE jobs[j].pc = "failjob" \/ rows[j] = "failed"
        <5>1. docs[d] # "indexed" /\ ~Settle(j)
          BY <3>1, <4>1, <4>3 DEF Settle, Moves, At
        <5>2. \A i \in Used : jobs[i].doc = d => i = j
          BY <4>1 DEF JobsOf
        <5> QED
          BY <2>0, <5>1, <5>2, StatusMoves
      <4>4. FailJob(j) => jobs[j].pc = "failjob"
        BY DEF FailJob, At
      <4> QED
        BY <2>0, <2>2, <3>3, <3>7, <4>2, <4>3, <4>4, RowsMove, PcMoves
    <3>8. ASSUME rows'[j] = "failed" PROVE jobs'[j].pc = "failed"
      <4>1. CASE FailJob(j)
        BY <1>0, <2>2, <4>1, MoveJob DEF FailJob, GoTo, Ended
      <4>2. CASE rows[j] = "failed"
        BY <2>2, <3>1, <3>3, <4>2, PcMoves DEF Running
      <4> QED
        BY <2>0, <3>8, <4>1, <4>2, RowsMove
    <3> QED
      BY <3>5, <3>6, <3>7, <3>8
  <2> QED
    BY <2>1, <2>2
<1>2. JobSettlesWithDocument'
  <2>1. ASSUME NEW j \in Used', rows'[j] = "succeeded"
        PROVE  docs'[jobs'[j].doc] = "indexed" \/ befell'[jobs'[j].doc] \cap {"worker_died", "reply_lost"} # {}
    BY <1>1, <2>1 DEF Disturbed
  <2>2. ASSUME NEW j \in Used', rows'[j] = "failed", JobsOf(jobs[j].doc)' = {j}
        PROVE  docs'[jobs'[j].doc] # "indexed"
    BY <1>1, <2>2
  <2> QED
    BY <1>0, <2>1, <2>2, OpenRows DEF JobSettlesWithDocument
<1> QED
  BY <1>1, <1>2 DEF Agree

LEMMA InitAgree == Init => Agree
BY DEF Init, Agree, JobSettlesWithDocument, Used

\* What a job's row says of its document is right: one that succeeded stands for an
\* indexed document, one that failed for a document that no later job indexed, and a row
\* is left open by a job that ended only for the reasons the property names.
THEOREM JobsSettle == Spec => []JobSettlesWithDocument
<1>1. Init => Typed /\ Alone /\ Agree
  BY InitTyped, InitAlone, InitAgree
<1>2. Typed /\ Alone /\ Agree /\ [Next]_vars => Typed' /\ Alone' /\ Agree'
  BY TypedStep, AloneStep, AgreeStep
<1>3. Agree => JobSettlesWithDocument
  BY DEF Agree
<1> QED
  BY <1>1, <1>2, <1>3, PTL DEF Spec
=============================================================================
