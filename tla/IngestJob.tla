----------------------------- MODULE IngestJob -----------------------------
(***************************************************************************)
(* How one document becomes searchable.  CSP stores the bytes, commits the *)
(* document's row, enqueues a job and then records the job                 *)
(* (services/csp/app/api/ingestion/documents.py); the worker's             *)
(* ingest_document parses, chunks, embeds and inserts, one transaction per *)
(* step, and writes down how it ended (services/ingestion-worker,          *)
(* handlers.py); arq runs a job again when its worker dies, and gives it   *)
(* up after job_timeout.                                                   *)
(*                                                                         *)
(* The documents here hold the same bytes in different collections: the    *)
(* upload directory is addressed by content, so they share one file.       *)
(***************************************************************************)
EXTENDS Naturals, FiniteSets

CONSTANTS
    Docs,           \* ids of ingestion_documents, each used once
    Failed,         \* those that an earlier job left failed, with nothing stored
    Requests,       \* requests of CSP, which may overlap
    MaxJobs,        \* bound on the arq jobs enqueued
    MaxTries,       \* arq's max_tries
    Faults,         \* what may go wrong in this instance, a subset of FaultNames
    MaxFaults       \* how often (a bound of the model)

FaultNames == {"enqueue_fails", "reply_lost", "request_dies", "step_fails", "status_lost",
               "row_lost", "times_out", "worker_dies", "role_unset"}

ASSUME IngestAssumption ==
    /\ MaxJobs \in Nat \ {0} /\ MaxTries \in Nat \ {0} /\ MaxFaults \in Nat
    /\ Faults \subseteq FaultNames /\ Failed \subseteq Docs /\ IsFiniteSet(Docs) /\ IsFiniteSet(Requests)

Jobs == 1..MaxJobs

VARIABLES
    docs,       \* ingestion_documents.status, or "none" before and "gone" after
    chunks,     \* which of its rows are in document_chunks
    counted,    \* how often the document was added to the collection's counters
    blob,       \* whether the shared file is in the upload directory
    role,       \* whether a platform embedding model is designated
    requests,   \* what each request is doing
    jobs,       \* the arq jobs and what their handler is doing
    rows,       \* ingestion_jobs.status per arq job, or "none"
    unsettled,  \* jobs whose row was inserted after they had ended, or whose last
                \* word on it got lost (history)
    befell,     \* what went wrong for a document (history)
    faults

vars == <<docs, chunks, counted, blob, role, requests, jobs, rows, unsettled, befell, faults>>

Working == {"pending", "parsing", "chunking", "embedding"}
Parts == {"parents", "leaves"}
Ended == {"succeeded", "failed", "deferred", "cut"}
Running == {"role", "hold", "defer", "leave", "load", "parse", "chunk", "parents", "leaves",
            "settle", "count", "finish", "fail", "failjob"}

Exists(d) == docs[d] \notin {"none", "gone"}
NoRequest == [op |-> "none", doc |-> "none", pc |-> "none", job |-> 0]
NoJob == [doc |-> "none", pc |-> "none", try |-> 0]
Used == {j \in Jobs : jobs[j] # NoJob}
NextJob == Cardinality(Used) + 1
JobsOf(d) == {j \in Used : jobs[j].doc = d}
\* The bound on jobs: one is begun only if every job already on its way has room too.
Asking == {q \in Requests : requests[q].pc \in {"insert", "claim", "enqueue"}}
Deferring == {j \in Used : jobs[j].pc \in {"hold", "defer"}}
RoomForJob == Cardinality(Used) + Cardinality(Asking) + Cardinality(Deferring) < MaxJobs

Init ==
    /\ docs = [d \in Docs |-> IF d \in Failed THEN "failed" ELSE "none"]
    /\ chunks = [d \in Docs |-> {}]
    /\ counted = [d \in Docs |-> 0]
    /\ blob = (Failed # {}) /\ role \in BOOLEAN
    /\ requests = [q \in Requests |-> NoRequest]
    /\ jobs = [j \in Jobs |-> NoJob]
    /\ rows = [j \in Jobs |-> "none"]
    /\ unsettled = {} /\ befell = [d \in Docs |-> {}] /\ faults = 0

Fault(f) == f \in Faults /\ faults < MaxFaults /\ faults' = faults + 1
Befalls(d, what) == befell' = [befell EXCEPT ![d] = @ \cup {what}]

\* An UPDATE of a row that a deletion has removed changes nothing.
SetStatus(d, status) == docs' = IF Exists(d) THEN [docs EXCEPT ![d] = status] ELSE docs

Request(q, op, d, pc) == requests' = [requests EXCEPT ![q] = [op |-> op, doc |-> d, pc |-> pc, job |-> 0]]
EndRequest(q) == requests' = [requests EXCEPT ![q] = NoRequest]
Queued(d) == [doc |-> d, pc |-> "queued", try |-> 1]

-----------------------------------------------------------------------------
(* CSP *)

\* upload_document: the bytes are on disk before the row is inserted.
PersistBlob(q, d) ==
    /\ requests[q] = NoRequest /\ docs[d] = "none" /\ RoomForJob
    /\ \A p \in Requests : requests[p].doc # d
    /\ blob' = TRUE
    /\ Request(q, "upload", d, "insert")
    /\ UNCHANGED <<docs, chunks, counted, role, jobs, rows, unsettled, befell, faults>>

InsertDocument(q) ==
    /\ requests[q].op = "upload" /\ requests[q].pc = "insert"
    /\ docs' = [docs EXCEPT ![requests[q].doc] = "pending"]
    /\ Request(q, "upload", requests[q].doc, "enqueue")
    /\ UNCHANGED <<chunks, counted, blob, role, jobs, rows, unsettled, befell, faults>>

\* The same bytes again into the same collection: the existing row is the answer.
UploadAgain(d) ==
    /\ Exists(d) /\ ~blob
    /\ blob' = TRUE
    /\ UNCHANGED <<docs, chunks, counted, role, requests, jobs, rows, unsettled, befell, faults>>

\* reprocess_document: the status is read, and only then claimed.
AskReprocess(q, d) ==
    /\ requests[q] = NoRequest /\ docs[d] = "failed" /\ RoomForJob
    /\ Request(q, "reprocess", d, "claim")
    /\ UNCHANGED <<docs, chunks, counted, blob, role, jobs, rows, unsettled, befell, faults>>

\* Mutant: the claim trusts the status read before.
ClaimUnchecked(q) ==
    /\ requests[q].op = "reprocess" /\ requests[q].pc = "claim"
    /\ SetStatus(requests[q].doc, "pending")
    /\ Request(q, "reprocess", requests[q].doc, "enqueue")
    /\ UNCHANGED <<chunks, counted, blob, role, jobs, rows, unsettled, befell, faults>>
\* The conditional UPDATE from failed to pending; otherwise the answer is 409.
Claim(q) ==
    /\ requests[q].op = "reprocess" /\ requests[q].pc = "claim"
    /\ LET d == requests[q].doc
       IN  \/ /\ docs[d] = "failed"
              /\ SetStatus(d, "pending")
              /\ Request(q, "reprocess", d, "enqueue")
           \/ docs[d] # "failed" /\ EndRequest(q) /\ UNCHANGED docs
    /\ UNCHANGED <<chunks, counted, blob, role, jobs, rows, unsettled, befell, faults>>

Enqueue(q) ==
    /\ requests[q].op \in {"upload", "reprocess"} /\ requests[q].pc = "enqueue"
    /\ jobs' = [jobs EXCEPT ![NextJob] = Queued(requests[q].doc)]
    /\ requests' = [requests EXCEPT ![q].pc = "record", ![q].job = NextJob]
    /\ UNCHANGED <<docs, chunks, counted, blob, role, rows, unsettled, befell, faults>>

EnqueueFails(q) ==
    /\ requests[q].op \in {"upload", "reprocess"} /\ requests[q].pc = "enqueue"
    /\ Fault("enqueue_fails")
    /\ IF requests[q].op = "upload" THEN Befalls(requests[q].doc, "unqueued") ELSE UNCHANGED befell
    /\ Request(q, requests[q].op, requests[q].doc, "giveback")
    /\ UNCHANGED <<docs, chunks, counted, blob, role, jobs, rows, unsettled>>

\* Redis took the job, but its answer did not arrive: the request knows no better.
ReplyLost(q) ==
    /\ requests[q].op \in {"upload", "reprocess"} /\ requests[q].pc = "enqueue"
    /\ Fault("reply_lost")
    /\ jobs' = [jobs EXCEPT ![NextJob] = Queued(requests[q].doc)]
    /\ Befalls(requests[q].doc, "reply_lost")
    /\ Request(q, requests[q].op, requests[q].doc, "giveback")
    /\ UNCHANGED <<docs, chunks, counted, blob, role, rows, unsettled>>

\* Mutant: reprocess leaves the document pending when it could not enqueue.
GiveBackNothing(q) ==
    /\ requests[q].op \in {"upload", "reprocess"} /\ requests[q].pc = "giveback"
    /\ EndRequest(q)
    /\ UNCHANGED <<docs, chunks, counted, blob, role, jobs, rows, unsettled, befell, faults>>
\* reprocess takes its claim back, whatever the status is by now; an upload does nothing.
GiveBack(q) ==
    /\ requests[q].op \in {"upload", "reprocess"} /\ requests[q].pc = "giveback"
    /\ IF requests[q].op = "reprocess" THEN SetStatus(requests[q].doc, "failed") ELSE UNCHANGED docs
    /\ EndRequest(q)
    /\ UNCHANGED <<chunks, counted, blob, role, jobs, rows, unsettled, befell, faults>>

\* The ingestion_jobs row follows the job; it refers to the document's row.
RecordJob(q) ==
    /\ requests[q].op \in {"upload", "reprocess"} /\ requests[q].pc = "record"
    /\ LET j == requests[q].job
       IN  IF Exists(requests[q].doc)
           THEN /\ rows' = [rows EXCEPT ![j] = "queued"]
                /\ unsettled' = IF jobs[j].pc \in Ended THEN unsettled \cup {j} ELSE unsettled
           ELSE UNCHANGED <<rows, unsettled>>
    /\ EndRequest(q)
    /\ UNCHANGED <<docs, chunks, counted, blob, role, jobs, befell, faults>>

\* The process that serves the request is killed.
RequestDies(q) ==
    /\ requests[q] # NoRequest /\ Fault("request_dies")
    /\ IF requests[q].pc \in {"enqueue", "giveback"}
       THEN Befalls(requests[q].doc, "unqueued") ELSE UNCHANGED befell
    /\ EndRequest(q)
    /\ UNCHANGED <<docs, chunks, counted, blob, role, jobs, rows, unsettled>>

\* Mutant: the job rows outlive their document.
RowsKept(d) == rows
RowsWithout(d) == [j \in Jobs |-> IF j \in JobsOf(d) THEN "none" ELSE rows[j]]

\* delete_document: the row goes, and by cascade its chunks and job rows.
DeleteDocument(q, d) ==
    /\ requests[q] = NoRequest /\ Exists(d)
    /\ docs' = [docs EXCEPT ![d] = "gone"]
    /\ chunks' = [chunks EXCEPT ![d] = {}]
    /\ rows' = RowsWithout(d)
    /\ Request(q, "delete", d, "look")
    /\ UNCHANGED <<counted, blob, role, jobs, unsettled, befell, faults>>

\* After the commit, other rows with the same bytes are counted,
LookForOthers(q) ==
    /\ requests[q].op = "delete" /\ requests[q].pc = "look"
    /\ IF \E d \in Docs : Exists(d)
       THEN EndRequest(q) ELSE Request(q, "delete", requests[q].doc, "unlink")
    /\ UNCHANGED <<docs, chunks, counted, blob, role, jobs, rows, unsettled, befell, faults>>

\* and the file goes if there were none.
UnlinkBlob(q) ==
    /\ requests[q].op = "delete" /\ requests[q].pc = "unlink"
    /\ blob' = FALSE
    /\ EndRequest(q)
    /\ UNCHANGED <<docs, chunks, counted, role, jobs, rows, unsettled, befell, faults>>

UnsetRole ==
    /\ role /\ Fault("role_unset")
    /\ role' = FALSE
    /\ UNCHANGED <<docs, chunks, counted, blob, requests, jobs, rows, unsettled, befell>>

DesignateRole ==
    /\ ~role
    /\ role' = TRUE
    /\ UNCHANGED <<docs, chunks, counted, blob, requests, jobs, rows, unsettled, befell, faults>>
-----------------------------------------------------------------------------
(* The worker: ingest_document, and what arq does around it. *)

At(j, pc) == j \in Used /\ jobs[j].pc = pc
GoTo(j, pc) == jobs' = [jobs EXCEPT ![j].pc = pc]
\* A step that only moves the document's status on.
Moves(j, from, status, to) ==
    /\ At(j, from)
    /\ SetStatus(jobs[j].doc, status)
    /\ GoTo(j, to)
    /\ UNCHANGED <<chunks, counted, blob, role, requests, rows, unsettled, befell, faults>>

\* _update_job and _record_job_failure: an UPDATE that fails is swallowed.
SetRow(j, status) == rows' = IF rows[j] = "none" THEN rows ELSE [rows EXCEPT ![j] = status]
TellsRow(j, status) ==
    \/ SetRow(j, status) /\ UNCHANGED <<unsettled, faults>>
    \/ Fault("row_lost") /\ UNCHANGED <<rows, unsettled>>
\* The same for the last UPDATE of a job.
SettlesRow(j, status) ==
    \/ SetRow(j, status) /\ UNCHANGED <<unsettled, faults>>
    \/ Fault("row_lost") /\ unsettled' = unsettled \cup {j} /\ UNCHANGED rows

Take(j) ==
    /\ At(j, "queued")
    /\ TellsRow(j, "running")
    /\ GoTo(j, "role")
    /\ UNCHANGED <<docs, chunks, counted, blob, role, requests, befell>>

\* Without a designated model the document waits; otherwise its row and file must be there.
RoleUnset(j) == ~role /\ RoomForJob /\ Moves(j, "role", "pending", "hold")
RoleSet(j) ==
    /\ At(j, "role") /\ role
    /\ GoTo(j, IF Exists(jobs[j].doc) /\ blob THEN "load" ELSE "fail")
    /\ UNCHANGED <<docs, chunks, counted, blob, role, requests, rows, unsettled, befell, faults>>

\* defer_ingest_until_embedding_role: the job's row waits,
HoldRow(j) ==
    /\ At(j, "hold")
    /\ TellsRow(j, "queued")
    /\ GoTo(j, "defer")
    /\ UNCHANGED <<docs, chunks, counted, blob, role, requests, befell>>

\* another job is enqueued, which has no ingestion_jobs row,
Defer(j) ==
    /\ At(j, "defer")
    /\ jobs' = [jobs EXCEPT ![j].pc = "leave", ![NextJob] = Queued(jobs[j].doc)]
    /\ UNCHANGED <<docs, chunks, counted, blob, role, requests, rows, unsettled, befell, faults>>

\* (if Redis takes it and its answer is lost, this handler fails the document)
DeferReplyLost(j) ==
    /\ At(j, "defer") /\ Fault("reply_lost")
    /\ jobs' = [jobs EXCEPT ![j].pc = "fail", ![NextJob] = Queued(jobs[j].doc)]
    /\ Befalls(jobs[j].doc, "reply_lost")
    /\ UNCHANGED <<docs, chunks, counted, blob, role, requests, rows, unsettled>>

\* and this job ends.
DeferReturns(j) ==
    /\ At(j, "leave")
    /\ GoTo(j, "deferred")
    /\ UNCHANGED <<docs, chunks, counted, blob, role, requests, rows, unsettled, befell, faults>>

Load(j) == Moves(j, "load", "parsing", "parse")
\* The file is opened only now.
Parse(j) == blob /\ Moves(j, "parse", "chunking", "chunk")
FileMissing(j) == ~blob /\ Moves(j, "parse", docs[jobs[j].doc], "fail")
\* Embedding changes nothing but time; if it fails, the step before "parents" failed.
Chunk(j) == Moves(j, "chunk", "embedding", "parents")

\* Mutant: an empty document is reported as indexed.
ChunkEmptyIndexed(j) == Moves(j, "chunk", "indexed", "failjob")
\* Mutant: the handler returns without settling the job's row.
ChunkEmptyReturns(j) == Moves(j, "chunk", "failed", "failed")
\* Nothing to index: the document fails, and the job's row with it, but nothing is raised.
ChunkEmpty(j) == Moves(j, "chunk", "failed", "failjob")

\* Mutant: a chunk that is already there is replaced.
InsertsOver(d, part) == Exists(d)
\* The document's row must exist, and (document_id, chunk_key) is unique.
Inserts(d, part) == Exists(d) /\ part \notin chunks[d]

\* add_parent_chunks and index_chunks, a transaction each.
InsertChunks(j, part, to) ==
    /\ At(j, part)
    /\ LET d == jobs[j].doc
       IN  \/ /\ Inserts(d, part)
              /\ chunks' = [chunks EXCEPT ![d] = @ \cup {part}]
              /\ GoTo(j, to)
           \/ ~Inserts(d, part) /\ GoTo(j, "fail") /\ UNCHANGED chunks
    /\ UNCHANGED <<docs, counted, blob, role, requests, rows, unsettled, befell, faults>>

Settle(j) == Moves(j, "settle", "indexed", "count")

Count(j) ==
    /\ At(j, "count")
    /\ counted' = [counted EXCEPT ![jobs[j].doc] = @ + 1]
    /\ GoTo(j, "finish")
    /\ UNCHANGED <<docs, chunks, blob, role, requests, rows, unsettled, befell, faults>>

Finish(j) ==
    /\ At(j, "finish")
    /\ SettlesRow(j, "succeeded")
    /\ GoTo(j, "succeeded")
    /\ UNCHANGED <<docs, chunks, counted, blob, role, requests, befell>>

\* A parser, the embedding service or the database fails.
StepFails(j) ==
    /\ j \in Used /\ jobs[j].pc \in Running \ {"leave", "finish", "fail", "failjob"}
    /\ Fault("step_fails")
    /\ GoTo(j, "fail")
    /\ Befalls(jobs[j].doc, "step_failed")
    /\ UNCHANGED <<docs, chunks, counted, blob, role, requests, rows, unsettled>>

Fail(j) == Moves(j, "fail", "failed", "failjob")

\* The status is not written: the exception leaves the handler before the job's row is told.
FailLost(j) ==
    /\ At(j, "fail") /\ Fault("status_lost")
    /\ GoTo(j, "failed")
    /\ unsettled' = unsettled \cup {j}
    /\ Befalls(jobs[j].doc, "status_lost")
    /\ UNCHANGED <<docs, chunks, counted, blob, role, requests, rows>>

\* _record_job_failure, and the exception goes to arq, which does not run the job again.
FailJob(j) ==
    /\ At(j, "failjob")
    /\ SettlesRow(j, "failed")
    /\ GoTo(j, "failed")
    /\ UNCHANGED <<docs, chunks, counted, blob, role, requests, befell>>

\* job_timeout cancels the handler, which does not catch it; arq does not run it again.
TimesOut(j) ==
    /\ j \in Used /\ jobs[j].pc \in Running /\ Fault("times_out")
    /\ GoTo(j, "cut")
    /\ Befalls(jobs[j].doc, "timed_out")
    /\ UNCHANGED <<docs, chunks, counted, blob, role, requests, rows, unsettled>>

\* The worker stops or dies: arq runs the job again, MaxTries times in all.
WorkerDies(j) ==
    /\ j \in Used /\ jobs[j].pc \in Running /\ Fault("worker_dies")
    /\ IF jobs[j].try < MaxTries
       THEN /\ jobs' = [jobs EXCEPT ![j].pc = "queued", ![j].try = @ + 1]
            /\ Befalls(jobs[j].doc, "worker_died")
       ELSE GoTo(j, "cut") /\ Befalls(jobs[j].doc, "tries_used")
    /\ UNCHANGED <<docs, chunks, counted, blob, role, requests, rows, unsettled>>
-----------------------------------------------------------------------------
RequestStep(q) ==
    \/ InsertDocument(q) \/ Claim(q) \/ Enqueue(q) \/ GiveBack(q) \/ RecordJob(q)
    \/ LookForOthers(q) \/ UnlinkBlob(q)

JobStep(j) ==
    \/ Take(j) \/ RoleUnset(j) \/ RoleSet(j) \/ HoldRow(j) \/ Defer(j) \/ DeferReturns(j)
    \/ Load(j) \/ Parse(j) \/ FileMissing(j) \/ Chunk(j) \/ ChunkEmpty(j)
    \/ InsertChunks(j, "parents", "leaves") \/ InsertChunks(j, "leaves", "settle")
    \/ Settle(j) \/ Count(j) \/ Finish(j) \/ Fail(j) \/ FailJob(j)

Next ==
    \/ \E q \in Requests :
          \/ RequestStep(q) \/ EnqueueFails(q) \/ ReplyLost(q) \/ RequestDies(q)
          \/ \E d \in Docs : PersistBlob(q, d) \/ AskReprocess(q, d) \/ DeleteDocument(q, d)
    \/ \E d \in Docs : UploadAgain(d)
    \/ UnsetRole \/ DesignateRole
    \/ \E j \in Jobs :
          \/ JobStep(j) \/ DeferReplyLost(j) \/ StepFails(j) \/ FailLost(j)
          \/ TimesOut(j) \/ WorkerDies(j)

Spec == Init /\ [][Next]_vars

\* Requests go on, arq takes what is queued, handlers go on, and the operator
\* designates a model sooner or later.
Progress ==
    \/ DesignateRole
    \/ \E q \in Requests : RequestStep(q)
    \/ \E j \in Jobs : JobStep(j)

\* It is enough that something of this goes on: each can happen a bounded number of
\* times, so that none can keep another waiting for ever.
FairSpec == Spec /\ WF_vars(Progress)
-----------------------------------------------------------------------------
\* Types; and what refers to a document goes with it: chunks and job rows never
\* outlive its row, though a worker may still be writing.
TypeOK ==
    /\ docs \in [Docs -> {"none", "indexed", "failed", "gone"} \cup Working]
    /\ chunks \in [Docs -> SUBSET Parts]
    /\ \A d \in Docs : ~Exists(d) => chunks[d] = {}
    /\ Used = 1..Cardinality(Used)
    /\ \A j \in Used : /\ jobs[j].doc \in Docs /\ jobs[j].try \in 1..MaxTries
                       /\ jobs[j].pc \in Running \cup Ended \cup {"queued"}
    /\ rows \in [Jobs -> {"none", "queued", "running", "succeeded", "failed"}]
    /\ \A j \in Jobs : rows[j] # "none" => j \in Used /\ Exists(jobs[j].doc)

\* A document that says it is indexed can be found: all its chunks are stored,
\* however often its job was interrupted and run again.
IndexedIsComplete == \A d \in Docs : docs[d] = "indexed" => chunks[d] = Parts

Busy(j) == jobs[j].pc \in (Running \cup {"queued"}) \ {"leave", "failjob"}

\* The counters of a collection count a document once at most, and once no job is at
\* it exactly when its chunks are stored, unless its job was cut short or broke.
CountersTellTheTruth ==
    \A d \in Docs :
        /\ counted[d] <= 1
        /\ Exists(d) /\ (\A j \in JobsOf(d) : ~Busy(j)) /\ befell[d] \cap
               {"timed_out", "worker_died", "tries_used", "step_failed"} = {}
           => (counted[d] = 1 <=> chunks[d] = Parts)

\* No two jobs work on one document, nor is one about to be enqueued beside another
\* (reprocess_document refuses "避免同一檔並行兩個 job"); only a job that arq runs
\* again or that was enqueued without CSP knowing may meet another.
OneJobAtATime ==
    \A d \in Docs :
        \/ Cardinality({j \in JobsOf(d) : Busy(j)})
             + Cardinality({q \in Requests : requests[q].op \in {"upload", "reprocess"}
                              /\ requests[q].doc = d /\ requests[q].pc = "enqueue"}) <= 1
        \/ befell[d] \cap {"worker_died", "reply_lost"} # {}

\* The row a user watches and the document agree.  A row that succeeded stands for an
\* indexed document, one that failed for a document that no later job has indexed.  A row
\* left open though its job has ended makes its uploader watch a spinner until the stream
\* gives up (handlers.py:1383-1392); the code leaves it so if the job was deferred or cut,
\* if the row was inserted later (although documents.py:352-354 sees no race), or if the
\* last UPDATE of row or document failed, and in no other case.
JobSettlesWithDocument ==
    \A j \in Used :
        LET d == jobs[j].doc IN
        /\ rows[j] = "succeeded" =>
              docs[d] = "indexed" \/ befell[d] \cap {"worker_died", "reply_lost"} # {}
        /\ rows[j] = "failed" /\ JobsOf(d) = {j} => docs[d] # "indexed"
        /\ rows[j] \in {"queued", "running"} /\ jobs[j].pc \in Ended =>
              jobs[j].pc \in {"deferred", "cut"} \/ j \in unsettled

\* An indexed document does not become unsearchable by itself: only a deletion, a
\* job run again, one enqueued unknowingly, or a failure after the status was
\* written takes the status back.
IndexedStays ==
    [][\A d \in Docs : docs[d] = "indexed" /\ docs'[d] # "indexed" =>
         \/ docs'[d] = "gone"
         \/ befell[d] \cap {"worker_died", "reply_lost", "step_failed"} # {}]_vars

\* A document does not stay in progress: it is indexed or fails, unless it was left
\* without a job, its job timed out, arq gave the job up, or the handler could not even
\* write that it failed (handlers.py:1644, 1660; arq does not run the job again).
DocumentsSettle ==
    \A d \in Docs : docs[d] \in Working ~>
        docs[d] \notin Working \/ befell[d] \cap {"unqueued", "timed_out", "tries_used", "status_lost"} # {}
=============================================================================
