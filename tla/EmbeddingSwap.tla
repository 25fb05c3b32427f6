---------------------------- MODULE EmbeddingSwap ----------------------------
(***************************************************************************)
(* Blue-green replacement of the platform embedding model.  CSP requests   *)
(* (designate, unset, retry, rollback), the daily purge, the worker's      *)
(* rebuild pass and the worker's document ingestion share one              *)
(* embedding_activation row, the role flag in model_registry, the side     *)
(* table embedding_vectors and embedding_rebuild_failures.                 *)
(*                                                                         *)
(* CSP reads the activation row, computes and commits under READ COMMITTED *)
(* without a row lock: a commit writes only the columns that differ from   *)
(* what the transaction read.  The worker writes with conditional UPDATEs. *)
(* Serialised = TRUE is the instance in which nobody else commits between  *)
(* the read of a console request and its commit.  The purge, the uploads   *)
(* and the pass overlap with everything in both instances.                 *)
(***************************************************************************)
EXTENDS SwapPlans, FiniteSets

CONSTANTS
    Rows,        \* embeddable rows: the leaf chunk of one document each
    FirstModel,  \* the embedding model with the smallest id
    FailLimit,   \* PERMANENT_FAILURES
    BatchSize,   \* _BATCH
    MaxJobs,     \* bound on rebuild jobs waiting in Redis
    Starts,      \* deployments to begin from: "fresh", "serving", "migrated"
    Events,      \* what may happen in this instance, a subset of EventNames
    Serialised

EventNames ==
    {"designate", "unset", "rollback", "retry", "purge", "ingest",
     "csp_dies", "enqueue_fails", "embed_fails", "slot_skipped",
     "budget", "pass_dies", "lock_skipped"}

ASSUME FirstModelAssumption == FirstModel \in Models
ASSUME FailLimitAssumption == FailLimit \in Nat \ {0}
ASSUME BatchSizeAssumption == BatchSize \in Nat \ {0}
ASSUME MaxJobsAssumption == MaxJobs \in Nat \ {0}
ASSUME EventsAssumption == Events \subseteq EventNames
ASSUME SerialisedAssumption == Serialised \in BOOLEAN
ASSUME RowsAssumption == IsFiniteSet(Rows)

VARIABLES
    role,     \* the model flagged is_platform_embedding
    act,      \* the embedding_activation row
    age,      \* whole days since switched_at, up to Retention
    corpus,   \* ingestion_collections.embedding_model of the collection
    stored,   \* rows in document_chunks
    vectors,  \* <<row, model>> pairs in embedding_vectors
    fails,    \* embedding_rebuild_failures.attempts, up to FailLimit
    writer,   \* one ingest_document job per row
    request,  \* the console request in flight
    purge,    \* the model whose vectors the daily purge is deleting, else None
    pass,     \* the rebuild pass that holds the advisory lock
    jobs,     \* rebuild_embeddings jobs in the arq queue
    astray    \* history: the last job of an open rebuild was lost

queue == <<jobs, astray>>
console == <<role, act, age, corpus>>
corpusVars == <<stored, vectors, fails>>
vars == <<role, act, age, corpus, stored, vectors, fails,
          writer, request, purge, pass, jobs, astray>>

Can(event) == event \in Events

-----------------------------------------------------------------------------
(* What the queries of the code see.                                        *)

HasVectorOfAnyModel(r, m) == \E n \in Models : <<r, n>> \in vectors
HasVector(r, m) == <<r, m>> \in vectors
GaveUp(r, m) == fails[r][m] >= FailLimit

(* leaf_predicate and its users: rows counted in total, rows counted in     *)
(* done, rows a batch may take.                                             *)
Embeddable(m) == {r \in stored : ~GaveUp(r, m)}
Embedded(m) == {r \in Embeddable(m) : HasVector(r, m)}
Missing(m) == {r \in Embeddable(m) : ~HasVector(r, m)}

(* _vectors_remain, for every model.                                        *)
Full == {m \in Models : \E r \in Rows : HasVector(r, m)}

(* rebuild_open; _still_open; an open rebuild that no pass is working on.   *)
RebuildOpen == act.status \in Open /\ act.target # None
StillOpen == act.status \in Open /\ act.target = pass.target
Unattended == RebuildOpen /\ ~(pass.pc \notin {"idle", "leaving"} /\ StillOpen)

(* search_model.                                                            *)
ServingModel == IF act.active # None THEN act.active ELSE role

(* collect_chunk_hits: the vector path, the keyword supplement for rows     *)
(* given up on, and the keyword path of a corpus without any vector.        *)
Findable(r) ==
    /\ r \in stored
    /\ \/ HasVector(r, ServingModel)
       \/ GaveUp(r, ServingModel)
       \/ \A s \in stored : ~HasVector(s, ServingModel)

(* What a CSP transaction has read when it commits, and what it writes.     *)
Sight == [act |-> act, full |-> Full]
NoSight == [act |-> [active |-> None, previous |-> None,
                     target |-> None, status |-> "none"],
            full |-> {}]
Remembered == IF Serialised THEN NoSight ELSE Sight
View(seen) == IF Serialised THEN Sight ELSE seen
Merge(old, new, current) == IF new = old THEN current ELSE new
Write(seen, new) ==
    [active   |-> Merge(seen.act.active, new.active, act.active),
     previous |-> Merge(seen.act.previous, new.previous, act.previous),
     target   |-> Merge(seen.act.target, new.target, act.target),
     status   |-> Merge(seen.act.status, new.status, act.status)]

-----------------------------------------------------------------------------
Request(op, pc, seen) ==
    [op |-> op, pc |-> pc, target |-> None, prev |-> None, seen |-> seen]
NoRequest == Request("none", "idle", NoSight)

(* swept and undone are history: the rows the last sweep found covered, and *)
(* those whose vector or failure note somebody has taken away since.        *)
Pass(pc, target, batch, swept) ==
    [pc |-> pc, target |-> target, batch |-> batch, swept |-> swept,
     undone |-> {}, total |-> 0, done |-> 0]
NoPass == Pass("idle", None, {}, {})
Leaving == Pass("leaving", None, {}, {})
TakenFromPass(m, rows) ==
    [pass EXCEPT !.undone = IF m = pass.target THEN @ \union rows ELSE @]

NoWriter == [pc |-> "waiting", column |-> None, slots |-> {}, left |-> {}]

(* A new platform; one that serves FirstModel; and one that upgrades        *)
(* through migration r1_0059 while another model holds the role.            *)
InitialPlatform(start) ==
    \/ /\ start = "fresh"
       /\ role = None
       /\ act = NoSight.act
       /\ corpus = None
       /\ stored = {}
       /\ vectors = {}
    \/ /\ start = "serving"
       /\ role = FirstModel
       /\ act = [active |-> FirstModel, previous |-> None,
                 target |-> None, status |-> "none"]
       /\ corpus = FirstModel
       /\ stored \in SUBSET Rows
       /\ vectors = stored \X {FirstModel}
    \/ /\ start = "migrated"
       /\ role \in Models \ {FirstModel}
       /\ act = [active |-> FirstModel, previous |-> None,
                 target |-> role, status |-> "pending"]
       /\ corpus = FirstModel
       /\ stored \in SUBSET Rows \ {{}}
       /\ vectors = stored \X {FirstModel}

Init ==
    /\ \E start \in Starts : InitialPlatform(start)
    /\ age = 0
    /\ fails = [r \in Rows |-> [m \in Models |-> 0]]
    /\ writer = [r \in Rows |->
           IF r \in stored
           THEN [pc |-> "slots", column |-> FirstModel,
                 slots |-> {FirstModel}, left |-> {}]
           ELSE NoWriter]
    /\ request = NoRequest
    /\ purge = None
    /\ pass = NoPass
    /\ jobs = 0
    /\ astray = FALSE

-----------------------------------------------------------------------------
(* The console: set_platform_embedding commits the role flag, then in a     *)
(* second transaction note_designation, then enqueues the rebuild.          *)

BeginDesignate(m) ==
    /\ Can("designate")
    /\ request.pc = "idle"
    /\ role' = m
    /\ request' = [op |-> "designate", pc |-> "flagged", target |-> m,
                    prev |-> IF role # None THEN role ELSE FirstModel,
                    seen |-> NoSight]
    /\ UNCHANGED <<act, age, corpus, corpusVars, writer, purge, pass, queue>>

ReadForDesignationForgetful ==
    /\ request.pc = "flagged"
    /\ request' = [op |-> request.op, pc |-> "commit", target |-> None,
                    prev |-> request.prev, seen |-> [Remembered EXCEPT !.full = {}]]
    /\ UNCHANGED <<console, corpusVars, writer, purge, pass, queue>>

ReadForDesignation ==
    /\ request.pc = "flagged"
    /\ request' = [op |-> request.op, pc |-> "commit", target |-> request.target,
                    prev |-> request.prev, seen |-> [Remembered EXCEPT !.full = {}]]
    /\ UNCHANGED <<console, corpusVars, writer, purge, pass, queue>>

(* keep_model_id: the corpus model, else the model designated before.       *)
Keep ==
    LET others == {corpus, request.prev} \ {None, request.target}
    IN  IF corpus \in others THEN corpus
        ELSE IF request.prev \in others THEN request.prev ELSE None

NoteDesignationOnly ==
    /\ request.op = "designate" /\ request.pc = "commit"
    /\ LET seen == View(request.seen)
       IN  act' = Write(seen, PlanDesignation(seen.act, request.target, Keep))
    /\ request' = NoRequest
    /\ UNCHANGED <<role, age, corpus, corpusVars, writer, purge, pass, queue>>

NoteDesignation ==
    /\ request.op = "designate" /\ request.pc = "commit"
    /\ LET seen == View(request.seen)
           new == PlanDesignation(seen.act, request.target, Keep)
       IN  /\ act' = Write(seen, new)
           /\ request' = IF new.status \in Open
                         THEN Request("designate", "enqueue", NoSight)
                         ELSE NoRequest
    /\ UNCHANGED <<role, age, corpus, corpusVars, writer, purge, pass, queue>>

Unset ==
    /\ Can("unset")
    /\ request.pc = "idle"
    /\ role # None
    /\ role' = None
    /\ UNCHANGED <<act, age, corpus, corpusVars, writer, request, purge, pass, queue>>

(* retry_unembeddable and rollback read the row first.                      *)
BeginRequest(op) ==
    /\ Can(op)
    /\ request.pc = "idle"
    /\ request' = Request(op, "commit", Remembered)
    /\ UNCHANGED <<console, corpusVars, writer, purge, pass, queue>>

RetryModel(row) == IF row.target # None THEN row.target ELSE row.active

RetryStateWithoutTarget(row) ==
    IF row.status \in Open THEN row
    ELSE [active |-> row.active, previous |-> row.previous,
          target |-> row.target, status |-> "pending"]

RetryState(row) ==
    IF row.status \in Open THEN row
    ELSE [active |-> row.active, previous |-> row.previous,
          target |-> RetryModel(row), status |-> "pending"]

CommitRetry ==
    /\ request.op = "retry" /\ request.pc = "commit"
    /\ LET seen == View(request.seen)
           m == RetryModel(seen.act)
           new == RetryState(seen.act)
       IN  /\ m # None
           /\ act' = Write(seen, new)
           /\ fails' = [r \in Rows |-> [n \in Models |->
                  IF n = m /\ GaveUp(r, n) THEN 0 ELSE fails[r][n]]]
           /\ pass' = TakenFromPass(m, {r \in Rows : GaveUp(r, m)})
    /\ request' = Request("retry", "enqueue", NoSight)
    /\ UNCHANGED <<role, age, corpus, stored, vectors, writer, purge, queue>>

CommitRollback ==
    /\ request.op = "rollback" /\ request.pc = "commit"
    /\ LET seen == View(request.seen)
           new == RollbackState(seen.act)
       IN  /\ CancelsRebuild(seen.act) \/ SwapsBack(seen.act, seen.full)
           /\ act' = Write(seen, new)
           /\ role' = new.active
           /\ age' = IF SwapsBack(seen.act, seen.full) THEN 0 ELSE age
    /\ request' = NoRequest
    /\ UNCHANGED <<corpus, corpusVars, writer, purge, pass, queue>>

(* The ValueErrors of retry and rollback: answered 400, nothing written.    *)
Refused ==
    /\ request.pc = "commit"
    /\ LET seen == View(request.seen)
       IN  \/ request.op = "retry" /\ RetryModel(seen.act) = None
           \/ /\ request.op = "rollback"
              /\ ~CancelsRebuild(seen.act)
              /\ ~SwapsBack(seen.act, seen.full)
    /\ request' = NoRequest
    /\ UNCHANGED <<console, corpusVars, writer, purge, pass, queue>>

(* enqueue_rebuild, tried once; its failure is only logged.                 *)
Enqueue ==
    /\ request.pc = "enqueue"
    /\ jobs < MaxJobs
    /\ request' = NoRequest
    /\ \/ jobs' = jobs + 1
       \/ Can("enqueue_fails") /\ UNCHANGED jobs
    /\ astray' = (jobs' = 0 /\ (astray \/ Unattended))
    /\ UNCHANGED <<console, corpusVars, writer, purge, pass>>

(* The CSP process dies between two transactions of a request.              *)
CspDies ==
    /\ Can("csp_dies")
    /\ request.pc # "idle"
    /\ request' = NoRequest
    /\ astray' = (astray \/ (request.pc = "enqueue" /\ jobs = 0 /\ Unattended))
    /\ UNCHANGED <<console, corpusVars, writer, purge, pass, jobs>>

-----------------------------------------------------------------------------
(* purge_expired, once a day: it chooses a model from the row it reads, and *)
(* deletes that model's vectors whatever has been committed since.          *)

DayPasses ==
    /\ Can("purge")
    /\ age < Retention
    /\ age' = age + 1
    /\ UNCHANGED <<role, act, corpus, corpusVars, writer, request, purge, pass, queue>>

PurgeRead ==
    /\ Can("purge")
    /\ purge = None
    /\ CleanupModel(act, age) # None
    /\ purge' = CleanupModel(act, age)
    /\ UNCHANGED <<console, corpusVars, writer, request, pass, queue>>

DeleteModelVectors(m) ==
    /\ vectors' = {p \in vectors : p[2] # m}
    /\ fails' = [r \in Rows |-> [n \in Models |->
           IF n = m THEN 0 ELSE fails[r][n]]]
    /\ pass' = TakenFromPass(m, Rows)

PurgeKeepsThePrevious ==
    /\ purge # None
    /\ DeleteModelVectors(purge)
    /\ purge' = None
    /\ UNCHANGED <<role, act, age, corpus, stored, writer, request, queue>>

PurgeCommit ==
    /\ purge # None
    /\ DeleteModelVectors(purge)
    /\ act' = [act EXCEPT !.previous = None]
    /\ purge' = None
    /\ UNCHANGED <<role, age, corpus, stored, writer, request, queue>>

-----------------------------------------------------------------------------
(* ingest_document.  The plan is read once; the embedding that follows is   *)
(* slow; the chunks are committed before their side-table vectors.          *)

StartIngest(r) ==
    /\ Can("ingest")
    /\ writer[r].pc = "waiting"
    /\ role # None
    /\ corpus' = IF corpus = None THEN role ELSE corpus
    /\ writer' = [writer EXCEPT ![r] =
           [pc |-> "parsing", column |-> role, slots |-> {}, left |-> {}]]
    /\ UNCHANGED <<role, act, age, corpusVars, request, purge, pass, queue>>

PlanIngest(r) ==
    /\ writer[r].pc = "parsing"
    /\ LET plan == IF role = None
                   THEN [column |-> writer[r].column, slots |-> {}]
                   ELSE PlanWriteTargets(role, act)
       IN  writer' = [writer EXCEPT ![r] =
               [pc |-> "embedding", column |-> plan.column,
                slots |-> plan.slots, left |-> plan.slots]]
    /\ UNCHANGED <<console, corpusVars, request, purge, pass, queue>>

IngestFails(r) ==
    /\ Can("embed_fails")
    /\ writer[r].pc = "embedding"
    /\ writer' = [writer EXCEPT ![r] = NoWriter]
    /\ UNCHANGED <<console, corpusVars, request, purge, pass, queue>>

IndexChunks(r) ==
    /\ writer[r].pc = "embedding"
    /\ stored' = stored \union {r}
    /\ writer' = [writer EXCEPT ![r].pc = "slots"]
    /\ UNCHANGED <<console, vectors, fails, request, purge, pass, queue>>

(* The side table is written model by model, the column's model first.      *)
NextSlot(r, m) ==
    /\ writer[r].pc = "slots"
    /\ m \in writer[r].left
    /\ m = writer[r].column \/ writer[r].column \notin writer[r].left

UpsertSlot(r, m) ==
    /\ NextSlot(r, m)
    /\ vectors' = vectors \union {<<r, m>>}
    /\ writer' = [writer EXCEPT ![r].left = @ \ {m}]
    /\ UNCHANGED <<console, stored, fails, request, purge, pass, queue>>

SlotSkipped(r, m) ==
    /\ Can("slot_skipped")
    /\ NextSlot(r, m)
    /\ writer' = [writer EXCEPT ![r] =
           [pc |-> "slots", column |-> writer[r].column,
            slots |-> writer[r].slots \ {m}, left |-> writer[r].left \ {m}]]
    /\ UNCHANGED <<console, corpusVars, request, purge, pass, queue>>

-----------------------------------------------------------------------------
(* rebuild_embeddings: one resumable pass under a session advisory lock.    *)

StartPass ==
    /\ jobs > 0
    /\ pass.pc = "idle"
    /\ jobs' = jobs - 1
    /\ IF RebuildOpen
       THEN /\ pass' = Pass("looping", act.target, {}, {})
            /\ act' = [act EXCEPT !.status = "running"]
       ELSE /\ pass' = Leaving
            /\ UNCHANGED act
    /\ UNCHANGED <<astray, role, age, corpus, corpusVars, writer, request, purge>>

(* The lock is held (status "busy") or could not be asked for ("skipped"):  *)
(* the job ends without a trace.  No harm if the pass that holds the lock   *)
(* still works on the open rebuild.                                         *)
JobDropped ==
    /\ jobs > 0
    /\ pass.pc # "idle" \/ Can("lock_skipped")
    /\ jobs' = jobs - 1
    /\ astray' = (jobs' = 0 /\ Unattended)
    /\ UNCHANGED <<console, corpusVars, writer, request, purge, pass>>

(* _still_open, then _next_batch.                                           *)
TakeBatch ==
    /\ pass.pc = "looping"
    /\ StillOpen
    /\ Missing(pass.target) # {}
    /\ \E batch \in SUBSET Missing(pass.target) :
           /\ Cardinality(batch) =
                  (IF Cardinality(Missing(pass.target)) < BatchSize
                   THEN Cardinality(Missing(pass.target)) ELSE BatchSize)
           /\ pass' = Pass("embedding", pass.target, batch, {})
    /\ UNCHANGED <<console, corpusVars, writer, request, purge, queue>>

NothingMissing ==
    /\ pass.pc = "looping"
    /\ StillOpen
    /\ Missing(pass.target) = {}
    /\ pass' = Pass("sweptClean", pass.target, {}, stored)
    /\ UNCHANGED <<console, corpusVars, writer, request, purge, queue>>

PassCancelled ==
    /\ pass.pc = "looping"
    /\ ~StillOpen
    /\ pass' = Leaving
    /\ UNCHANGED <<console, corpusVars, writer, request, purge, queue>>

(* _write_batch commits row by row; _upsert also forgets earlier failures.  *)
WriteRowAndStay(r) ==
    /\ pass.pc \in {"embedding", "writing"}
    /\ r \in pass.batch
    /\ vectors' = vectors \union {<<r, pass.target>>}
    /\ fails' = [fails EXCEPT ![r] = [fails[r] EXCEPT ![pass.target] = 0]]
    /\ pass' = Pass("writing", pass.target, pass.batch \ {r}, {})
    /\ UNCHANGED <<console, stored, writer, request, purge, queue>>

WriteRow(r) ==
    /\ pass.pc \in {"embedding", "writing"}
    /\ r \in pass.batch
    /\ vectors' = vectors \union {<<r, pass.target>>}
    /\ fails' = [fails EXCEPT ![r] = [fails[r] EXCEPT ![pass.target] = 0]]
    /\ pass' = Pass(IF pass.batch = {r} THEN "looping" ELSE "writing",
                    pass.target, pass.batch \ {r}, {})
    /\ UNCHANGED <<console, stored, writer, request, purge, queue>>

(* embed raised, or answered too few vectors: one more attempt per row.     *)
FailBatch ==
    /\ Can("embed_fails")
    /\ pass.pc = "embedding"
    /\ fails' = [r \in Rows |-> [m \in Models |->
           IF r \in pass.batch /\ m = pass.target /\ ~GaveUp(r, m)
           THEN fails[r][m] + 1 ELSE fails[r][m]]]
    /\ pass' = Pass("looping", pass.target, {}, {})
    /\ UNCHANGED <<console, stored, vectors, writer, request, purge, queue>>

(* _finish counts with two statements, then flips the pointer in one.       *)
CountTotal ==
    /\ pass.pc = "sweptClean"
    /\ pass' = [pc |-> "counting", target |-> pass.target, batch |-> {},
                 swept |-> pass.swept, undone |-> pass.undone, done |-> 0,
                 total |-> Cardinality(Embeddable(pass.target))]
    /\ UNCHANGED <<console, corpusVars, writer, request, purge, queue>>

CountDone ==
    /\ pass.pc = "counting"
    /\ pass' = [pc |-> "counted", target |-> pass.target, batch |-> {},
                 swept |-> pass.swept, undone |-> pass.undone,
                 total |-> pass.total,
                 done |-> Cardinality(Embedded(pass.target))]
    /\ UNCHANGED <<console, corpusVars, writer, request, purge, queue>>

ReadyToSwitch == pass.done >= pass.total

Switch ==
    /\ pass.pc = "counted"
    /\ ReadyToSwitch
    /\ IF StillOpen
       THEN /\ act' = [active |-> pass.target,
                       previous |-> IF act.active # pass.target
                                    THEN act.active ELSE act.previous,
                       target |-> None, status |-> "complete"]
            /\ age' = 0
       ELSE UNCHANGED <<act, age>>
    /\ pass' = Leaving
    /\ UNCHANGED <<role, corpus, corpusVars, writer, request, purge, queue>>

MarkFailed ==
    /\ pass.pc = "counted"
    /\ ~ReadyToSwitch
    /\ act' = IF StillOpen THEN [act EXCEPT !.status = "failed"] ELSE act
    /\ pass' = Leaving
    /\ UNCHANGED <<role, age, corpus, corpusVars, writer, request, purge, queue>>

(* The pass used its 240 s: it re-enqueues itself, best effort, while it    *)
(* still holds the lock.                                                    *)
OutOfBudget ==
    /\ Can("budget")
    /\ pass.pc = "looping"
    /\ jobs < MaxJobs
    /\ pass' = Leaving
    /\ \/ jobs' = jobs + 1
       \/ Can("enqueue_fails") /\ UNCHANGED jobs
    /\ astray' = (jobs' = 0 /\ RebuildOpen)
    /\ UNCHANGED <<console, corpusVars, writer, request, purge>>

ReleaseLock ==
    /\ pass.pc = "leaving"
    /\ pass' = NoPass
    /\ UNCHANGED <<console, corpusVars, writer, request, purge, queue>>

(* A database error ends the job for good; when the worker process dies,    *)
(* arq runs the job again.                                                  *)
PassDies ==
    /\ Can("pass_dies")
    /\ pass.pc # "idle"
    /\ jobs < MaxJobs
    /\ pass' = NoPass
    /\ jobs' \in {jobs, jobs + 1}
    /\ astray' = (jobs' = 0 /\ RebuildOpen)
    /\ UNCHANGED <<console, corpusVars, writer, request, purge>>

-----------------------------------------------------------------------------
Console ==
    \/ \E m \in Models : BeginDesignate(m)
    \/ ReadForDesignation
    \/ NoteDesignation
    \/ Unset
    \/ \E op \in {"retry", "rollback"} : BeginRequest(op)
    \/ CommitRetry
    \/ CommitRollback
    \/ Refused
    \/ Enqueue
    \/ CspDies

Cleanup == DayPasses \/ PurgeRead \/ PurgeCommit

Ingest ==
    \E r \in Rows :
        \/ StartIngest(r)
        \/ PlanIngest(r)
        \/ IngestFails(r)
        \/ IndexChunks(r)
        \/ \E m \in Models : UpsertSlot(r, m) \/ SlotSkipped(r, m)

TakeJob == StartPass \/ JobDropped

PassStep ==
    \/ TakeBatch
    \/ NothingMissing
    \/ PassCancelled
    \/ \E r \in Rows : WriteRow(r)
    \/ FailBatch
    \/ CountTotal
    \/ CountDone
    \/ Switch
    \/ MarkFailed
    \/ ReleaseLock

Next ==
    \/ Console
    \/ Cleanup
    \/ Ingest
    \/ TakeJob
    \/ PassStep
    \/ OutOfBudget
    \/ PassDies

Spec == Init /\ [][Next]_vars

FairSpec ==
    /\ Spec
    /\ WF_vars(ReadForDesignation \/ NoteDesignation)
    /\ WF_vars(CommitRetry \/ CommitRollback \/ Refused)
    /\ WF_vars(Enqueue)
    /\ WF_vars(TakeJob)
    /\ WF_vars(PassStep)

-----------------------------------------------------------------------------
(* Type invariant.  A designation not yet noted, and a pass, know their model. *)

SightType ==
    [act : Activations, full : SUBSET Models]

WriterType ==
    [pc : {"waiting", "parsing", "embedding", "slots"},
     column : Models \union {None}, slots : SUBSET Models, left : SUBSET Models]

RequestType ==
    [op : {"none", "designate", "retry", "rollback"},
     pc : {"idle", "flagged", "commit", "enqueue"},
     target : Models \union {None}, prev : Models \union {None}, seen : SightType]

RequestKnowsModel ==
    request.op = "designate" /\ request.pc \in {"flagged", "commit"}
        => request.target \in Models

PassType ==
    [pc : {"idle", "looping", "embedding", "writing",
           "sweptClean", "counting", "counted", "leaving"},
     target : Models \union {None}, batch : SUBSET Rows, swept : SUBSET Rows,
     undone : SUBSET Rows, total : Nat, done : Nat]

PassKnowsModel == pass.pc \notin {"idle", "leaving"} => pass.target \in Models

TypeOK ==
    /\ role \in Models \union {None}
    /\ act \in Activations
    /\ age \in 0..Retention
    /\ corpus \in Models \union {None}
    /\ stored \subseteq Rows
    /\ vectors \subseteq Rows \X Models
    /\ fails \in [Rows -> [Models -> 0..FailLimit]]
    /\ writer \in [Rows -> WriterType]
    /\ request \in RequestType
    /\ RequestKnowsModel
    /\ purge \in Models \union {None}
    /\ pass \in PassType
    /\ PassKnowsModel
    /\ jobs \in 0..MaxJobs
    /\ astray \in BOOLEAN

(* The activation row never contradicts itself: an open rebuild has a model *)
(* that serves meanwhile and one it builds, a target outlives only an open  *)
(* or failed rebuild, and the model to return to is not the serving one     *)
(* (embedding_activation as swap.py and embedding_rebuild.py write it).     *)
RowConsistent ==
    /\ act.status \in Open => act.active # None /\ act.target # None
    /\ act.target # None => act.active # None /\ act.status \in Open \union {"failed"}
    /\ act.previous # None => act.active \notin {None, act.previous}

(* A row that got its vector for model m at upload has it, or was given up   *)
(* on, while m serves and while m is the model to roll back to: no rollback, *)
(* rebuild, purge or switch takes it away or brings back a model for which   *)
(* it is gone.  Three exceptions: a retry forgets that a row was given up    *)
(* on; a purge deletes what is not due any more when it commits; and a pass  *)
(* flips the pointer although a retry or a purge took the row back after its *)
(* last sweep (search_model against purge_expired, rollback, _finish and     *)
(* retry_unembeddable).                                                      *)
Kept == {ServingModel, act.previous}

OwnVector(r, m) ==
    m \in writer[r].slots \ writer[r].left => HasVector(r, m) \/ GaveUp(r, m)

RetryForgets(r, m) == request.op = "retry" /\ GaveUp(r, m)
PurgeIsLate == purge # None /\ purge # CleanupModel(act, age)
SweepUndone(r, m) == pass.pc = "counted" /\ pass.target = m /\ r \in pass.undone

OwnVectorsServe ==
    [][\A r \in Rows : \A m \in Kept' :
          (m \in Kept => OwnVector(r, m)) /\ ~OwnVector(r, m)' =>
              RetryForgets(r, m) \/ PurgeIsLate \/ SweepUndone(r, m)]_vars

(* Search moves to another model in three ways only: the first designation, *)
(* a rollback to a model that still has vectors, or the end of a pass whose *)
(* sweep left no row it saw without a vector of the new model or three      *)
(* failures, but for rows a retry or a purge took back after that sweep     *)
(* (embedding_rebuild.py: search does not move until it finishes).          *)
SearchMovesOnlyWhenReady ==
    [][act'.active # act.active =>
          \/ act.active = None
          \/ act'.active = act.previous /\ act'.active \in Full
          \/ /\ pass.pc = "counted"
             /\ act'.active = act.target
             /\ \A r \in pass.swept \ pass.undone :
                    \/ <<r, act.target>> \in vectors
                    \/ fails[r][act.target] >= FailLimit]_vars

(* A rebuild pass gives the advisory lock back (rebuild_embeddings).        *)
PassEnds == pass.pc # "idle" ~> pass.pc = "idle"

(* Once the administrators stop designating and passes stop dying and       *)
(* running out of time, an open rebuild is completed, failed or cancelled,  *)
(* or its job was lost: the enqueue failed, CSP died before it, a pass died *)
(* for good, or the job ended at once because the lock was refused or held  *)
(* by a pass that did not go on with this rebuild (enqueue_rebuild,         *)
(* rebuild_embeddings, _requeue).                                           *)
RebuildCloses ==
    /\ <>[](request.pc # "flagged")
    /\ <>[][~OutOfBudget /\ ~PassDies]_vars
    => (RebuildOpen ~> (~RebuildOpen \/ astray))

-----------------------------------------------------------------------------
(* What the code says of itself and does not keep: a run expects the    *)
(* counterexample.                                                          *)

(* set_platform_embedding tells the operator that search never turns empty  *)
(* during a replacement: an upload that finished is found.                  *)
UploadsFindable ==
    \A r \in Rows :
        writer[r].pc = "slots" /\ writer[r].left = {} => Findable(r)
==============================================================================
