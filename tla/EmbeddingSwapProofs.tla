------------------------- MODULE EmbeddingSwapProofs -------------------------
(***************************************************************************)
(* Proofs about EmbeddingSwap, for every set of models and rows and every  *)
(* bound.  The type invariant holds in every instance; SearchWaits assumes *)
(* Orderly, which the two passing runs satisfy in different ways; the      *)
(* other theorems assume Serialised, as the run that checks them does.     *)
(* None of them restrains the purge, the uploads or the pass.              *)
(***************************************************************************)
EXTENDS EmbeddingSwap, FiniteSetTheorems, TLAPS

-----------------------------------------------------------------------------
(* The plans of swap.py return well-formed rows.                            *)

LEMMA DesignationType ==
    ASSUME NEW row \in Activations, NEW t \in Models, NEW k \in Models \union {None}
    PROVE  PlanDesignation(row, t, k) \in Activations
BY DEF PlanDesignation, Activations, Statuses

LEMMA RollbackType ==
    ASSUME NEW row \in Activations
    PROVE  RollbackState(row) \in Activations
BY DEF RollbackState, Activations, Statuses

LEMMA WritePlanType ==
    ASSUME NEW row \in Activations, NEW m \in Models
    PROVE  /\ PlanWriteTargets(m, row).column \in Models \union {None}
           /\ PlanWriteTargets(m, row).slots \subseteq Models
BY DEF PlanWriteTargets, Activations

LEMMA WriteType ==
    ASSUME act \in Activations, NEW seen \in SightType, NEW new \in Activations
    PROVE  Write(seen, new) \in Activations
BY DEF Write, Merge, SightType, Activations

LEMMA SightTypes ==
    ASSUME TypeOK
    PROVE  /\ Sight \in SightType
           /\ NoSight \in SightType
           /\ Remembered \in SightType
           /\ \A seen \in SightType : View(seen) \in SightType
<1>1. Sight \in SightType
  BY DEF TypeOK, Sight, SightType, Full
<1>2. NoSight \in SightType
  BY DEF NoSight, SightType, Activations, Statuses
<1> QED
  BY <1>1, <1>2 DEF Remembered, View

(* Counts of _counts are natural numbers.                                   *)
LEMMA CountType ==
    ASSUME NEW S \in SUBSET Rows
    PROVE  Cardinality(S) \in Nat
BY RowsAssumption, FS_Subset, FS_CardinalityType

-----------------------------------------------------------------------------
LEMMA InitType == Init => TypeOK
<1> SUFFICES ASSUME Init PROVE TypeOK
  OBVIOUS
<1>1. NoSight \in SightType /\ NoSight.act \in Activations
  BY DEF NoSight, SightType, Activations, Statuses
<1>2. /\ role \in Models \union {None} /\ act \in Activations
      /\ corpus \in Models \union {None}
      /\ stored \subseteq Rows /\ vectors \subseteq Rows \X Models
  <2> PICK start \in Starts : InitialPlatform(start)
    BY DEF Init
  <2> QED
    BY <1>1, FirstModelAssumption DEF InitialPlatform, Activations, Statuses, NoSight
<1>3. writer \in [Rows -> WriterType]
  BY FirstModelAssumption DEF Init, NoWriter, WriterType
<1>4. request \in RequestType /\ RequestKnowsModel
  BY <1>1 DEF Init, NoRequest, Request, RequestType, RequestKnowsModel
<1>5. purge \in Models \union {None}
  BY DEF Init
<1>6. pass \in PassType /\ PassKnowsModel
  BY DEF Init, NoPass, Pass, PassType, PassKnowsModel
<1>7. age \in 0..Retention /\ jobs \in 0..MaxJobs
      /\ fails \in [Rows -> [Models -> 0..FailLimit]]
  BY RetentionAssumption, MaxJobsAssumption, FailLimitAssumption DEF Init
<1>8. astray \in BOOLEAN
  BY DEF Init
<1> QED
  BY <1>2, <1>3, <1>4, <1>5, <1>6, <1>7, <1>8 DEF TypeOK

(* The fields of the state records have their types.                        *)
LEMMA FieldTypes ==
    ASSUME TypeOK
    PROVE  /\ NoRequest \in RequestType
           /\ NoPass \in PassType /\ Leaving \in PassType
           /\ NoWriter \in WriterType
           /\ \A r \in Rows : writer[r] \in WriterType
           /\ View(request.seen) \in SightType
<1>1. NoSight \in SightType
  BY SightTypes
<1>2. View(request.seen) \in SightType
  BY SightTypes DEF TypeOK, RequestType
<1>3. /\ NoRequest \in RequestType /\ NoWriter \in WriterType
      /\ NoPass \in PassType /\ Leaving \in PassType
  BY <1>1
  DEF NoRequest, Request, NoPass, Leaving, Pass, NoWriter, RequestType, PassType, WriterType
<1> QED
  BY <1>2, <1>3 DEF TypeOK

LEMMA TakenType ==
    ASSUME TypeOK, NEW m, NEW rows \in SUBSET Rows
    PROVE  /\ TakenFromPass(m, rows) \in PassType
           /\ TakenFromPass(m, rows).pc = pass.pc
           /\ TakenFromPass(m, rows).target = pass.target
           /\ TakenFromPass(m, rows).swept = pass.swept
           /\ pass.undone \subseteq TakenFromPass(m, rows).undone
           /\ m = pass.target => rows \subseteq TakenFromPass(m, rows).undone
BY DEF TypeOK, PassType, TakenFromPass

LEMMA ConsoleType == TypeOK /\ Console => TypeOK'
<1> SUFFICES ASSUME TypeOK, Console PROVE TypeOK'
  OBVIOUS
<1> USE DEF TypeOK, PassKnowsModel, console, corpusVars, queue
<1>1. ASSUME NEW m \in Models, BeginDesignate(m) PROVE TypeOK'
  BY <1>1, SightTypes, FirstModelAssumption
  DEF BeginDesignate, NoRequest, Request, RequestType, RequestKnowsModel
<1>2. CASE ReadForDesignation
  <2>1. [Remembered EXCEPT !.full = {}] \in SightType
    BY SightTypes DEF SightType
  <2> QED
    BY <1>2, <2>1 DEF ReadForDesignation, RequestType, RequestKnowsModel
<1>3. CASE NoteDesignation
  <2> DEFINE seen == View(request.seen)
             new == PlanDesignation(seen.act, request.target, Keep)
  <2>1. seen \in SightType /\ seen.act \in Activations
    BY FieldTypes DEF SightType
  <2>2. request.target \in Models /\ Keep \in Models \union {None}
    BY <1>3 DEF NoteDesignation, RequestKnowsModel, RequestType, Keep
  <2>3. new \in Activations
    BY <2>1, <2>2, DesignationType
  <2>4. Write(seen, new) \in Activations
    BY <2>1, <2>3, WriteType
  <2>5. request' \in RequestType /\ RequestKnowsModel'
    BY <1>3, SightTypes DEF NoteDesignation, NoRequest, Request, RequestType, RequestKnowsModel
  <2> QED
    BY <1>3, <2>4, <2>5 DEF NoteDesignation
<1>4. CASE Unset
  BY <1>4 DEF Unset, RequestKnowsModel
<1>5. ASSUME NEW op \in {"retry", "rollback"}, BeginRequest(op) PROVE TypeOK'
  BY <1>5, SightTypes DEF BeginRequest, NoRequest, Request, RequestType, RequestKnowsModel
<1>6. CASE CommitRetry
  <2> DEFINE seen == View(request.seen)
             m == RetryModel(seen.act)
             new == RetryState(seen.act)
  <2>1. seen \in SightType /\ seen.act \in Activations
    BY FieldTypes DEF SightType
  <2>2. m \in Models \union {None}
    BY <2>1 DEF RetryModel, Activations
  <2>3. new \in Activations
    BY <2>1, <2>2, <1>6 DEF CommitRetry, RetryState, Activations, Statuses
  <2>4. Write(seen, new) \in Activations
    BY <2>1, <2>3, WriteType
  <2>5. fails' \in [Rows -> [Models -> 0..FailLimit]]
    <3> \A r \in Rows, n \in Models : fails[r][n] \in 0..FailLimit
      OBVIOUS
    <3> QED
      BY <1>6, FailLimitAssumption DEF CommitRetry
  <2>6. request' \in RequestType /\ RequestKnowsModel'
    BY <1>6, SightTypes DEF CommitRetry, Request, RequestType, RequestKnowsModel
  <2>7. pass' \in PassType /\ PassKnowsModel'
    BY <1>6, TakenType DEF CommitRetry
  <2> QED
    BY <1>6, <2>4, <2>5, <2>6, <2>7 DEF CommitRetry
<1>7. CASE CommitRollback
  <2> DEFINE seen == View(request.seen)
             new == RollbackState(seen.act)
  <2>1. seen \in SightType /\ seen.act \in Activations
    BY FieldTypes DEF SightType
  <2>2. new \in Activations
    BY <2>1, RollbackType
  <2>3. Write(seen, new) \in Activations
    BY <2>1, <2>2, WriteType
  <2>4. request' \in RequestType /\ RequestKnowsModel'
    BY <1>7, FieldTypes DEF CommitRollback, NoRequest, Request, RequestKnowsModel
  <2>5. new.active \in Models \union {None}
    BY <2>2 DEF Activations
  <2>6. age' \in 0..Retention
    BY <1>7, RetentionAssumption DEF CommitRollback
  <2> QED
    BY <1>7, <2>3, <2>4, <2>5, <2>6 DEF CommitRollback
<1>8. CASE Refused
  BY <1>8, FieldTypes DEF Refused, NoRequest, Request, RequestKnowsModel
<1>9. CASE Enqueue
  <2>1. jobs' \in 0..MaxJobs
    BY <1>9, MaxJobsAssumption DEF Enqueue
  <2> QED
    BY <1>9, <2>1, FieldTypes DEF Enqueue, NoRequest, Request, RequestKnowsModel
<1>10. CASE CspDies
  BY <1>10, FieldTypes DEF CspDies, NoRequest, Request, RequestKnowsModel
<1> QED
  BY <1>1, <1>2, <1>3, <1>4, <1>5, <1>6, <1>7, <1>8, <1>9, <1>10 DEF Console

LEMMA CleanupType == TypeOK /\ Cleanup => TypeOK'
<1> SUFFICES ASSUME TypeOK, Cleanup PROVE TypeOK'
  OBVIOUS
<1> USE DEF TypeOK, PassKnowsModel, console, corpusVars, queue
<1>1. CASE DayPasses
  <2>1. age' \in 0..Retention
    BY <1>1, RetentionAssumption DEF DayPasses
  <2> QED
    BY <1>1, <2>1 DEF DayPasses, RequestKnowsModel
<1>2. CASE PurgeRead
  <2>1. CleanupModel(act, age) \in Models \union {None}
    BY DEF CleanupModel, Activations
  <2> QED
    BY <1>2, <2>1 DEF PurgeRead, RequestKnowsModel
<1>3. CASE PurgeCommit
  <2>1. act' \in Activations
    BY <1>3 DEF PurgeCommit, Activations
  <2>2. fails' \in [Rows -> [Models -> 0..FailLimit]]
    <3> \A r \in Rows, n \in Models : fails[r][n] \in 0..FailLimit
      OBVIOUS
    <3> QED
      BY <1>3, FailLimitAssumption DEF PurgeCommit, DeleteModelVectors
  <2>3. vectors' \subseteq Rows \X Models
    BY <1>3 DEF PurgeCommit, DeleteModelVectors
  <2>4. pass' \in PassType /\ PassKnowsModel'
    BY <1>3, TakenType DEF PurgeCommit, DeleteModelVectors
  <2> QED
    BY <1>3, <2>1, <2>2, <2>3, <2>4 DEF PurgeCommit, RequestKnowsModel
<1> QED
  BY <1>1, <1>2, <1>3 DEF Cleanup

LEMMA IngestType == TypeOK /\ Ingest => TypeOK'
<1> SUFFICES ASSUME TypeOK, NEW r \in Rows,
                    \/ StartIngest(r) \/ PlanIngest(r)
                    \/ IngestFails(r) \/ IndexChunks(r)
                    \/ \E m \in Models : UpsertSlot(r, m) \/ SlotSkipped(r, m)
             PROVE  TypeOK'
  BY DEF Ingest
<1> USE DEF TypeOK, PassKnowsModel, console, corpusVars, queue
<1>0. writer[r] \in WriterType
  BY FieldTypes
<1>1. CASE StartIngest(r)
  <2>1. writer' \in [Rows -> WriterType]
    BY <1>1 DEF StartIngest, WriterType
  <2> QED
    BY <1>1, <2>1 DEF StartIngest, RequestKnowsModel
<1>2. CASE PlanIngest(r)
  <2> DEFINE plan == IF role = None
                     THEN [column |-> writer[r].column, slots |-> {}]
                     ELSE PlanWriteTargets(role, act)
  <2>1. plan.column \in Models \union {None} /\ plan.slots \subseteq Models
    BY <1>0, WritePlanType DEF WriterType
  <2>2. [pc |-> "embedding", column |-> plan.column,
         slots |-> plan.slots, left |-> plan.slots] \in WriterType
    BY <2>1 DEF WriterType
  <2>3. writer' \in [Rows -> WriterType]
    BY <1>2, <2>2 DEF PlanIngest
  <2> QED
    BY <1>2, <2>3 DEF PlanIngest, RequestKnowsModel
<1>3. CASE IngestFails(r)
  BY <1>3, FieldTypes DEF IngestFails, RequestKnowsModel
<1>4. CASE IndexChunks(r)
  <2>1. [writer[r] EXCEPT !.pc = "slots"] \in WriterType
    BY <1>0 DEF WriterType
  <2>2. writer' \in [Rows -> WriterType]
    BY <1>4, <2>1 DEF IndexChunks
  <2> QED
    BY <1>4, <2>2 DEF IndexChunks, RequestKnowsModel
<1>5. ASSUME NEW m \in Models, UpsertSlot(r, m) PROVE TypeOK'
  <2>1. [writer[r] EXCEPT !.left = @ \ {m}] \in WriterType
    BY <1>0 DEF WriterType
  <2>2. writer' \in [Rows -> WriterType]
    BY <1>5, <2>1 DEF UpsertSlot
  <2> QED
    BY <1>5, <2>2 DEF UpsertSlot, RequestKnowsModel
<1>6. ASSUME NEW m \in Models, SlotSkipped(r, m) PROVE TypeOK'
  <2>1. writer' \in [Rows -> WriterType]
    BY <1>0, <1>6 DEF SlotSkipped, WriterType
  <2> QED
    BY <1>6, <2>1 DEF SlotSkipped, RequestKnowsModel
<1> QED
  BY <1>1, <1>2, <1>3, <1>4, <1>5, <1>6

LEMMA RebuildType ==
    TypeOK /\ (TakeJob \/ PassStep \/ OutOfBudget \/ PassDies) => TypeOK'
<1> SUFFICES ASSUME TypeOK, TakeJob \/ PassStep \/ OutOfBudget \/ PassDies
             PROVE  TypeOK'
  OBVIOUS
<1> USE DEF TypeOK, PassKnowsModel, console, corpusVars, queue
<1>0. NoPass \in PassType /\ Leaving \in PassType
  BY FieldTypes
<1>1. CASE StartPass
  <2>1. [act EXCEPT !.status = "running"] \in Activations
    BY DEF Activations, Statuses
  <2>2. act' \in Activations /\ pass' \in PassType /\ PassKnowsModel'
    BY <1>0, <1>1, <2>1 DEF StartPass, RebuildOpen, Leaving, Pass, PassType, Activations
  <2>3. jobs' \in 0..MaxJobs
    BY <1>1, MaxJobsAssumption DEF StartPass
  <2> QED
    BY <1>1, <2>2, <2>3 DEF StartPass, RequestKnowsModel
<1>2. CASE JobDropped
  <2>1. jobs' \in 0..MaxJobs
    BY <1>2, MaxJobsAssumption DEF JobDropped
  <2> QED
    BY <1>2, <2>1 DEF JobDropped, RequestKnowsModel
<1>3. CASE TakeBatch
  <2>1. pass' \in PassType
    BY <1>3 DEF TakeBatch, Missing, Embeddable, Pass, PassType
  <2> QED
    BY <1>3, <2>1 DEF TakeBatch, RequestKnowsModel, Pass
<1>4. CASE NothingMissing
  BY <1>4 DEF NothingMissing, Pass, PassType, RequestKnowsModel
<1>5. CASE PassCancelled
  BY <1>5, <1>0 DEF PassCancelled, RequestKnowsModel, Leaving, Pass
<1>6. ASSUME NEW r \in Rows, WriteRow(r) PROVE TypeOK'
  <2>1. pass.target \in Models
    BY <1>6 DEF WriteRow
  <2>2. fails[r] \in [Models -> 0..FailLimit] /\ 0 \in 0..FailLimit
    BY FailLimitAssumption
  <2>3. [fails[r] EXCEPT ![pass.target] = 0] \in [Models -> 0..FailLimit]
    BY <2>2
  <2>4. fails' \in [Rows -> [Models -> 0..FailLimit]]
    BY <1>6, <2>3 DEF WriteRow
  <2>5. vectors' \subseteq Rows \X Models
    BY <1>6, <2>1 DEF WriteRow
  <2>6. pass' \in PassType /\ PassKnowsModel'
    BY <1>6, <2>1 DEF WriteRow, Pass, PassType
  <2> QED
    BY <1>6, <2>4, <2>5, <2>6 DEF WriteRow, RequestKnowsModel
<1>7. CASE FailBatch
  <2>1. fails' \in [Rows -> [Models -> 0..FailLimit]]
    <3> SUFFICES ASSUME NEW r \in Rows, NEW m \in Models
                 PROVE  fails'[r][m] \in 0..FailLimit
      BY <1>7 DEF FailBatch
    <3>1. fails[r][m] \in 0..FailLimit
      OBVIOUS
    <3>2. ~GaveUp(r, m) => fails[r][m] + 1 \in 0..FailLimit
      BY <3>1, FailLimitAssumption DEF GaveUp
    <3> QED
      BY <1>7, <3>1, <3>2 DEF FailBatch
  <2>2. pass' \in PassType /\ PassKnowsModel'
    BY <1>7 DEF FailBatch, Pass, PassType
  <2> QED
    BY <1>7, <2>1, <2>2 DEF FailBatch, RequestKnowsModel
<1>8. CASE CountTotal
  <2>1. Cardinality(Embeddable(pass.target)) \in Nat
    BY CountType DEF Embeddable
  <2>2. pass' \in PassType /\ PassKnowsModel'
    BY <1>8, <2>1 DEF CountTotal, PassType
  <2> QED
    BY <1>8, <2>2 DEF CountTotal, RequestKnowsModel
<1>9. CASE CountDone
  <2>1. Cardinality(Embedded(pass.target)) \in Nat
    BY CountType DEF Embedded, Embeddable
  <2>2. pass' \in PassType /\ PassKnowsModel'
    BY <1>9, <2>1 DEF CountDone, PassType
  <2> QED
    BY <1>9, <2>2 DEF CountDone, RequestKnowsModel
<1>10. CASE Switch
  <2>1. act' \in Activations
    BY <1>10 DEF Switch, Activations, Statuses
  <2>2. age' \in 0..Retention
    BY <1>10, RetentionAssumption DEF Switch
  <2> QED
    BY <1>10, <1>0, <2>1, <2>2 DEF Switch, RequestKnowsModel, Leaving, Pass
<1>11. CASE MarkFailed
  <2>1. act' \in Activations
    BY <1>11 DEF MarkFailed, Activations, Statuses
  <2> QED
    BY <1>11, <1>0, <2>1 DEF MarkFailed, RequestKnowsModel, Leaving, Pass
<1>12. CASE OutOfBudget
  <2>1. jobs' \in 0..MaxJobs
    BY <1>12, MaxJobsAssumption DEF OutOfBudget
  <2> QED
    BY <1>12, <1>0, <2>1 DEF OutOfBudget, RequestKnowsModel, Leaving, Pass
<1>13. CASE PassDies
  <2>1. jobs' \in 0..MaxJobs
    BY <1>13, MaxJobsAssumption DEF PassDies
  <2> QED
    BY <1>13, <1>0, <2>1 DEF PassDies, RequestKnowsModel, NoPass, Pass
<1>14. CASE ReleaseLock
  BY <1>14, <1>0 DEF ReleaseLock, RequestKnowsModel, NoPass, Pass
<1> QED
  BY <1>1, <1>2, <1>3, <1>4, <1>5, <1>6, <1>7, <1>8, <1>9, <1>10, <1>11,
     <1>12, <1>13, <1>14 DEF TakeJob, PassStep

LEMMA TypeNext == TypeOK /\ [Next]_vars => TypeOK'
<1> SUFFICES ASSUME TypeOK, [Next]_vars PROVE TypeOK'
  OBVIOUS
<1>1. CASE UNCHANGED vars
  BY <1>1 DEF TypeOK, vars, RequestKnowsModel, PassKnowsModel
<1> QED
  BY <1>1, ConsoleType, CleanupType, IngestType, RebuildType DEF Next

(* Every reachable state is well typed, whatever the interleaving, the      *)
(* bounds and the events: a swap, a purge, a retry and a pass never leave a *)
(* model id, a status or a counter the code has no branch for.              *)
THEOREM TypeCorrect == Spec => []TypeOK
BY InitType, TypeNext, PTL DEF Spec

-----------------------------------------------------------------------------
(* Without another writer between a request's read and its commit, what is  *)
(* written is what the plan returned.                                       *)
LEMMA WriteSerialised ==
    ASSUME Serialised, NEW seen, NEW new \in Activations
    PROVE  View(seen).act = act /\ Write(View(seen), new) = new
BY DEF View, Sight, Write, Merge, Activations

(* Only these steps write the activation row, and each from what it read.   *)
LEMMA RowStep ==
    ASSUME TypeOK, Serialised, RowConsistent, [Next]_vars
    PROVE  RowConsistent'
<1> USE DEF console, corpusVars, queue
<1>0. act \in Activations
  BY DEF TypeOK
<1>1. CASE act' = act
  BY <1>1 DEF RowConsistent
<1>2. CASE NoteDesignation
  <2> DEFINE new == PlanDesignation(act, request.target, Keep)
  <2>1. request.target \in Models /\ Keep \in Models \union {None}
    BY <1>2 DEF NoteDesignation, TypeOK, RequestKnowsModel, RequestType, Keep
  <2>2. new \in Activations
    BY <1>0, <2>1, DesignationType
  <2>3. act' = new
    BY <1>2, <2>2, WriteSerialised DEF NoteDesignation
  <2>4. /\ new.status \in Open => new.active # None /\ new.target # None
        /\ new.target # None
              => new.active # None /\ new.status \in Open \union {"failed"}
        /\ new.previous # None => new.active \notin {None, new.previous}
    BY <1>0, <2>1, NoneAssumption DEF RowConsistent, PlanDesignation, Open, Activations
  <2> QED
    BY <2>3, <2>4 DEF RowConsistent
<1>3. CASE CommitRetry
  <2> DEFINE new == RetryState(act)
  <2>1. new \in Activations
    BY <1>0 DEF RetryState, RetryModel, Activations, Statuses
  <2>2. act' = new /\ RetryModel(act) # None
    BY <1>3, <2>1, WriteSerialised DEF CommitRetry
  <2> QED
    BY <2>2 DEF RowConsistent, RetryState, RetryModel, Open
<1>4. CASE CommitRollback
  <2> DEFINE new == RollbackState(act)
  <2>1. new \in Activations
    BY <1>0, RollbackType
  <2>2. act' = new
    BY <1>4, <2>1, WriteSerialised DEF CommitRollback
  <2>3. CancelsRebuild(act) \/ SwapsBack(act, Full)
    BY <1>4 DEF CommitRollback, View, Sight
  <2> QED
    BY <2>2, <2>3 DEF RowConsistent, RollbackState, CancelsRebuild, SwapsBack, Open
<1>5. CASE PurgeCommit
  BY <1>0, <1>5 DEF PurgeCommit, RowConsistent, Activations
<1>6. CASE StartPass
  BY <1>0, <1>6 DEF StartPass, RebuildOpen, RowConsistent, Open, Activations
<1>7. CASE Switch
  <2>1. pass.target \in Models
    BY <1>7 DEF Switch, TypeOK, PassKnowsModel
  <2> QED
    BY <1>0, <1>7, <2>1, NoneAssumption
    DEF Switch, StillOpen, RowConsistent, Open, Activations
<1>8. CASE MarkFailed
  BY <1>0, <1>8 DEF MarkFailed, StillOpen, RowConsistent, Open, Activations
<1> QED
  <2>1. CASE Console
    BY <2>1, <1>1, <1>2, <1>3, <1>4
    DEF Console, BeginDesignate, ReadForDesignation, Unset, BeginRequest, Refused,
        Enqueue, CspDies
  <2>2. CASE Cleanup
    BY <2>2, <1>1, <1>5 DEF Cleanup, DayPasses, PurgeRead
  <2>3. CASE Ingest
    BY <2>3, <1>1
    DEF Ingest, StartIngest, PlanIngest, IngestFails, IndexChunks, UpsertSlot, SlotSkipped
  <2>4. CASE TakeJob
    BY <2>4, <1>1, <1>6 DEF TakeJob, JobDropped
  <2>5. CASE PassStep
    BY <2>5, <1>1, <1>7, <1>8
    DEF PassStep, TakeBatch, NothingMissing, PassCancelled, WriteRow, FailBatch,
        CountTotal, CountDone, ReleaseLock
  <2>6. CASE OutOfBudget \/ PassDies
    BY <2>6, <1>1 DEF OutOfBudget, PassDies
  <2>7. CASE UNCHANGED vars
    BY <2>7, <1>1 DEF vars
  <2> QED
    BY <2>1, <2>2, <2>3, <2>4, <2>5, <2>6, <2>7 DEF Next

(* The activation row never contradicts itself, for any number of models    *)
(* and rows and any events, when commits do not overlap.                    *)
THEOREM RowStaysConsistent == Serialised => (Spec => []RowConsistent)
<1> SUFFICES ASSUME Serialised PROVE Spec => []RowConsistent
  OBVIOUS
<1>1. Init => RowConsistent
  <2> SUFFICES ASSUME Init PROVE RowConsistent
    OBVIOUS
  <2> PICK start \in Starts : InitialPlatform(start)
    BY DEF Init
  <2> QED
    BY FirstModelAssumption, NoneAssumption
    DEF InitialPlatform, NoSight, RowConsistent, Open
<1>2. TypeOK /\ RowConsistent /\ [Next]_vars => RowConsistent'
  BY RowStep
<1> QED
  BY <1>1, <1>2, TypeCorrect, PTL DEF Spec

-----------------------------------------------------------------------------
(* Who writes the activation row, and who starts a pass's last stretch.     *)
LEMMA RowWriters ==
    ASSUME [Next]_vars
    PROVE  \/ act' = act
           \/ NoteDesignation \/ CommitRetry \/ CommitRollback \/ PurgeCommit
           \/ StartPass \/ Switch \/ MarkFailed
<1> USE DEF console, corpusVars, queue
<1>1. CASE Console
  BY <1>1
  DEF Console, BeginDesignate, ReadForDesignation, Unset, BeginRequest, Refused,
      Enqueue, CspDies
<1>2. CASE Cleanup
  BY <1>2 DEF Cleanup, DayPasses, PurgeRead
<1>3. CASE Ingest
  BY <1>3
  DEF Ingest, StartIngest, PlanIngest, IngestFails, IndexChunks, UpsertSlot, SlotSkipped
<1>4. CASE TakeJob
  BY <1>4 DEF TakeJob, JobDropped
<1>5. CASE PassStep
  BY <1>5
  DEF PassStep, TakeBatch, NothingMissing, PassCancelled, WriteRow, FailBatch,
      CountTotal, CountDone, ReleaseLock
<1>6. CASE OutOfBudget \/ PassDies
  BY <1>6 DEF OutOfBudget, PassDies
<1>7. CASE UNCHANGED vars
  BY <1>7 DEF vars
<1> QED
  BY <1>1, <1>2, <1>3, <1>4, <1>5, <1>6, <1>7 DEF Next

(* Search moves only when it may, in two kinds of deployment: nobody        *)
(* commits under a console request, or the console only designates models,  *)
(* without rollback and retry.  There a designation that was computed from  *)
(* an old row still leaves the serving model alone, because it read the     *)
(* same answer to whether any model serves.                                 *)
OnlyDesignations == Events \cap {"rollback", "retry"} = {}
Orderly == Serialised \/ OnlyDesignations

Permitted == request.pc # "idle" => request.op = "designate" \/ Can(request.op)

OpenServes == act.status \in Open => act.active # None

ReadStands ==
    request.op = "designate" /\ request.pc = "commit" /\ ~Serialised =>
        (request.seen.act.active = None <=> act.active = None)

(* The pass is past its last sweep and has not flipped the pointer yet.     *)
Finishing == pass.pc \in {"sweptClean", "counting", "counted"}

SweptStands ==
    Finishing => \A r \in pass.swept \ pass.undone :
                     HasVector(r, pass.target) \/ GaveUp(r, pass.target)

LEMMA PermittedStep ==
    ASSUME Permitted, [Next]_vars
    PROVE  Permitted'
<1> USE DEF Permitted, console, corpusVars, queue
<1>1. CASE Console
  BY <1>1
  DEF Console, BeginDesignate, ReadForDesignation, NoteDesignation, Unset,
      BeginRequest, CommitRetry, CommitRollback, Refused, Enqueue, CspDies,
      Request, NoRequest, Can
<1>2. CASE Cleanup
  BY <1>2 DEF Cleanup, DayPasses, PurgeRead, PurgeCommit, DeleteModelVectors, Can
<1>3. CASE Ingest
  BY <1>3
  DEF Ingest, StartIngest, PlanIngest, IngestFails, IndexChunks, UpsertSlot,
      SlotSkipped, Can
<1>4. CASE TakeJob
  BY <1>4 DEF TakeJob, StartPass, JobDropped, Can
<1>5. CASE PassStep
  BY <1>5
  DEF PassStep, TakeBatch, NothingMissing, PassCancelled, WriteRow, FailBatch,
      CountTotal, CountDone, Switch, MarkFailed, ReleaseLock, Can
<1>6. CASE OutOfBudget \/ PassDies
  BY <1>6 DEF OutOfBudget, PassDies, Can
<1>7. CASE UNCHANGED vars
  BY <1>7 DEF vars, Can
<1> QED
  BY <1>1, <1>2, <1>3, <1>4, <1>5, <1>6, <1>7 DEF Next

(* A step of a retry or a rollback is one of a serialised instance.         *)
LEMMA Disturbances ==
    ASSUME Permitted, Orderly, CommitRetry \/ CommitRollback
    PROVE  Serialised
<1>1. CASE CommitRetry
  BY <1>1 DEF Permitted, Orderly, OnlyDesignations, CommitRetry, Can
<1>2. CASE CommitRollback
  BY <1>2 DEF Permitted, Orderly, OnlyDesignations, CommitRollback, Can
<1> QED
  BY <1>1, <1>2

(* What note_designation writes when it did not read the row under a lock.  *)
LEMMA DesignationMerged ==
    ASSUME TypeOK, ReadStands, ~Serialised, NoteDesignation
    PROVE  /\ act'.active # None
           /\ act.active # None => act'.active = act.active
<1> DEFINE seen == request.seen
           new == PlanDesignation(seen.act, request.target, Keep)
<1>1. seen \in SightType /\ seen.act \in Activations
  BY DEF TypeOK, RequestType, SightType
<1>2. request.target \in Models /\ Keep \in Models \union {None}
  BY DEF NoteDesignation, TypeOK, RequestKnowsModel, RequestType, Keep
<1>3. act'.active = Merge(seen.act.active, new.active, act.active)
  BY DEF NoteDesignation, Write, View
<1>4. seen.act.active = None <=> act.active = None
  BY DEF ReadStands, NoteDesignation
<1>5. /\ new.active # None
      /\ seen.act.active # None => new.active = seen.act.active
  BY <1>1, <1>2, NoneAssumption DEF PlanDesignation
<1> QED
  BY <1>3, <1>4, <1>5 DEF Merge

LEMMA ReadStep ==
    ASSUME TypeOK, Orderly, Serialised => RowConsistent, Permitted,
           OpenServes, ReadStands, [Next]_vars
    PROVE  OpenServes' /\ ReadStands'
<1>1. CASE Serialised
  <2>1. RowConsistent'
    BY <1>1, RowStep
  <2> QED
    BY <1>1, <2>1 DEF OpenServes, ReadStands, RowConsistent
<1>2. CASE ~Serialised
  <2> USE DEF console, corpusVars, queue
  <2>0. act \in Activations
    BY DEF TypeOK
  <2>1. CASE NoteDesignation
    <3>1. act'.active # None
      BY <1>2, <2>1, DesignationMerged
    <3>2. request'.pc # "commit"
      BY <2>1 DEF NoteDesignation, Request, NoRequest
    <3> QED
      BY <3>1, <3>2 DEF OpenServes, ReadStands
  <2>2. CASE ~NoteDesignation
    <3>1. OpenServes' /\ (act'.active = None <=> act.active = None)
      <4>1. CASE act' = act
        BY <4>1 DEF OpenServes
      <4>2. CASE StartPass
        BY <2>0, <4>2 DEF StartPass, RebuildOpen, OpenServes, Activations
      <4>3. CASE Switch
        <5>1. pass.target \in Models
          BY <4>3 DEF Switch, TypeOK, PassKnowsModel
        <5> QED
          BY <4>3, <5>1, NoneAssumption DEF Switch, StillOpen, OpenServes, Open
      <4>4. CASE MarkFailed
        BY <2>0, <4>4 DEF MarkFailed, OpenServes, Open, Activations
      <4>5. CASE PurgeCommit
        BY <2>0, <4>5 DEF PurgeCommit, OpenServes, Activations
      <4> QED
        BY <1>2, <2>2, <4>1, <4>2, <4>3, <4>4, <4>5, RowWriters, Disturbances
    <3>2. CASE ReadForDesignation
      BY <1>2, <3>1, <3>2 DEF ReadForDesignation, Remembered, Sight, ReadStands
    <3>3. CASE ~ReadForDesignation
      <4>1. \/ request' = request
            \/ request'.pc # "commit" \/ request'.op # "designate"
        <5>1. CASE Console
          BY <5>1, <2>2, <3>3
          DEF Console, BeginDesignate, Unset, BeginRequest, CommitRetry,
              CommitRollback, Refused, Enqueue, CspDies, Request, NoRequest
        <5>2. CASE Cleanup
          BY <5>2 DEF Cleanup, DayPasses, PurgeRead, PurgeCommit, DeleteModelVectors
        <5>3. CASE Ingest
          BY <5>3
          DEF Ingest, StartIngest, PlanIngest, IngestFails, IndexChunks, UpsertSlot,
              SlotSkipped
        <5>4. CASE TakeJob
          BY <5>4 DEF TakeJob, StartPass, JobDropped
        <5>5. CASE PassStep
          BY <5>5
          DEF PassStep, TakeBatch, NothingMissing, PassCancelled, WriteRow, FailBatch,
              CountTotal, CountDone, Switch, MarkFailed, ReleaseLock
        <5>6. CASE OutOfBudget \/ PassDies
          BY <5>6 DEF OutOfBudget, PassDies
        <5>7. CASE UNCHANGED vars
          BY <5>7 DEF vars
        <5> QED
          BY <5>1, <5>2, <5>3, <5>4, <5>5, <5>6, <5>7 DEF Next
      <4> QED
        BY <3>1, <4>1 DEF ReadStands
    <3> QED
      BY <3>1, <3>2, <3>3
  <2> QED
    BY <2>1, <2>2
<1> QED
  BY <1>1, <1>2

(* Into a pass's last stretch leads only its sweep, and from there on the   *)
(* pass loses track of no row that somebody takes back.                     *)
LEMMA FinishingStep ==
    ASSUME TypeOK, [Next]_vars, Finishing', ~NothingMissing
    PROVE  /\ Finishing
           /\ pass'.target = pass.target /\ pass'.swept = pass.swept
           /\ pass.undone \subseteq pass'.undone
           /\ \A r \in Rows : ~WriteRow(r)
           /\ ~FailBatch
<1> USE DEF console, corpusVars, queue
<1>0. (\A r \in Rows : ~WriteRow(r)) /\ ~FailBatch
  BY DEF WriteRow, FailBatch, Pass, Finishing
<1>1. CASE Console
  <2>1. CASE CommitRetry
    <3> DEFINE m == RetryModel(View(request.seen).act)
               rows == {r \in Rows : GaveUp(r, m)}
    <3>1. pass' = TakenFromPass(m, rows) /\ rows \in SUBSET Rows
      BY <2>1 DEF CommitRetry
    <3> HIDE DEF m, rows
    <3> QED
      BY <2>1, <3>1, <1>0, TakenType DEF CommitRetry, Finishing
  <2> QED
    BY <1>1, <2>1, <1>0
    DEF Console, BeginDesignate, ReadForDesignation, NoteDesignation, Unset,
        BeginRequest, CommitRollback, Refused, Enqueue, CspDies, Finishing
<1>2. CASE Cleanup
  <2>1. CASE PurgeCommit
    <3>1. pass' = TakenFromPass(purge, Rows)
      BY <2>1 DEF PurgeCommit, DeleteModelVectors
    <3> QED
      BY <2>1, <3>1, <1>0, TakenType DEF Finishing
  <2> QED
    BY <1>2, <2>1, <1>0 DEF Cleanup, DayPasses, PurgeRead, Finishing
<1>3. CASE Ingest
  BY <1>3, <1>0
  DEF Ingest, StartIngest, PlanIngest, IngestFails, IndexChunks, UpsertSlot,
      SlotSkipped, Finishing
<1>4. CASE TakeJob
  BY <1>4, <1>0 DEF TakeJob, StartPass, JobDropped, Leaving, Pass, Finishing
<1>5. CASE PassStep
  BY <1>5, <1>0
  DEF PassStep, TakeBatch, PassCancelled, CountTotal, CountDone, Switch,
      MarkFailed, ReleaseLock, NoPass, Leaving, Pass, Finishing
<1>6. CASE OutOfBudget \/ PassDies
  BY <1>6 DEF OutOfBudget, PassDies, NoPass, Leaving, Pass, Finishing
<1>7. CASE UNCHANGED vars
  BY <1>7, <1>0 DEF vars, Finishing
<1> QED
  BY <1>1, <1>2, <1>3, <1>4, <1>5, <1>6, <1>7 DEF Next

(* Vectors are deleted by the purge alone; notes of failures are undone by  *)
(* the purge, a retry and the pass that writes the row.                     *)
LEMMA Takers ==
    ASSUME [Next]_vars, ~CommitRetry, ~PurgeCommit,
           \A r \in Rows : ~WriteRow(r), ~FailBatch
    PROVE  vectors \subseteq vectors' /\ fails' = fails
<1> USE DEF console, corpusVars, queue
<1>1. CASE Console
  BY <1>1
  DEF Console, BeginDesignate, ReadForDesignation, NoteDesignation, Unset,
      BeginRequest, CommitRollback, Refused, Enqueue, CspDies
<1>2. CASE Cleanup
  BY <1>2 DEF Cleanup, DayPasses, PurgeRead
<1>3. CASE Ingest
  BY <1>3
  DEF Ingest, StartIngest, PlanIngest, IngestFails, IndexChunks, UpsertSlot, SlotSkipped
<1>4. CASE TakeJob
  BY <1>4 DEF TakeJob, StartPass, JobDropped
<1>5. CASE PassStep
  BY <1>5
  DEF PassStep, TakeBatch, NothingMissing, PassCancelled, CountTotal, CountDone,
      Switch, MarkFailed, ReleaseLock
<1>6. CASE OutOfBudget \/ PassDies
  BY <1>6 DEF OutOfBudget, PassDies
<1>7. CASE UNCHANGED vars
  BY <1>7 DEF vars
<1> QED
  BY <1>1, <1>2, <1>3, <1>4, <1>5, <1>6, <1>7 DEF Next

(* While a pass finishes, the rows its sweep saw keep what it saw of them,  *)
(* but for those that a retry or a purge takes back.                        *)
LEMMA SweptStep ==
    ASSUME TypeOK, SweptStands, [Next]_vars
    PROVE  SweptStands'
<1> SUFFICES ASSUME Finishing', NEW r \in pass'.swept \ pass'.undone
             PROVE  (HasVector(r, pass.target) \/ GaveUp(r, pass.target))'
  BY DEF SweptStands
<1>1. CASE NothingMissing
  <2>1. /\ pass'.target = pass.target /\ pass'.swept = stored
        /\ Missing(pass.target) = {}
        /\ vectors' = vectors /\ fails' = fails
    BY <1>1 DEF NothingMissing, Pass, corpusVars
  <2> QED
    BY <2>1 DEF Missing, Embeddable, GaveUp, HasVector
<1>2. CASE ~NothingMissing
  <2>1. /\ Finishing
        /\ pass'.target = pass.target /\ r \in pass.swept \ pass.undone
        /\ \A s \in Rows : ~WriteRow(s)
        /\ ~FailBatch
    BY <1>2, FinishingStep
  <2>2. HasVector(r, pass.target) \/ GaveUp(r, pass.target)
    BY <2>1 DEF SweptStands
  <2>3. pass.target \in Models /\ r \in Rows
    BY <2>1 DEF TypeOK, PassKnowsModel, PassType, Finishing
  <2>4. CASE CommitRetry
    <3> DEFINE m == RetryModel(View(request.seen).act)
               rows == {s \in Rows : GaveUp(s, m)}
    <3>1. pass' = TakenFromPass(m, rows) /\ rows \in SUBSET Rows
      BY <2>4 DEF CommitRetry
    <3>2. m = pass.target => r \notin rows
      <4> HIDE DEF m, rows
      <4> QED
        BY <3>1, TakenType
    <3>3. m = pass.target => ~GaveUp(r, m)
      BY <2>3, <3>2
    <3>4. fails'[r][pass.target] = IF pass.target = m /\ GaveUp(r, pass.target)
                                   THEN 0 ELSE fails[r][pass.target]
      BY <2>3, <2>4 DEF CommitRetry
    <3>5. vectors' = vectors
      BY <2>4 DEF CommitRetry
    <3> QED
      BY <2>1, <2>2, <3>3, <3>4, <3>5 DEF GaveUp, HasVector
  <2>5. CASE PurgeCommit
    <3>1. pass' = TakenFromPass(purge, Rows)
      BY <2>5 DEF PurgeCommit, DeleteModelVectors
    <3>2. purge # pass.target
      BY <2>3, <3>1, TakenType
    <3> QED
      BY <2>1, <2>2, <2>3, <2>5, <3>2 DEF PurgeCommit, DeleteModelVectors, GaveUp, HasVector
  <2>6. CASE ~CommitRetry /\ ~PurgeCommit
    BY <2>1, <2>2, <2>6, Takers DEF GaveUp, HasVector
  <2> QED
    BY <2>4, <2>5, <2>6
<1> QED
  BY <1>1, <1>2

LEMMA MoveStep ==
    ASSUME TypeOK, Orderly, Permitted, ReadStands, SweptStands, [Next]_vars,
           act'.active # act.active
    PROVE  \/ act.active = None
           \/ act'.active = act.previous /\ act'.active \in Full
           \/ /\ pass.pc = "counted"
              /\ act'.active = act.target
              /\ \A r \in pass.swept \ pass.undone :
                     \/ <<r, act.target>> \in vectors
                     \/ fails[r][act.target] >= FailLimit
<1>0. act \in Activations
  BY DEF TypeOK
<1>1. CASE NoteDesignation
  <2>1. CASE Serialised
    <3> DEFINE new == PlanDesignation(act, request.target, Keep)
    <3>1. request.target \in Models /\ Keep \in Models \union {None}
      BY <1>1 DEF NoteDesignation, TypeOK, RequestKnowsModel, RequestType, Keep
    <3>2. new \in Activations
      BY <1>0, <3>1, DesignationType
    <3>3. act' = new
      BY <1>1, <2>1, <3>2, WriteSerialised DEF NoteDesignation
    <3> QED
      BY <3>3 DEF PlanDesignation
  <2>2. CASE ~Serialised
    BY <1>1, <2>2, DesignationMerged
  <2> QED
    BY <2>1, <2>2
<1>2. CASE CommitRetry
  <2> DEFINE new == RetryState(act)
  <2>1. Serialised
    BY <1>2, Disturbances
  <2>2. new \in Activations
    BY <1>0 DEF RetryState, RetryModel, Activations, Statuses
  <2>3. act' = new
    BY <1>2, <2>1, <2>2, WriteSerialised DEF CommitRetry
  <2> QED
    BY <2>3 DEF RetryState
<1>3. CASE CommitRollback
  <2> DEFINE new == RollbackState(act)
  <2>1. Serialised
    BY <1>3, Disturbances
  <2>2. new \in Activations
    BY <1>0, RollbackType
  <2>3. act' = new
    BY <1>3, <2>1, <2>2, WriteSerialised DEF CommitRollback
  <2>4. CancelsRebuild(act) \/ SwapsBack(act, Full)
    BY <1>3, <2>1 DEF CommitRollback, View, Sight
  <2> QED
    BY <2>3, <2>4 DEF RollbackState, SwapsBack
<1>4. CASE PurgeCommit
  BY <1>0, <1>4 DEF PurgeCommit, Activations
<1>5. CASE StartPass
  BY <1>0, <1>5 DEF StartPass, Activations
<1>6. CASE Switch
  <2>1. /\ act'.active = pass.target /\ act.target = pass.target
        /\ pass.pc = "counted"
    BY <1>6 DEF Switch, StillOpen
  <2> QED
    BY <2>1 DEF SweptStands, Finishing, HasVector, GaveUp
<1>7. CASE MarkFailed
  BY <1>0, <1>7 DEF MarkFailed, Activations
<1> QED
  BY <1>1, <1>2, <1>3, <1>4, <1>5, <1>6, <1>7, RowWriters

(* Search never moves to a model before a pass gave it a vector, or three   *)
(* attempts, for every row the pass saw and nobody took back: for any       *)
(* number of models and rows, with one console request at a time or with    *)
(* overlapping designations; uploads and the purge overlap in both.         *)
THEOREM SearchWaits == Orderly => (Spec => SearchMovesOnlyWhenReady)
<1> SUFFICES ASSUME Orderly PROVE Spec => SearchMovesOnlyWhenReady
  OBVIOUS
<1> DEFINE Inv == Permitted /\ OpenServes /\ ReadStands /\ SweptStands
           Consistent == Serialised => RowConsistent
<1>1. Init => Inv
  <2> SUFFICES ASSUME Init PROVE Inv
    OBVIOUS
  <2> PICK start \in Starts : InitialPlatform(start)
    BY DEF Init
  <2>1. OpenServes
    BY FirstModelAssumption, NoneAssumption DEF InitialPlatform, NoSight, OpenServes, Open
  <2> QED
    BY <2>1
    DEF Init, NoRequest, Request, NoPass, Pass, Permitted, ReadStands,
        SweptStands, Finishing
<1>2. TypeOK /\ Consistent /\ Inv /\ [Next]_vars => Inv'
  BY PermittedStep, ReadStep, SweptStep
<1>3. TypeOK /\ Inv /\ [Next]_vars
      => [act'.active # act.active =>
             \/ act.active = None
             \/ act'.active = act.previous /\ act'.active \in Full
             \/ /\ pass.pc = "counted"
                /\ act'.active = act.target
                /\ \A r \in pass.swept \ pass.undone :
                       \/ <<r, act.target>> \in vectors
                       \/ fails[r][act.target] >= FailLimit]_vars
  BY MoveStep
<1>4. Spec => []Consistent
  <2>1. CASE Serialised
    <3>1. RowConsistent => Consistent
      OBVIOUS
    <3> QED
      BY <2>1, <3>1, RowStaysConsistent, PTL
  <2>2. CASE ~Serialised
    <3>1. Consistent
      BY <2>2
    <3> QED
      BY <3>1, PTL
  <2> QED
    BY <2>1, <2>2
<1> QED
  BY <1>1, <1>2, <1>3, <1>4, TypeCorrect, PTL DEF Spec, SearchMovesOnlyWhenReady

-----------------------------------------------------------------------------
(* A row's own vectors.  A writer has no vector of its own before its chunk *)
(* is stored; while no model serves yet nothing was ever purged or retried. *)
Uploaded ==
    \A r \in Rows :
        IF writer[r].pc = "slots" THEN r \in stored
        ELSE writer[r].slots \subseteq writer[r].left

NothingLostYet ==
    act.active = None =>
        purge = None /\ \A r \in Rows, m \in Models : OwnVector(r, m)

(* From its last sweep to the flip, a pass knows which rows it would leave  *)
(* without a vector of their own.                                           *)
SweptOwn ==
    Finishing => \A r \in Rows : OwnVector(r, pass.target) \/ r \in pass.undone

LEMMA UploadedStep ==
    ASSUME TypeOK, Uploaded, [Next]_vars
    PROVE  Uploaded'
<1> USE DEF Uploaded, console, corpusVars, queue
<1>1. CASE Console
  BY <1>1
  DEF Console, BeginDesignate, ReadForDesignation, NoteDesignation, Unset,
      BeginRequest, CommitRetry, CommitRollback, Refused, Enqueue, CspDies
<1>2. CASE Cleanup
  BY <1>2 DEF Cleanup, DayPasses, PurgeRead, PurgeCommit, DeleteModelVectors
<1>3. CASE Ingest
  <2> PICK r \in Rows :
           \/ StartIngest(r) \/ PlanIngest(r) \/ IngestFails(r) \/ IndexChunks(r)
           \/ \E m \in Models : UpsertSlot(r, m) \/ SlotSkipped(r, m)
    BY <1>3 DEF Ingest
  <2>0. /\ writer[r] \in WriterType
        /\ writer \in [Rows -> WriterType]
    BY FieldTypes DEF TypeOK
  <2>1. CASE StartIngest(r)
    BY <2>0, <2>1 DEF StartIngest
  <2>2. CASE PlanIngest(r)
    <3> DEFINE plan == IF role = None
                       THEN [column |-> writer[r].column, slots |-> {}]
                       ELSE PlanWriteTargets(role, act)
               new == [pc |-> "embedding", column |-> plan.column,
                       slots |-> plan.slots, left |-> plan.slots]
    <3>1. writer' = [writer EXCEPT ![r] = new] /\ stored' = stored
      BY <2>2 DEF PlanIngest
    <3>2. new.pc = "embedding" /\ new.slots = new.left
      OBVIOUS
    <3> HIDE DEF new
    <3> QED
      BY <2>0, <3>1, <3>2
  <2>3. CASE IngestFails(r)
    BY <2>0, <2>3 DEF IngestFails, NoWriter
  <2>4. CASE IndexChunks(r)
    <3>1. writer'[r].pc = "slots" /\ r \in stored' /\ stored \subseteq stored'
      BY <2>0, <2>4 DEF IndexChunks, WriterType
    <3>2. \A s \in Rows \ {r} : writer'[s] = writer[s]
      BY <2>0, <2>4 DEF IndexChunks
    <3> QED
      BY <3>1, <3>2
  <2>5. ASSUME NEW m \in Models, UpsertSlot(r, m) PROVE Uploaded'
    <3>1. writer'[r].pc = "slots" /\ r \in stored /\ stored' = stored
      BY <2>0, <2>5 DEF UpsertSlot, NextSlot, WriterType
    <3>2. \A s \in Rows \ {r} : writer'[s] = writer[s]
      BY <2>0, <2>5 DEF UpsertSlot
    <3> QED
      BY <3>1, <3>2
  <2>6. ASSUME NEW m \in Models, SlotSkipped(r, m) PROVE Uploaded'
    <3>1. writer'[r].pc = "slots" /\ r \in stored /\ stored' = stored
      BY <2>0, <2>6 DEF SlotSkipped, NextSlot
    <3>2. \A s \in Rows \ {r} : writer'[s] = writer[s]
      BY <2>0, <2>6 DEF SlotSkipped
    <3> QED
      BY <3>1, <3>2
  <2> QED
    BY <2>1, <2>2, <2>3, <2>4, <2>5, <2>6
<1>4. CASE TakeJob
  BY <1>4 DEF TakeJob, StartPass, JobDropped
<1>5. CASE PassStep
  BY <1>5
  DEF PassStep, TakeBatch, NothingMissing, PassCancelled, WriteRow, FailBatch,
      CountTotal, CountDone, Switch, MarkFailed, ReleaseLock
<1>6. CASE OutOfBudget \/ PassDies
  BY <1>6 DEF OutOfBudget, PassDies
<1>7. CASE UNCHANGED vars
  BY <1>7 DEF vars
<1> QED
  BY <1>1, <1>2, <1>3, <1>4, <1>5, <1>6, <1>7 DEF Next

(* Only the purge of m and a retry take a row's own vector of m, or the     *)
(* note that the row was given up on, away.                                 *)
LEMMA OwnVectorLost ==
    ASSUME TypeOK, Uploaded, [Next]_vars, NEW r \in Rows, NEW m \in Models,
           OwnVector(r, m), ~OwnVector(r, m)'
    PROVE  \/ CommitRetry /\ GaveUp(r, m) /\ m = RetryModel(View(request.seen).act)
           \/ PurgeCommit /\ m = purge
<1> USE DEF console, corpusVars, queue
<1>1. /\ m \in writer'[r].slots \ writer'[r].left
      /\ <<r, m>> \notin vectors'
      /\ ~(fails'[r][m] >= FailLimit)
  BY DEF OwnVector, HasVector, GaveUp
<1>2. m \in writer[r].slots \ writer[r].left => <<r, m>> \in vectors \/ GaveUp(r, m)
  BY DEF OwnVector, HasVector
<1>3. CASE CommitRetry \/ PurgeCommit
  <2>1. CASE CommitRetry
    BY <1>1, <1>2, <2>1 DEF CommitRetry, GaveUp
  <2>2. CASE PurgeCommit
    BY <1>1, <1>2, <2>2 DEF PurgeCommit, DeleteModelVectors, GaveUp
  <2> QED
    BY <1>3, <2>1, <2>2
<1>4. CASE Ingest
  <2> PICK s \in Rows :
           \/ StartIngest(s) \/ PlanIngest(s) \/ IngestFails(s) \/ IndexChunks(s)
           \/ \E n \in Models : UpsertSlot(s, n) \/ SlotSkipped(s, n)
    BY <1>4 DEF Ingest
  <2>1. vectors \subseteq vectors' /\ fails' = fails
    BY DEF StartIngest, PlanIngest, IngestFails, IndexChunks, UpsertSlot, SlotSkipped
  <2>2. m \notin writer[r].slots \ writer[r].left
    BY <1>1, <1>2, <2>1 DEF GaveUp
  <2>3. s = r
    BY <1>1, <2>2
    DEF TypeOK, StartIngest, PlanIngest, IngestFails, IndexChunks, UpsertSlot, SlotSkipped
  <2>4. Uploaded'
    BY UploadedStep
  <2>5. writer'[r].pc = "slots"
    BY <1>1, <2>4 DEF Uploaded
  <2>6. writer[r] \in WriterType /\ writer \in [Rows -> WriterType]
    BY FieldTypes DEF TypeOK
  <2>7. ~IndexChunks(r)
    <3> SUFFICES ASSUME IndexChunks(r) PROVE FALSE
      OBVIOUS
    <3>1. writer'[r].slots = writer[r].slots /\ writer'[r].left = writer[r].left
      BY <2>6 DEF IndexChunks, WriterType
    <3> QED
      BY <1>1, <2>2, <3>1
  <2>8. PICK n \in Models : UpsertSlot(r, n) \/ SlotSkipped(r, n)
    BY <2>3, <2>5, <2>6, <2>7
    DEF StartIngest, PlanIngest, IngestFails, NoWriter
  <2>9. CASE UpsertSlot(r, n)
    <3>1. writer'[r].slots = writer[r].slots /\ writer'[r].left = writer[r].left \ {n}
      BY <2>6, <2>9 DEF UpsertSlot, WriterType
    <3>2. n = m
      BY <1>1, <2>2, <3>1
    <3> QED
      BY <1>1, <2>9, <3>2 DEF UpsertSlot
  <2>10. CASE SlotSkipped(r, n)
    <3>1. /\ writer'[r].slots = writer[r].slots \ {n}
          /\ writer'[r].left = writer[r].left \ {n}
      BY <2>6, <2>10 DEF SlotSkipped, WriterType
    <3> QED
      BY <1>1, <2>2, <3>1
  <2> QED
    BY <2>8, <2>9, <2>10
<1>5. CASE ~Ingest /\ ~CommitRetry /\ ~PurgeCommit
  <2>1. writer' = writer
    <3>1. CASE Console
      BY <3>1
      DEF Console, BeginDesignate, ReadForDesignation, NoteDesignation, Unset,
          BeginRequest, CommitRetry, CommitRollback, Refused, Enqueue, CspDies
    <3>2. CASE Cleanup
      BY <3>2 DEF Cleanup, DayPasses, PurgeRead, PurgeCommit, DeleteModelVectors
    <3>3. CASE TakeJob \/ OutOfBudget \/ PassDies
      BY <3>3 DEF TakeJob, StartPass, JobDropped, OutOfBudget, PassDies
    <3>4. CASE PassStep
      BY <3>4
      DEF PassStep, TakeBatch, NothingMissing, PassCancelled, WriteRow, FailBatch,
          CountTotal, CountDone, Switch, MarkFailed, ReleaseLock
    <3>5. CASE UNCHANGED vars
      BY <3>5 DEF vars
    <3> QED
      BY <1>5, <3>1, <3>2, <3>3, <3>4, <3>5 DEF Next
  <2>2. <<r, m>> \in vectors \/ GaveUp(r, m)
    BY <1>1, <1>2, <2>1
  <2>3. CASE vectors' = vectors /\ fails' = fails
    BY <1>1, <2>2, <2>3 DEF GaveUp
  <2>4. ASSUME NEW s \in Rows, WriteRow(s) PROVE FALSE
    <3>1. vectors' = vectors \union {<<s, pass.target>>}
      BY <2>4 DEF WriteRow
    <3>2. GaveUp(r, m)
      BY <1>1, <2>2, <3>1
    <3>3. s # r \/ pass.target # m
      BY <1>1, <3>1
    <3>4. fails \in [Rows -> [Models -> 0..FailLimit]]
      BY DEF TypeOK
    <3>5. fails[r] \in [Models -> 0..FailLimit]
      BY <3>4
    <3>6. fails' = [fails EXCEPT ![s] = [fails[s] EXCEPT ![pass.target] = 0]]
      BY <2>4 DEF WriteRow
    <3>7. fails'[r][m] = fails[r][m]
      <4>1. CASE s # r
        BY <3>4, <3>6, <4>1
      <4>2. CASE s = r
        <5>1. fails'[r] = [fails[r] EXCEPT ![pass.target] = 0]
          BY <3>4, <3>6, <4>2
        <5> QED
          BY <3>3, <3>5, <4>2, <5>1
      <4> QED
        BY <4>1, <4>2
    <3> QED
      BY <1>1, <3>2, <3>7 DEF GaveUp
  <2>5. CASE FailBatch
    BY <1>1, <2>2, <2>5 DEF FailBatch, GaveUp
  <2>6. CASE Console
    BY <1>5, <2>3, <2>6
    DEF Console, BeginDesignate, ReadForDesignation, NoteDesignation, Unset,
        BeginRequest, CommitRollback, Refused, Enqueue, CspDies
  <2>7. CASE Cleanup
    BY <1>5, <2>3, <2>7 DEF Cleanup, DayPasses, PurgeRead
  <2>8. CASE TakeJob \/ OutOfBudget \/ PassDies
    BY <2>3, <2>8 DEF TakeJob, StartPass, JobDropped, OutOfBudget, PassDies
  <2>9. CASE PassStep
    BY <2>3, <2>4, <2>5, <2>9
    DEF PassStep, TakeBatch, NothingMissing, PassCancelled, CountTotal, CountDone,
        Switch, MarkFailed, ReleaseLock
  <2>10. CASE UNCHANGED vars
    BY <2>3, <2>10 DEF vars
  <2> QED
    BY <1>5, <2>6, <2>7, <2>8, <2>9, <2>10 DEF Next
<1> QED
  BY <1>3, <1>4, <1>5

(* A retry needs a serving model, a purge one left behind.                  *)
LEMMA LossNeedsServing ==
    ASSUME TypeOK, Serialised, RowConsistent, act.active = None
    PROVE  /\ ~CommitRetry
           /\ CleanupModel(act, age) = None
BY DEF TypeOK, RowConsistent, CommitRetry, RetryModel, View, Sight, CleanupModel

LEMMA NothingLostStep ==
    ASSUME TypeOK, Serialised, RowConsistent, Uploaded, NothingLostYet, [Next]_vars
    PROVE  NothingLostYet'
<1> SUFFICES ASSUME act'.active = None
             PROVE  purge' = None /\ \A r \in Rows, m \in Models : OwnVector(r, m)'
  BY DEF NothingLostYet
<1>0. act \in Activations
  BY DEF TypeOK
<1>1. act.active = None
  <2>1. CASE NoteDesignation
    <3> DEFINE new == PlanDesignation(act, request.target, Keep)
    <3>1. request.target \in Models /\ Keep \in Models \union {None}
      BY <2>1 DEF NoteDesignation, TypeOK, RequestKnowsModel, RequestType, Keep
    <3>2. new \in Activations
      BY <1>0, <3>1, DesignationType
    <3>3. act' = new
      BY <2>1, <3>2, WriteSerialised DEF NoteDesignation
    <3> QED
      BY <3>1, <3>3, NoneAssumption DEF PlanDesignation
  <2>2. CASE CommitRetry
    <3> DEFINE new == RetryState(act)
    <3>1. new \in Activations
      BY <1>0 DEF RetryState, RetryModel, Activations, Statuses
    <3>2. act' = new
      BY <2>2, <3>1, WriteSerialised DEF CommitRetry
    <3> QED
      BY <3>2 DEF RetryState
  <2>3. CASE CommitRollback
    <3> DEFINE new == RollbackState(act)
    <3>1. new \in Activations
      BY <1>0, RollbackType
    <3>2. act' = new
      BY <2>3, <3>1, WriteSerialised DEF CommitRollback
    <3>3. CancelsRebuild(act) \/ SwapsBack(act, Full)
      BY <2>3 DEF CommitRollback, View, Sight
    <3> QED
      BY <3>2, <3>3 DEF RollbackState, SwapsBack
  <2>4. CASE PurgeCommit
    BY <1>0, <2>4 DEF PurgeCommit, Activations
  <2>5. CASE StartPass
    BY <1>0, <2>5 DEF StartPass, Activations
  <2>6. CASE Switch
    <3>1. pass.target \in Models
      BY <2>6 DEF Switch, TypeOK, PassKnowsModel
    <3> QED
      BY <2>6, <3>1, NoneAssumption DEF Switch
  <2>7. CASE MarkFailed
    BY <1>0, <2>7 DEF MarkFailed, Activations
  <2> QED
    BY <2>1, <2>2, <2>3, <2>4, <2>5, <2>6, <2>7, RowWriters
<1>2. /\ ~CommitRetry /\ ~PurgeCommit /\ ~PurgeRead
      /\ purge = None
  BY <1>1, LossNeedsServing DEF NothingLostYet, PurgeRead, PurgeCommit
<1>3. purge' = None
  <2> USE DEF console, corpusVars, queue
  <2>1. CASE Console
    BY <1>2, <2>1
    DEF Console, BeginDesignate, ReadForDesignation, NoteDesignation, Unset,
        BeginRequest, CommitRollback, Refused, Enqueue, CspDies
  <2>2. CASE Cleanup
    BY <1>2, <2>2 DEF Cleanup, DayPasses
  <2>3. CASE Ingest
    BY <1>2, <2>3
    DEF Ingest, StartIngest, PlanIngest, IngestFails, IndexChunks, UpsertSlot,
        SlotSkipped
  <2>4. CASE TakeJob \/ OutOfBudget \/ PassDies
    BY <1>2, <2>4 DEF TakeJob, StartPass, JobDropped, OutOfBudget, PassDies
  <2>5. CASE PassStep
    BY <1>2, <2>5
    DEF PassStep, TakeBatch, NothingMissing, PassCancelled, WriteRow, FailBatch,
        CountTotal, CountDone, Switch, MarkFailed, ReleaseLock
  <2>6. CASE UNCHANGED vars
    BY <1>2, <2>6 DEF vars
  <2> QED
    BY <2>1, <2>2, <2>3, <2>4, <2>5, <2>6 DEF Next
<1>4. ASSUME NEW r \in Rows, NEW m \in Models PROVE OwnVector(r, m)'
  <2>1. OwnVector(r, m)
    BY <1>1 DEF NothingLostYet
  <2> QED
    BY <1>2, <2>1, OwnVectorLost
<1> QED
  BY <1>3, <1>4

LEMMA SweptOwnStep ==
    ASSUME TypeOK, Uploaded, SweptOwn, [Next]_vars
    PROVE  SweptOwn'
<1> SUFFICES ASSUME Finishing', NEW r \in Rows, r \notin pass'.undone
             PROVE  OwnVector(r, pass.target)'
  BY DEF SweptOwn
<1>1. CASE NothingMissing
  <2>1. /\ pass'.target = pass.target /\ Missing(pass.target) = {}
        /\ vectors' = vectors /\ fails' = fails /\ writer' = writer
    BY <1>1 DEF NothingMissing, Pass, corpusVars
  <2>2. pass.target \in writer[r].slots \ writer[r].left => r \in stored
    BY DEF Uploaded
  <2> QED
    BY <2>1, <2>2 DEF Missing, Embeddable, GaveUp, HasVector, OwnVector
<1>2. CASE ~NothingMissing
  <2>0. PICK m \in Models : m = pass.target
    BY <1>2, FinishingStep DEF TypeOK, PassKnowsModel, Finishing
  <2>1. /\ Finishing /\ pass'.target = m /\ r \notin pass.undone
    BY <1>2, <2>0, FinishingStep
  <2>2. OwnVector(r, m)
    BY <2>0, <2>1 DEF SweptOwn
  <2>3. ~(CommitRetry /\ GaveUp(r, m) /\ m = RetryModel(View(request.seen).act))
    <3> SUFFICES ASSUME CommitRetry, GaveUp(r, m), m = RetryModel(View(request.seen).act)
                 PROVE  FALSE
      OBVIOUS
    <3> DEFINE rows == {s \in Rows : GaveUp(s, m)}
    <3>1. pass' = TakenFromPass(m, rows) /\ rows \in SUBSET Rows /\ r \in rows
      BY DEF CommitRetry
    <3> HIDE DEF rows
    <3> QED
      BY <2>0, <3>1, TakenType
  <2>4. ~(PurgeCommit /\ m = purge)
    BY <2>0, TakenType DEF PurgeCommit, DeleteModelVectors
  <2>5. OwnVector(r, m)'
    BY <2>2, <2>3, <2>4, OwnVectorLost
  <2> QED
    BY <2>1, <2>5 DEF OwnVector, HasVector, GaveUp
<1> QED
  BY <1>1, <1>2

(* How a model comes to serve, or to be the one to roll back to.            *)
LEMMA JoinsKept ==
    ASSUME TypeOK, Serialised, [Next]_vars,
           NEW m \in Models, m \in Kept', m \notin Kept
    PROVE  \/ act.active = None
           \/ Switch /\ m = pass.target
<1> SUFFICES ASSUME act.active # None PROVE Switch /\ m = pass.target
  OBVIOUS
<1>0. act \in Activations
  BY DEF TypeOK
<1>1. m \notin {act.active, act.previous}
  BY DEF Kept, ServingModel
<1>2. act'.active = None \/ m \in {act'.active, act'.previous}
  BY DEF Kept, ServingModel
<1>3. CASE act'.active # None /\ act'.active = act.active /\ act'.previous \in {act.previous, None}
  BY <1>1, <1>2, <1>3, NoneAssumption
<1>4. CASE NoteDesignation
  <2> DEFINE new == PlanDesignation(act, request.target, Keep)
  <2>1. request.target \in Models /\ Keep \in Models \union {None}
    BY <1>4 DEF NoteDesignation, TypeOK, RequestKnowsModel, RequestType, Keep
  <2>2. new \in Activations
    BY <1>0, <2>1, DesignationType
  <2>3. act' = new
    BY <1>4, <2>2, WriteSerialised DEF NoteDesignation
  <2>4. new.active = act.active /\ new.previous = act.previous
    BY DEF PlanDesignation
  <2> QED
    BY <1>3, <2>3, <2>4
<1>5. CASE CommitRetry
  <2> DEFINE new == RetryState(act)
  <2>1. new \in Activations
    BY <1>0 DEF RetryState, RetryModel, Activations, Statuses
  <2>2. act' = new
    BY <1>5, <2>1, WriteSerialised DEF CommitRetry
  <2> QED
    BY <1>3, <2>2 DEF RetryState
<1>6. CASE CommitRollback
  <2> DEFINE new == RollbackState(act)
  <2>1. new \in Activations
    BY <1>0, RollbackType
  <2>2. act' = new
    BY <1>6, <2>1, WriteSerialised DEF CommitRollback
  <2>3. CancelsRebuild(act) \/ SwapsBack(act, Full)
    BY <1>6 DEF CommitRollback, View, Sight
  <2> QED
    BY <1>1, <1>2, <2>2, <2>3 DEF RollbackState, SwapsBack
<1>7. CASE PurgeCommit
  BY <1>0, <1>3, <1>7 DEF PurgeCommit, Activations
<1>8. CASE StartPass
  BY <1>0, <1>3, <1>8 DEF StartPass, Activations
<1>9. CASE Switch
  <2>1. pass.target \in Models
    BY <1>9 DEF Switch, TypeOK, PassKnowsModel
  <2> QED
    BY <1>1, <1>2, <1>9, <2>1, NoneAssumption DEF Switch
<1>10. CASE MarkFailed
  BY <1>0, <1>3, <1>10 DEF MarkFailed, Activations
<1> QED
  BY <1>3, <1>4, <1>5, <1>6, <1>7, <1>8, <1>9, <1>10, RowWriters

LEMMA OwnVectorStep ==
    ASSUME TypeOK, Serialised, RowConsistent, Uploaded, NothingLostYet, SweptOwn,
           [Next]_vars, NEW r \in Rows, NEW m \in Kept',
           m \in Kept => OwnVector(r, m), ~OwnVector(r, m)'
    PROVE  RetryForgets(r, m) \/ PurgeIsLate \/ SweepUndone(r, m)
<1> SUFFICES ASSUME ~SweepUndone(r, m), ~PurgeIsLate PROVE RetryForgets(r, m)
  OBVIOUS
<1>1. m \in Models
  <2>1. TypeOK' /\ m \in writer'[r].slots
    BY TypeNext DEF OwnVector
  <2>2. writer'[r] \in WriterType
    BY <2>1 DEF TypeOK
  <2> QED
    BY <2>1, <2>2 DEF WriterType
<1>2. OwnVector(r, m)
  <2>1. CASE m \in Kept
    BY <2>1
  <2>2. CASE act.active = None
    BY <1>1, <2>2 DEF NothingLostYet
  <2>3. CASE Switch /\ m = pass.target
    BY <2>3 DEF Switch, SweptOwn, SweepUndone, Finishing
  <2> QED
    BY <1>1, <2>1, <2>2, <2>3, JoinsKept
<1>3. CASE CommitRetry /\ GaveUp(r, m)
  BY <1>3 DEF CommitRetry, RetryForgets
<1>4. ~(PurgeCommit /\ m = purge)
  <2> SUFFICES ASSUME PurgeCommit, m = purge PROVE FALSE
    OBVIOUS
  <2>1. m = CleanupModel(act, age)
    BY DEF PurgeIsLate, PurgeCommit
  <2>2. /\ m = act.previous /\ m # act.active /\ m # None
        /\ act.active # None
    BY <1>1, <2>1, NoneAssumption DEF CleanupModel, RowConsistent
  <2>3. act'.active = act.active /\ act'.previous = None
    BY DEF PurgeCommit, TypeOK, Activations
  <2> QED
    BY <2>2, <2>3 DEF Kept, ServingModel
<1> QED
  BY <1>1, <1>2, <1>3, <1>4, OwnVectorLost

(* While a model serves, and while it is the one to roll back to, no        *)
(* rollback, rebuild, purge or switch takes from a row the vector it was    *)
(* uploaded with, and none brings back a model whose vectors were purged,   *)
(* but for the three exceptions OwnVectorsServe names: for any number of    *)
(* models, rows and uploads, with one console request at a time.            *)
THEOREM UploadsKeepTheirVectors == Serialised => (Spec => OwnVectorsServe)
<1> SUFFICES ASSUME Serialised PROVE Spec => OwnVectorsServe
  OBVIOUS
<1> DEFINE Inv == Uploaded /\ NothingLostYet /\ SweptOwn
<1>1. Init => Inv
  <2> SUFFICES ASSUME Init PROVE Inv
    OBVIOUS
  <2> PICK start \in Starts : InitialPlatform(start)
    BY DEF Init
  <2>1. \A r \in Rows :
           IF r \in stored
           THEN /\ writer[r].pc = "slots" /\ writer[r].slots = {FirstModel}
                /\ <<r, FirstModel>> \in vectors
           ELSE writer[r].slots = {}
    BY DEF Init, InitialPlatform, NoWriter
  <2>2. Uploaded
    <3> SUFFICES ASSUME NEW r \in Rows
                 PROVE  IF writer[r].pc = "slots" THEN r \in stored
                        ELSE writer[r].slots \subseteq writer[r].left
      BY DEF Uploaded
    <3>1. CASE r \in stored
      BY <2>1, <3>1
    <3>2. CASE r \notin stored
      BY <3>2 DEF Init, NoWriter
    <3> QED
      BY <3>1, <3>2
  <2>3. NothingLostYet
    BY <2>1 DEF Init, NothingLostYet, OwnVector, HasVector
  <2>4. SweptOwn
    BY DEF Init, NoPass, Pass, SweptOwn, Finishing
  <2> QED
    BY <2>2, <2>3, <2>4
<1>2. TypeOK /\ RowConsistent /\ Inv /\ [Next]_vars => Inv'
  BY UploadedStep, NothingLostStep, SweptOwnStep
<1>3. TypeOK /\ RowConsistent /\ Inv /\ [Next]_vars
      => [\A r \in Rows : \A m \in Kept' :
             (m \in Kept => OwnVector(r, m)) /\ ~OwnVector(r, m)' =>
                 RetryForgets(r, m) \/ PurgeIsLate \/ SweepUndone(r, m)]_vars
  BY OwnVectorStep
<1>4. Spec => []RowConsistent
  BY RowStaysConsistent
<1> QED
  BY <1>1, <1>2, <1>3, <1>4, TypeCorrect, PTL DEF Spec, OwnVectorsServe
==============================================================================
