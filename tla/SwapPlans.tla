------------------------------ MODULE SwapPlans ------------------------------
(***************************************************************************)
(* The decisions of anila_core.embeddings.swap: pure functions from one    *)
(* embedding_activation row to the next.  CSP calls them under the admin   *)
(* console, the ingestion worker calls PlanWriteTargets for every upload.  *)
(***************************************************************************)
EXTENDS Integers

CONSTANTS
    Models,     \* ids of the registered embedding models
    None,       \* SQL NULL
    Retention   \* OLD_VECTOR_RETENTION_DAYS

ASSUME NoneAssumption == None \notin Models
ASSUME RetentionAssumption == Retention \in Nat

Statuses == {"none", "pending", "running", "complete", "failed", "cancelled"}
Open == {"pending", "running"}

Activations ==
    [active : Models \union {None}, previous : Models \union {None},
     target : Models \union {None}, status : Statuses]

(* plan_designation: search stays where it is until a rebuild finishes; the *)
(* first designation, or one of the model already serving, needs no rebuild. *)
PlanDesignation(row, target, keep) ==
    LET serving == IF row.active # None THEN row.active ELSE keep
    IN  IF serving \in {None, target}
        THEN [active |-> target, previous |-> row.previous,
              target |-> None, status |-> "none"]
        ELSE [active |-> serving, previous |-> row.previous,
              target |-> target, status |-> "pending"]

(* plan_write_targets: the models a new row is embedded with, and the one   *)
(* whose vector goes to the legacy column.                                  *)
PlanWriteTargets(role, row) ==
    IF row.status \in Open /\ row.active \notin {None, role}
    THEN [column |-> row.active, slots |-> {row.active, role}]
    ELSE [column |-> role, slots |-> {role}]

(* rollback_state: cancel an open rebuild, else swap back to the previous   *)
(* model while it still has vectors; otherwise ValueError.                  *)
CancelsRebuild(row) == row.status \in Open /\ row.active # None

SwapsBack(row, full) ==
    /\ ~CancelsRebuild(row)
    /\ row.previous \notin {None, row.active}
    /\ row.previous \in full

RollbackState(row) ==
    IF CancelsRebuild(row)
    THEN [active |-> row.active, previous |-> row.previous,
          target |-> None, status |-> "cancelled"]
    ELSE [active |-> row.previous, previous |-> row.active,
          target |-> None, status |-> "complete"]

(* cleanup_model_id: whose vectors are due for deletion, None when nobody's. *)
CleanupModel(row, age) ==
    IF /\ row.previous # row.active
       /\ row.status \notin Open
       /\ age >= Retention
    THEN row.previous
    ELSE None
==============================================================================
