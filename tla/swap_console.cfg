SPECIFICATION Spec
CONSTANTS
    None = None
    a = a
    b = b
    c = c
    r1 = r1
    r2 = r2
    Models = {a, b}
    Rows = {r1}
    FirstModel = a
    Retention = 1
    FailLimit = 1
    BatchSize = 2
    MaxJobs = 1
    Starts = {"serving", "migrated"}
    Events = {"designate", "rollback", "ingest", "purge", "retry", "slot_skipped", "embed_fails"}
    Serialised = TRUE
INVARIANTS
    RowConsistent
PROPERTIES
    OwnVectorsServe
    SearchMovesOnlyWhenReady
