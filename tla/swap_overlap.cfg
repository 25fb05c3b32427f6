SPECIFICATION FairSpec
CONSTANTS
    None = None
    a = a
    b = b
    c = c
    r1 = r1
    r2 = r2
    Models = {a, b, c}
    Rows = {r1}
    FirstModel = a
    Retention = 1
    FailLimit = 1
    BatchSize = 2
    MaxJobs = 1
    Starts = {"fresh", "serving"}
    Events = {"designate", "unset", "enqueue_fails", "csp_dies", "embed_fails", "budget", "pass_dies", "lock_skipped"}
    Serialised = FALSE
INVARIANTS
    TypeOK
PROPERTIES
    SearchMovesOnlyWhenReady
    PassEnds
    RebuildCloses
