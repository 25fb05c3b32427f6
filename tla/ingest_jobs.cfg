SPECIFICATION FairSpec
CONSTANTS
    d1 = d1
    d2 = d2
    Docs = {d1, d2}
    Failed = {d1}
    q1 = q1
    q2 = q2
    Requests = {q1, q2}
    MaxJobs = 2
    MaxTries = 2
    Faults = {"enqueue_fails", "reply_lost", "request_dies", "step_fails", "status_lost", "row_lost", "times_out", "worker_dies", "role_unset"}
    MaxFaults = 1
CHECK_DEADLOCK FALSE
INVARIANTS
    TypeOK
    IndexedIsComplete
    CountersTellTheTruth
    OneJobAtATime
    JobSettlesWithDocument
PROPERTIES
    IndexedStays
    DocumentsSettle
