SPECIFICATION FairSpec
CONSTANTS
    r1 = r1
    r2 = r2
    k1 = k1
    Requests = {r1, r2}
    Kids = {k1}
    MaxVersion = 2
    MaxMail = 2
    MaxFaults = 3
CHECK_DEADLOCK FALSE
INVARIANTS
    TypeOK
    HeardIsKnown
    OnlyCommittedCounts
    RefusedStaysRefused
PROPERTIES
    SettlesListening
