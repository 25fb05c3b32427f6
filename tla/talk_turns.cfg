SPECIFICATION FairSpec
CONSTANTS
    t1 = t1
    t2 = t2
    Tabs = {t1, t2}
    Server = Server
    Nobody = Nobody
    MaxRequests = 2
    MaxSiblings = 2
    MaxRows = 4
    MaxFaults = 1
INVARIANTS
    TypeOK
    TurnsAlternate
    LeafIsATip
    NoticeTellsTheTruth
PROPERTIES
    FinishedNeverReopens
    WriterKeepsItsRow
    BackgroundReported
