SPECIFICATION FairSpec
CONSTANTS
    w1 = w1
    w2 = w2
    Workers = {w1, w2}
    NoWorker = NoWorker
    Budget <- HostBudget
INVARIANTS
    TypeOK
    NamesOpenPR
PROPERTIES
    ForeignKept
    AnnouncedIsVerified
    PublishEnds
    DecisionArrives
CHECK_DEADLOCK FALSE
