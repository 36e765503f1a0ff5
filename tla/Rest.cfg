SPECIFICATION FairSpec
CONSTANTS
    w1 = w1
    w2 = w2
    c1 = c1
    c2 = c2
    Workers <- TwoWorkers
    Controllers <- OneController
    NoWorker = NoWorker
    PlanMode = "gated"
    MaxFix = 1
    MaxRetries = 1
    Publishes = TRUE
    MaxStageCrashes = 1
    Budget <- RestBudget
INVARIANTS
    NoOrphan
    OneAgent
    PlanGate
PROPERTIES
    ComesToRest
    CancelledLetsGo
    KeepsPromise
CHECK_DEADLOCK FALSE
