SPECIFICATION Spec
CONSTANTS
    w1 = w1
    w2 = w2
    c1 = c1
    c2 = c2
    Workers <- TwoWorkers
    Controllers <- TwoControllers
    NoWorker = NoWorker
    PlanMode = "unstaged"
    MaxFix = 1
    MaxRetries = 1
    Publishes = TRUE
    MaxStageCrashes = 0
    Budget <- LapseBudget
SYMMETRY FullSymmetry
INVARIANTS
    OwnerUndisturbed
    OutcomeIsAtomic
PROPERTIES
    KeepsPromise
CHECK_DEADLOCK FALSE
