SPECIFICATION Spec
CONSTANTS
    w1 = w1
    w2 = w2
    c1 = c1
    c2 = c2
    Workers <- TwoWorkers
    Controllers <- OneController
    NoWorker = NoWorker
    PlanMode = "auto"
    MaxFix = 1
    MaxRetries = 1
    Publishes = FALSE
    MaxStageCrashes = 1
    Budget <- FaultBudget
SYMMETRY Symmetry
INVARIANTS
    OutcomeIsAtomic
    Coherent
    PlanGate
PROPERTIES
    TerminalIsFinal
    KeepsPromise
CHECK_DEADLOCK FALSE
