SPECIFICATION Spec
CONSTANTS
    n1 = n1
    n2 = n2
    n3 = n3
    h1 = h1
    Nodes <- OneNode
    Batches <- OneBatch
    NumSteps = 1
    OnFailure <- OneStep
    Undoable <- FirstStep
    Repeatable <- NoStep
    UndoRepeatable = FALSE
    HasCanary = TRUE
    Threshold = 10
    MaxParallel = 1
    PauseBetween = FALSE
    MaxAttempts = 2
    Actors <- OneOperator
    QueueOutcomes = {"queued", "failed"}
    UndoOutcomes = {"queued", "failed"}
    DispatchOutcomes = {"dispatched"}
    MaxPerPoll = 4
    MaxConcurrent = 4
    AdmitOutcomes = {"accepted"}
    ToolOutcomes = {"succeeded", "failed"}
    Budget <- Commands3Trouble
INVARIANTS
    UndoneOnce
    AtMostOnce
CHECK_DEADLOCK FALSE
