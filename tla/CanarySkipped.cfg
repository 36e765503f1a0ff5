SPECIFICATION Spec
CONSTANTS
    n1 = n1
    n2 = n2
    n3 = n3
    h1 = h1
    Nodes <- TwoNodes
    Batches <- CanaryFirst
    NumSteps = 1
    OnFailure <- OneStep
    Undoable <- NoStep
    Repeatable <- NoStep
    UndoRepeatable = FALSE
    HasCanary = TRUE
    Threshold = 10
    MaxParallel = 1
    PauseBetween = FALSE
    MaxAttempts = 2
    Actors <- OneOperator
    QueueOutcomes = {"queued"}
    UndoOutcomes = {"queued"}
    DispatchOutcomes = {"dispatched"}
    MaxPerPoll = 4
    MaxConcurrent = 4
    AdmitOutcomes = {"accepted"}
    ToolOutcomes = {"succeeded", "failed"}
    Budget <- Commands3
PROPERTIES
    CanaryHolds
CHECK_DEADLOCK FALSE
