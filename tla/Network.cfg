SPECIFICATION FairSpec
CONSTANTS
    n1 = n1
    n2 = n2
    n3 = n3
    h1 = h1
    Nodes <- OneNode
    Batches <- OneBatch
    NumSteps = 2
    OnFailure <- UndoOnFailure
    Undoable <- FirstStep
    Repeatable <- FirstStep
    UndoRepeatable = FALSE
    HasCanary = TRUE
    Threshold = 10
    MaxParallel = 1
    PauseBetween = FALSE
    MaxAttempts = 2
    Actors <- OneOperator
    QueueOutcomes = {"queued"}
    UndoOutcomes = {"queued"}
    DispatchOutcomes = {"dispatched", "failed"}
    MaxPerPoll = 4
    MaxConcurrent = 4
    AdmitOutcomes = {"accepted", "refused"}
    ToolOutcomes = {"succeeded", "failed"}
    Budget <- ApproveTrouble
INVARIANTS
    AtMostOnce
    Accounted
PROPERTIES
    Settles
CHECK_DEADLOCK FALSE
