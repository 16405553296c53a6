\* Every command of the operator, no stop input; any state may fail.
CONSTANTS
    QueueLength = 4
    MaxMessagesPerCycle = 4
    HmiTurns = 1
    InjectedInputs = {}
    Commands <- HmiCommands
    RelayReplies = {TRUE}
    HoldReplies = {"STOPPED", "MOVING", "FAILED"}
    SampleCount = 1
    ClearanceStableCycles = 1
    StopTimeout = 1
SPECIFICATION Spec
INVARIANTS
    TaskInv
    RunContextIsCurrent
    ArtifactBacksValidation
PROPERTIES
    RequestReachesTheStep
