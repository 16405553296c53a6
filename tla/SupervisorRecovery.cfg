\* Preview, emergency stops and their recovery.
CONSTANTS
    QueueLength = 5
    MaxMessagesPerCycle = 5
    HmiTurns = 1
    InjectedInputs = {"ESTOP"}
    Commands <- SafeCommands
    RelayReplies = {TRUE}
    HoldReplies = {"STOPPED", "MOVING", "FAILED"}
    SampleCount = 1
    ClearanceStableCycles = 1
    StopTimeout = 1
SPECIFICATION Spec
PROPERTIES
    ImplementsPolicy
