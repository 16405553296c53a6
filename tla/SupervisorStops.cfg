\* All three stop inputs, in any order and for any time, two HMI turns a tick.
CONSTANTS
    QueueLength = 8
    MaxMessagesPerCycle = 8
    HmiTurns = 2
    InjectedInputs <- StopInputs
    Commands <- RecoveryCommands
    RelayReplies = {TRUE}
    HoldReplies = {"STOPPED", "MOVING", "FAILED"}
    SampleCount = 1
    ClearanceStableCycles = 1
    StopTimeout = 1
SPECIFICATION FairSpec
INVARIANTS
    QueueHasRoom
    StopIsOnItsWay
PROPERTIES
    StopInputStopsRobot
