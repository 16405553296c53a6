\* Any service may fail, the relay command included.
CONSTANTS
    SampleCount = 3
    ClearanceStableCycles = 2
    StopTimeout = 3
    RelayReplies = {TRUE, FALSE}
SPECIFICATION FairRunSpec
INVARIANTS
    RunInv
PROPERTIES
    SamplesMatchRelay
    AbortEnds
