\* Routes of one and of three legs, validated in one step or in several.
CONSTANTS
    MaxLegs = 3
    MaxLegSamples = 4
    ValidationSamplesPerStep = 2
    RequiredStableCycles = 2
    MaximumVerificationCycles = 3
    RouteLegs = {1, 3}
SPECIFICATION FairRunSpec
INVARIANTS
    RunInv
PROPERTIES
    RouteStartsFromRest
    ApproachEnds
