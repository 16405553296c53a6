\* A draft that is full, and points recorded for one segment more.
CONSTANTS
    Positions = {"p", "q", "r"}
    Setups = {"tool1"}
    FirstPoints <- FirstPoint
    CollinearTriples <- BackAndForth
    MaxSegments = 1
    MaxSpeed = 1
    DefaultSpeed = 1
    MaxStream = 3
    StorageCapacity = 4
    SampleBudget = 2
    MaxEdits = 2
    MaxPrograms = 2
SPECIFICATION Spec
INVARIANT
    PointsFitSegment
