\* Drafts of up to two segments over three places, in two setups and at two
\* speeds.
CONSTANTS
    Positions = {"p", "q", "r"}
    Setups = {"tool1", "tool2"}
    FirstPoints <- FirstPoint
    CollinearTriples <- BackAndForth
    MaxSegments = 2
    MaxSpeed = 2
    DefaultSpeed = 1
    MaxStream = 3
    StorageCapacity = 4
    SampleBudget = 2
    MaxEdits = 3
    MaxPrograms = 2
SPECIFICATION FairSpec
INVARIANTS
    DraftIsSound
    SubmissionIsWellFormed
    TrajectoryIsWhole
    TrajectoryIsOfSubmission
PROPERTIES
    ValidationEnds
