\* Three ports and a table for two peers, a sequence word of three bits, and two
\* commands of each window, one after a restart: the first of them may wrap around.
CONSTANTS
    NumPorts = 3
    HalfRange = 4
    Buttons = {"RECORD", "TOGGLE_ESTOP"}
    MaxSent = 2
    MaxRestarts = 1
    InFlight = 2
    Low = 0
    High = 1
    Beyond = {2}
    NumSlots = 2
    QueueLength = 1
SPECIFICATION FairSpec
INVARIANTS
    LinkInv
    AcceptedOnceInOrder
    ReleasedPoseIsConsumed
PROPERTIES
    NewestIsTaken
    AcceptedIsDelivered
