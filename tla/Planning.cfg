\* Programs of up to two segments and plans of up to six samples, two positions
\* in the buffer, and at most two plans and two STOP commands.
CONSTANTS
    Config <- MCConfig
    Programs <- MCPrograms
    Arms <- MCArms
    Plans <- MCPlans
    Solvers <- MCSolvers
    JointMoves <- MCJointMoves
    TimeCapacity = 20
    Capacity = 2
    Blank = "blank"
    Prefill = 2
    JointSpeed = 65
    JointRange = 600
    MaxPlans = 2
    MaxStops = 2
SPECIFICATION FairSpec
INVARIANTS
    PlanningInv
    ProfileIsFeasible
    StoredTrajectoryIsSmooth
    JointMoveIsSound
PROPERTIES
    ImplementsPathValidation
    HeldRobotStays
    NeitherWaitsForGood
