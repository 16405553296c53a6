\* Two drives, a trajectory of three samples, and every limit as small as the
\* case beyond it allows.
CONSTANTS
    NumAxes = 2
    Home = 1
    Positions = {1, 2}
    StabilityCycles = 2
    RecoveryAttempts = 2
    Disturbances = 1
    EnableCycles = 4
    HomingSamples = 2
    RequiredStable = 2
    MaxVerification = 3
SPECIFICATION FairSpec
PROPERTIES
    MovesOnlyInMotion
    EnabledOverStableBus
    HomingEndsAtHome
    BootEnds
    LostSlaveStopsRobot
