\* The policy the RTOS wrapper runs, and the earlier three-state execution
\* policy kept for the regression suite.
CONSTANTS
    ExecutionPolicies = {TRUE, FALSE}
    FaultSeverities <- ReportedSeverities
    SafetySnapshots <- MCSafetySnapshots
SPECIFICATION Spec
INVARIANTS
    PolicyInv
    ResumeDestinationIsCurrent
PROPERTIES
    RecoveryDropsProgram
    ImplementsWeldProgram
