\* Expected to fail: a protective stop moves EMERGENCY_STOP to FAULT, and FAULT
\* recovers by RESET alone.
CONSTANTS
    ExecutionPolicies = {TRUE}
    FaultSeverities <- ReportedSeverities
    SafetySnapshots <- MCSafetySnapshots
SPECIFICATION Spec
INVARIANT
    EmergencyEndsWithHome
