------------------------- MODULE StateMachineProofs -------------------------
(***************************************************************************)
(* Proofs about StateMachine, for both execution policies and for every    *)
(* set of severities and safety snapshots.                                 *)
(*                                                                         *)
(* PolicyInv is inductive as it stands: what a running execution may rely  *)
(* on (RunningProgramIsAuthorised) survives an event because the handlers  *)
(* that withdraw an authorisation are only reachable in states that        *)
(* ModeMatchesState says carry no execution mode.                          *)
(***************************************************************************)
EXTENDS StateMachine, TLAPS

\* The finite types and the variable groups are expanded everywhere.
USE DEF LegacyExecutionStates, PausableStates, RobotStates, StoppedStates,
        AbortableStates, ExecutionModes, Severities,
        stateVars, programVars, latchVars

-----------------------------------------------------------------------------
(* Helpers.                                                                *)

\* Storing one safety input keeps the snapshot a snapshot.
LEMMA SafetyInputType ==
    ASSUME safety \in SafetySnapshot, NEW b \in BOOLEAN
    PROVE  /\ [safety EXCEPT !.estopActive = b] \in SafetySnapshot
           /\ [safety EXCEPT !.protectiveStopActive = b] \in SafetySnapshot
           /\ [safety EXCEPT !.globalFaultActive = b] \in SafetySnapshot
BY DEF SafetySnapshot

\* The classified severity is a severity, and it stops the robot.
LEMMA SeverityTypes ==
    ASSUME NEW severity \in FaultSeverities
    PROVE  /\ Classified(severity) \in Severities
           /\ StopStateFor(severity) \in StoppedStates
BY StateMachineAssumption DEF Classified, StopStateFor

-----------------------------------------------------------------------------
(* The three groups of events of Next.                                     *)

\* Before any event the policy is in order.
LEMMA InitPolicyInv == Init => PolicyInv
<1> SUFFICES ASSUME Init PROVE PolicyInv
  OBVIOUS
<1>1. safety \in SafetySnapshot
  BY DEF Init, SafetySnapshot
<1>2. TypeOK
  BY <1>1, StateMachineAssumption DEF Init, TypeOK
<1>3. ProgramLifecycle /\ ModeMatchesState /\ RunningProgramIsAuthorised
  BY DEF Init, ProgramLifecycle, ModeMatchesState, RunningProgramIsAuthorised
<1> QED
  BY <1>2, <1>3 DEF PolicyInv

\* Safety inputs, faults and snapshots.
LEMMA SafetyEventPolicyInv ==
    ASSUME PolicyInv, SafetyEvent, UNCHANGED unifiedExecutionPolicy
    PROVE  PolicyInv'
<1> USE DEF PolicyInv, TypeOK, ProgramLifecycle, ModeMatchesState,
            RunningProgramIsAuthorised, CancelExecution, TransitionTo
<1>1. CASE ProtectiveStopAsserted
  BY <1>1, SafetyInputType DEF ProtectiveStopAsserted
<1>2. CASE ProtectiveStopCleared
  <2>1. safety' \in SafetySnapshot
    BY <1>2, SafetyInputType DEF ProtectiveStopCleared
  <2> QED
    BY <1>2, <2>1 DEF ProtectiveStopCleared
<1>3. CASE EstopAsserted
  BY <1>3, SafetyInputType DEF EstopAsserted
<1>4. CASE EstopReleased
  <2>1. safety' \in SafetySnapshot
    BY <1>4, SafetyInputType DEF EstopReleased
  <2>2. (emergencyStopReleased \/ activeState = "EMERGENCY_STOP") \in BOOLEAN
    OBVIOUS
  <2> QED
    BY <1>4, <2>1, <2>2 DEF EstopReleased
<1>5. ASSUME NEW severity \in FaultSeverities, FaultDetected(severity)
      PROVE  PolicyInv'
  <2>1. safety' \in SafetySnapshot
    BY <1>5, SafetyInputType DEF FaultDetected
  <2>2. activeState' \in StoppedStates /\ faultSeverity' \in Severities
    BY <1>5, SeverityTypes DEF FaultDetected
  <2> QED
    BY <1>5, <2>1, <2>2 DEF FaultDetected
<1>6. ASSUME NEW snapshot \in SafetySnapshots, UpdateSafety(snapshot)
      PROVE  PolicyInv'
  BY <1>6, StateMachineAssumption DEF UpdateSafety
<1> QED
  BY <1>1, <1>2, <1>3, <1>4, <1>5, <1>6 DEF SafetyEvent

\* Operator commands.
LEMMA OperatorEventPolicyInv ==
    ASSUME PolicyInv, OperatorEvent, UNCHANGED unifiedExecutionPolicy
    PROVE  PolicyInv'
<1> USE DEF PolicyInv, TypeOK, ProgramLifecycle, ModeMatchesState,
            RunningProgramIsAuthorised, CancelExecution, TransitionTo,
            SetProgram, ClearProgram
<1>1. CASE Rejected
  BY <1>1 DEF Rejected, machineVars
<1>2. CASE PauseResume
  BY <1>1, <1>2 DEF PauseResume, Pause, Resume
<1>3. CASE Reset
  <2>1. CASE ResetProgramming
    BY <2>1 DEF ResetProgramming
  <2>2. CASE ResetFault
    BY <2>2 DEF ResetFault
  <2>3. CASE ResetEmergency
    <3>1. /\ emergencyResetAcknowledged' \in BOOLEAN
          /\ homingRequired' \in BOOLEAN
          /\ faultSeverity' \in Severities
      BY <2>3 DEF ResetEmergency
    <3>2. /\ activeState' \in {"EMERGENCY_STOP", "HOMING"}
          /\ previousState' \in RobotStates
      BY <2>3 DEF ResetEmergency
    <3> QED
      BY <2>3, <3>1, <3>2 DEF ResetEmergency
  <2> QED
    BY <1>1, <1>3, <2>1, <2>2, <2>3 DEF Reset
<1>4. CASE Home
  <2>1. CASE HomeAfterEmergency
    BY <2>1 DEF HomeAfterEmergency
  <2>2. CASE HomeFromIdle
    BY <2>2 DEF HomeFromIdle
  <2> QED
    BY <1>1, <1>4, <2>1, <2>2 DEF Home
<1>5. CASE Teach
  BY <1>1, <1>5, ZenonT(40) DEF Teach
<1>6. CASE ValidatePreview
  BY <1>1, <1>6, ZenonT(40) DEF ValidatePreview, PreviewAllowed
<1>7. CASE StartReplay
  BY <1>1, <1>7 DEF StartReplay, ReplayAllowed, PreviewAllowed
<1> QED
  BY <1>2, <1>3, <1>4, <1>5, <1>6, <1>7 DEF OperatorEvent

\* Results of the active state, and stale ones.
LEMMA StateResultPolicyInv ==
    ASSUME PolicyInv, UNCHANGED unifiedExecutionPolicy,
           NEW source \in RobotStates, StateResult(source)
    PROVE  PolicyInv'
<1> USE DEF PolicyInv, TypeOK, ProgramLifecycle, ModeMatchesState,
            RunningProgramIsAuthorised, CancelExecution, TransitionTo,
            SetProgram, ClearProgram
<1>1. CASE Rejected
  BY <1>1 DEF Rejected, machineVars
<1>2. CASE StateComplete(source)
  <2>1. CASE PlainComplete
    BY <2>1 DEF PlainComplete, PlainCompletionAllowed, CompletionTarget
  <2>2. CASE TeachingComplete
    BY <2>2 DEF TeachingComplete
  <2>3. CASE PathValidationComplete
    BY <2>3 DEF PathValidationComplete
  <2>4. CASE ExecutionComplete
    BY <2>4 DEF ExecutionComplete
  <2> QED
    BY <1>1, <1>2, <2>1, <2>2, <2>3, <2>4
    DEF StateComplete, StaleResult, CompletionRejected
<1>3. ASSUME NEW severity \in FaultSeverities, StateFailed(source, severity)
      PROVE  PolicyInv'
  BY <1>1, <1>3, SeverityTypes DEF StateFailed, StaleResult
<1>4. CASE ValidationRejected(source)
  BY <1>1, <1>4, ZenonT(40) DEF ValidationRejected, StaleResult
<1>5. CASE StateAbortedHome(source)
  BY <1>1, <1>5 DEF StateAbortedHome, StaleResult
<1>6. CASE StateAbortedReset(source)
  BY <1>1, <1>6 DEF StateAbortedReset, StaleResult
<1> QED
  BY <1>2, <1>3, <1>4, <1>5, <1>6 DEF StateResult

-----------------------------------------------------------------------------
\* An event, or none, keeps the policy in order.
LEMMA PolicyInvNext ==
    ASSUME PolicyInv, [Next]_machineVars
    PROVE  PolicyInv'
<1>1. CASE Next
  BY <1>1, SafetyEventPolicyInv, OperatorEventPolicyInv,
     StateResultPolicyInv DEF Next
<1>2. CASE UNCHANGED machineVars
  BY <1>2 DEF machineVars, PolicyInv, TypeOK, ProgramLifecycle,
     ModeMatchesState, RunningProgramIsAuthorised
<1> QED
  BY <1>1, <1>2

\* Every event, in any order and from any source, keeps the program life
\* cycle, the execution mode and the authorisation of what runs in order.
THEOREM PolicyInvariant == Spec => []PolicyInv
BY InitPolicyInv, PolicyInvNext, PTL DEF Spec

\* The fields of the Supervisor policy keep the values of their C types.
THEOREM TypeCorrect == Spec => []TypeOK
BY PolicyInvariant, PTL DEF PolicyInv

\* Whatever runs is authorised for as long as it runs.
THEOREM ExecutionAuthorised ==
    Spec => [](RunningProgramIsAuthorised /\ ProgramLifecycle)
BY PolicyInvariant, PTL DEF PolicyInv

\* No flag of the program outlives the one it rests on.
THEOREM LifecycleInOrder == Spec => []ProgramLifecycle
BY PolicyInvariant, PTL DEF PolicyInv

\* An execution mode is set exactly while a moving state is active or paused.
THEOREM ModesMatchStates == Spec => []ModeMatchesState
BY PolicyInvariant, PTL DEF PolicyInv

-----------------------------------------------------------------------------
(* The destination of Resume.                                              *)

\* In EMERGENCY_STOP nothing is left to resume: HOME keeps the destination.
ResumeInv ==
    /\ ResumeDestinationIsCurrent
    /\ activeState = "EMERGENCY_STOP" => resumeState = "IDLE"

\* Every event keeps the destination current; the failure of a state leaves it
\* behind in FAULT only, whose one way out drops it.
LEMMA ResumeStep ==
    ASSUME "EMERGENCY" \notin FaultSeverities,
           TypeOK, ResumeInv, [Next]_machineVars
    PROVE  ResumeInv'
<1> USE DEF ResumeInv, ResumeDestinationIsCurrent, TransitionTo, Rejected,
            machineVars, CancelExecution, TypeOK
<1>1. ASSUME NEW severity \in FaultSeverities
      PROVE  StopStateFor(severity) = "FAULT"
  BY DEF StopStateFor
<1>2. CASE SafetyEvent
  <2>1. ASSUME NEW severity \in FaultSeverities, FaultDetected(severity)
        PROVE  ResumeInv'
    BY <1>1, <2>1 DEF FaultDetected
  <2>2. CASE EstopAsserted
    BY <2>2 DEF EstopAsserted
  <2>3. CASE EstopReleased
    BY <2>3 DEF EstopReleased
  <2>4. CASE ProtectiveStopAsserted
    BY <2>4 DEF ProtectiveStopAsserted
  <2> QED
    BY <1>2, <2>1, <2>2, <2>3, <2>4
    DEF SafetyEvent, ProtectiveStopCleared, UpdateSafety
<1>3. CASE OperatorEvent
  <2>1. CASE Reset
    BY <2>1 DEF Reset, ResetProgramming, ResetFault, ResetEmergency
  <2>2. CASE PauseResume
    BY <2>2 DEF PauseResume, Pause, Resume
  <2>3. CASE Home
    BY <2>3 DEF Home, HomeAfterEmergency, HomeFromIdle
  <2> QED
    BY <1>3, <2>1, <2>2, <2>3
    DEF OperatorEvent, Teach, ValidatePreview, StartReplay, ReplayAllowed,
        PreviewAllowed
<1>4. ASSUME NEW source \in RobotStates, StateResult(source)
      PROVE  ResumeInv'
  <2> USE DEF StaleResult
  <2>1. CASE StateComplete(source)
    <3>1. CASE PlainComplete
      BY <3>1 DEF PlainComplete, PlainCompletionAllowed, CompletionTarget
    <3> QED
      BY <2>1, <3>1
      DEF StateComplete, TeachingComplete, PathValidationComplete,
          ExecutionComplete, CompletionRejected
  <2>2. ASSUME NEW severity \in FaultSeverities, StateFailed(source, severity)
        PROVE  ResumeInv'
    BY <1>1, <2>2 DEF StateFailed
  <2> QED
    BY <1>4, <2>1, <2>2
    DEF StateResult, ValidationRejected, StateAbortedHome, StateAbortedReset
<1> QED
  BY <1>2, <1>3, <1>4 DEF Next

\* PAUSED returns to the state it interrupted, and no recovery leaves a
\* destination behind, as long as no fault is reported with severity EMERGENCY.
THEOREM ResumeIsCurrent ==
    ASSUME "EMERGENCY" \notin FaultSeverities
    PROVE  Spec => []ResumeDestinationIsCurrent
<1>1. Init => ResumeInv
  BY DEF Init, ResumeInv, ResumeDestinationIsCurrent
<1>2. TypeOK /\ ResumeInv /\ [Next]_machineVars => ResumeInv'
  BY ResumeStep
<1>3. ResumeInv => ResumeDestinationIsCurrent
  BY DEF ResumeInv
<1> QED
  BY <1>1, <1>2, <1>3, TypeCorrect, PTL DEF Spec

-----------------------------------------------------------------------------
(* Steps that leave a stopped state or start an execution.                 *)

\* Motion is only started or resumed with a healthy safety snapshot.
THEOREM StartsPermitted == Spec => ExecutionStartsPermitted
<1>1. [Next]_machineVars =>
          [(activeState' \in PausableStates /\ activeState \notin PausableStates)
               => SafetyReadyForRecovery]_machineVars
  <2> SUFFICES ASSUME Next, activeState' \in PausableStates,
                      activeState \notin PausableStates
               PROVE  SafetyReadyForRecovery
    OBVIOUS
  <2> USE DEF TransitionTo, CanMove, Rejected, machineVars
  <2>1. CASE SafetyEvent
    BY <2>1, SeverityTypes
    DEF SafetyEvent, ProtectiveStopAsserted, ProtectiveStopCleared,
        EstopAsserted, EstopReleased, FaultDetected, UpdateSafety
  <2>2. CASE OperatorEvent
    BY <2>2
    DEF OperatorEvent, PauseResume, Pause, Resume, Reset, ResetProgramming,
        ResetFault, ResetEmergency, Home, HomeAfterEmergency, HomeFromIdle,
        Teach, ValidatePreview, StartReplay, ReplayAllowed, PreviewAllowed
  <2>3. ASSUME NEW source \in RobotStates, StateResult(source) PROVE FALSE
    <3> USE DEF StaleResult
    <3>1. ~StateComplete(source)
      BY DEF StateComplete, PlainComplete, PlainCompletionAllowed,
             CompletionTarget, TeachingComplete, PathValidationComplete,
             ExecutionComplete, CompletionRejected
    <3>2. ASSUME NEW severity \in FaultSeverities, StateFailed(source, severity)
          PROVE  FALSE
      BY <3>2, SeverityTypes DEF StateFailed
    <3>3. /\ ~ValidationRejected(source)
          /\ ~StateAbortedHome(source)
          /\ ~StateAbortedReset(source)
      BY DEF ValidationRejected, StateAbortedHome, StateAbortedReset
    <3> QED
      BY <2>3, <3>1, <3>2, <3>3 DEF StateResult
  <2> QED
    BY <2>1, <2>2, <2>3 DEF Next
<1> QED
  BY <1>1, PTL DEF Spec, ExecutionStartsPermitted

\* What a stopped robot knows about its program.  Only ESTOP_ASSERTED may enter
\* EMERGENCY_STOP: a fault of severity EMERGENCY does not reset the latches.
LEMMA AcknowledgementStep ==
    ASSUME "EMERGENCY" \notin FaultSeverities,
           AcknowledgedEmergencyHasNoProgram, [Next]_machineVars
    PROVE  AcknowledgedEmergencyHasNoProgram'
<1> USE DEF AcknowledgedEmergencyHasNoProgram, TransitionTo, Rejected,
            machineVars, SetProgram, ClearProgram
<1>1. ASSUME NEW severity \in FaultSeverities
      PROVE  StopStateFor(severity) = "FAULT"
  BY DEF StopStateFor
<1>2. CASE SafetyEvent
  <2>1. ASSUME NEW severity \in FaultSeverities, FaultDetected(severity)
        PROVE  AcknowledgedEmergencyHasNoProgram'
    BY <1>1, <2>1 DEF FaultDetected
  <2>2. CASE EstopAsserted
    BY <2>2 DEF EstopAsserted
  <2>3. CASE EstopReleased
    BY <2>3 DEF EstopReleased
  <2> QED
    BY <1>2, <2>1, <2>2, <2>3
    DEF SafetyEvent, ProtectiveStopAsserted, ProtectiveStopCleared, UpdateSafety
<1>3. CASE OperatorEvent
  <2>1. CASE Reset
    BY <2>1 DEF Reset, ResetProgramming, ResetFault, ResetEmergency
  <2>2. CASE PauseResume
    BY <2>2 DEF PauseResume, Pause, Resume
  <2> QED
    BY <1>3, <2>1, <2>2
    DEF OperatorEvent, Home, HomeAfterEmergency, HomeFromIdle, Teach,
        ValidatePreview, StartReplay
<1>4. ASSUME NEW source \in RobotStates, StateResult(source)
      PROVE  AcknowledgedEmergencyHasNoProgram'
  <2> USE DEF StaleResult
  <2>1. CASE StateComplete(source)
    BY <2>1
    DEF StateComplete, PlainComplete, PlainCompletionAllowed, CompletionTarget,
        TeachingComplete, PathValidationComplete, ExecutionComplete,
        CompletionRejected
  <2>2. ASSUME NEW severity \in FaultSeverities, StateFailed(source, severity)
        PROVE  AcknowledgedEmergencyHasNoProgram'
    BY <1>1, <2>2 DEF StateFailed
  <2> QED
    BY <1>4, <2>1, <2>2
    DEF StateResult, ValidationRejected, StateAbortedHome, StateAbortedReset
<1> QED
  BY <1>2, <1>3, <1>4 DEF Next

\* An acknowledged emergency has dropped the program, as long as no fault is
\* reported with severity EMERGENCY (no module of the repository does).
THEOREM EmergencyAcknowledgement ==
    ASSUME "EMERGENCY" \notin FaultSeverities
    PROVE  Spec => []AcknowledgedEmergencyHasNoProgram
<1>1. Init => AcknowledgedEmergencyHasNoProgram
  BY DEF Init, AcknowledgedEmergencyHasNoProgram
<1>2. AcknowledgedEmergencyHasNoProgram /\ [Next]_machineVars
          => AcknowledgedEmergencyHasNoProgram'
  BY AcknowledgementStep
<1> QED
  BY <1>1, <1>2, PTL DEF Spec

\* Every way out of FAULT and EMERGENCY_STOP drops the program.
THEOREM RecoveryIsDestructive ==
    ASSUME "EMERGENCY" \notin FaultSeverities
    PROVE  Spec => RecoveryDropsProgram
<1>1. AcknowledgedEmergencyHasNoProgram /\ TypeOK /\ [Next]_machineVars =>
          [(activeState \in StoppedStates /\ activeState' \notin StoppedStates)
               => recordedProgramAvailable' = FALSE]_machineVars
  <2> SUFFICES ASSUME AcknowledgedEmergencyHasNoProgram, TypeOK, Next,
                      activeState \in StoppedStates,
                      activeState' \notin StoppedStates
               PROVE  recordedProgramAvailable' = FALSE
    OBVIOUS
  <2> USE DEF TransitionTo, CanMove, Rejected, machineVars, SetProgram,
              ClearProgram
  <2>1. CASE SafetyEvent
    BY <2>1, SeverityTypes
    DEF SafetyEvent, ProtectiveStopAsserted, ProtectiveStopCleared,
        EstopAsserted, EstopReleased, FaultDetected, UpdateSafety
  <2>2. CASE OperatorEvent
    <3>1. Reset \/ Home
      BY <2>2
      DEF OperatorEvent, PauseResume, Pause, Resume, Teach, ValidatePreview,
          StartReplay, ReplayAllowed, PreviewAllowed
    <3>2. CASE Reset
      BY <3>2 DEF Reset, ResetProgramming, ResetFault, ResetEmergency
    <3>3. CASE Home
      BY <3>3
      DEF Home, HomeAfterEmergency, HomeFromIdle, HomeAfterEmergencyAllowed,
          AcknowledgedEmergencyHasNoProgram, TypeOK
    <3> QED
      BY <3>1, <3>2, <3>3
  <2>3. ASSUME NEW source \in RobotStates, StateResult(source) PROVE FALSE
    <3> USE DEF StaleResult
    <3>1. ~StateComplete(source)
      BY DEF StateComplete, PlainComplete, PlainCompletionAllowed,
             TeachingComplete, PathValidationComplete, ExecutionComplete,
             CompletionRejected
    <3>2. ASSUME NEW severity \in FaultSeverities, StateFailed(source, severity)
          PROVE  FALSE
      BY <3>2, SeverityTypes DEF StateFailed
    <3> QED
      BY <2>3, <3>1, <3>2
      DEF StateResult, ValidationRejected, StateAbortedHome, StateAbortedReset
  <2> QED
    BY <2>1, <2>2, <2>3 DEF Next
<1> QED
  BY <1>1, EmergencyAcknowledgement, TypeCorrect, PTL
  DEF Spec, RecoveryDropsProgram

-----------------------------------------------------------------------------
(* The policy implements WeldProgram.                                      *)

\* A program is validated only once: PATH_VALIDATION holds a bare draft.
ValidatingDraft ==
    activeState = "PATH_VALIDATION" =>
        /\ recordedProgramAvailable
        /\ ~validatedTrajectoryAvailable
        /\ ~previewAccepted

\* PATH_VALIDATION is entered from TEACHING only, which submits a draft.
LEMMA ValidatingDraftStep ==
    ASSUME ValidatingDraft, [Next]_machineVars
    PROVE  ValidatingDraft'
<1> USE DEF ValidatingDraft, TransitionTo, Rejected, machineVars, SetProgram,
            ClearProgram
<1>1. CASE SafetyEvent
  BY <1>1, SeverityTypes
  DEF SafetyEvent, ProtectiveStopAsserted, ProtectiveStopCleared,
      EstopAsserted, EstopReleased, FaultDetected, UpdateSafety
<1>2. CASE OperatorEvent
  <2>1. CASE Reset
    BY <2>1 DEF Reset, ResetProgramming, ResetFault, ResetEmergency
  <2>2. CASE PauseResume
    BY <2>2 DEF PauseResume, Pause, Resume
  <2> QED
    BY <1>2, <2>1, <2>2
    DEF OperatorEvent, Home, HomeAfterEmergency, HomeFromIdle, Teach,
        ValidatePreview, StartReplay
<1>3. ASSUME NEW source \in RobotStates, StateResult(source)
      PROVE  ValidatingDraft'
  <2> USE DEF StaleResult
  <2>1. CASE StateComplete(source)
    BY <2>1
    DEF StateComplete, PlainComplete, PlainCompletionAllowed, CompletionTarget,
        TeachingComplete, PathValidationComplete, ExecutionComplete,
        CompletionRejected
  <2>2. ASSUME NEW severity \in FaultSeverities, StateFailed(source, severity)
        PROVE  ValidatingDraft'
    BY <2>2, SeverityTypes DEF StateFailed
  <2> QED
    BY <1>3, <2>1, <2>2
    DEF StateResult, ValidationRejected, StateAbortedHome, StateAbortedReset
<1> QED
  BY <1>1, <1>2, <1>3 DEF Next

\* The status as a function of the three program flags.
StatusOf(recorded, validated, accepted) ==
    IF accepted THEN "ACCEPTED"
    ELSE IF validated THEN "VALIDATED"
    ELSE IF recorded THEN "DRAFT"
    ELSE "ABSENT"

\* ProgramStatus is that function, before and after a step.
LEMMA StatusOfFlags ==
    /\ TypeOK => ProgramStatus = StatusOf(recordedProgramAvailable,
                     validatedTrajectoryAvailable, previewAccepted)
    /\ TypeOK' => ProgramStatus' = StatusOf(recordedProgramAvailable',
                      validatedTrajectoryAvailable', previewAccepted')
BY DEF TypeOK, ProgramStatus, StatusOf

\* A step that leaves the program alone, or drops it, stops what is running.
LEMMA StopOrDiscard ==
    ASSUME PolicyInv, PolicyInv', executionMode' \in {"NONE", executionMode},
           \/ UNCHANGED programVars
           \/ executionMode' = "NONE" /\ ClearProgram
    PROVE  [Lifecycle!Next]_(Lifecycle!vars)
<1> USE StatusOfFlags DEF PolicyInv
<1>1. CASE UNCHANGED programVars
  <2>1. ProgramStatus' = ProgramStatus
    BY <1>1 DEF ProgramStatus
  <2> QED
    BY <2>1 DEF Lifecycle!Next, Lifecycle!Stop, Lifecycle!vars
<1>2. CASE executionMode' = "NONE" /\ ClearProgram
  <2>1. ProgramStatus' = "ABSENT"
    BY <1>2 DEF ProgramStatus, ClearProgram, SetProgram
  <2> QED
    BY <1>2, <2>1 DEF Lifecycle!Next, Lifecycle!Discard
<1> QED
  BY <1>1, <1>2

\* Every event is a step of the life cycle or leaves it alone.
LEMMA LifecycleStep ==
    ASSUME PolicyInv, PolicyInv', ValidatingDraft, Next
    PROVE  [Lifecycle!Next]_(Lifecycle!vars)
<1> USE DEF PolicyInv
<1>0. /\ ProgramStatus = StatusOf(recordedProgramAvailable,
             validatedTrajectoryAvailable, previewAccepted)
      /\ ProgramStatus' = StatusOf(recordedProgramAvailable',
             validatedTrajectoryAvailable', previewAccepted')
  BY StatusOfFlags
<1>1. CASE UNCHANGED machineVars
  BY <1>1, StopOrDiscard DEF machineVars
<1>2. CASE SafetyEvent
  BY <1>2, StopOrDiscard
  DEF SafetyEvent, ProtectiveStopAsserted, ProtectiveStopCleared,
      EstopAsserted, EstopReleased, FaultDetected, UpdateSafety,
      CancelExecution
<1>3. CASE OperatorEvent
  <2>1. CASE PauseResume \/ Reset \/ Home
    BY <1>1, <2>1, StopOrDiscard
    DEF PauseResume, Pause, Resume, Rejected, Reset, ResetProgramming,
        ResetFault, ResetEmergency, Home, HomeAfterEmergency, HomeFromIdle,
        CancelExecution
  <2>2. CASE Teach
    <3>1. CASE activeState # "IDLE"
      BY <1>1, <2>2, <3>1 DEF Teach, Rejected
    <3>2. CASE activeState = "IDLE"
      <4>1. executionMode = "NONE" /\ executionMode' = "NONE"
        BY <2>2, <3>2 DEF Teach, ModeMatchesState
      <4>2. ProgramStatus' = IF ProgramStatus = "ABSENT" THEN "ABSENT" ELSE "DRAFT"
        BY <1>0, <2>2, <3>2
        DEF Teach, SetProgram, StatusOf, ProgramLifecycle, TypeOK
      <4> QED
        BY <4>1, <4>2 DEF Lifecycle!Next, Lifecycle!Edit
    <3> QED
      BY <3>1, <3>2
  <2>3. CASE ValidatePreview
    <3>1. CASE PreviewAllowed
      <4>1. executionMode = "NONE" /\ executionMode' = "PREVIEW"
        BY <2>3, <3>1 DEF ValidatePreview, PreviewAllowed, ModeMatchesState
      <4>2. ProgramStatus \in {"VALIDATED", "ACCEPTED"}
            /\ ProgramStatus' = "VALIDATED"
        BY <1>0, <2>3, <3>1 DEF ValidatePreview, PreviewAllowed, StatusOf
      <4> QED
        BY <4>1, <4>2 DEF Lifecycle!Next, Lifecycle!StartPreview
    <3> QED
      BY <1>1, <2>3, <3>1 DEF ValidatePreview, Rejected
  <2>4. CASE StartReplay
    <3>1. CASE ReplayAllowed
      <4>1. executionMode = "NONE" /\ executionMode' = "PRODUCTION"
        BY <2>4, <3>1
        DEF StartReplay, ReplayAllowed, PreviewAllowed, ModeMatchesState
      <4>2. ProgramStatus = "ACCEPTED" /\ ProgramStatus' = ProgramStatus
        BY <1>0, <2>4, <3>1
        DEF StartReplay, ReplayAllowed, StatusOf, programVars
      <4> QED
        BY <4>1, <4>2 DEF Lifecycle!Next, Lifecycle!StartProduction
    <3> QED
      BY <1>1, <2>4, <3>1 DEF StartReplay, Rejected
  <2> QED
    BY <1>3, <2>1, <2>2, <2>3, <2>4 DEF OperatorEvent
<1>4. ASSUME NEW source \in RobotStates, StateResult(source)
      PROVE  [Lifecycle!Next]_(Lifecycle!vars)
  <2>1. CASE PlainComplete
    BY <2>1, StopOrDiscard DEF PlainComplete
  <2>2. CASE TeachingComplete \/ (ValidationRejected(source) /\ ~Rejected)
    <3>1. /\ activeState \in {"TEACHING", "PATH_VALIDATION"}
          /\ executionMode' = "NONE"
          /\ SetProgram(TRUE, FALSE, FALSE)
      BY <2>2 DEF TeachingComplete, ValidationRejected, StaleResult
    <3>2. executionMode = "NONE" /\ ProgramStatus' = "DRAFT"
      BY <1>0, <3>1 DEF ModeMatchesState, SetProgram, StatusOf
    <3> QED
      BY <3>1, <3>2 DEF Lifecycle!Next, Lifecycle!Submit
  <2>3. CASE PathValidationComplete
    <3>1. executionMode = "NONE" /\ executionMode' = "NONE"
      BY <2>3 DEF PathValidationComplete, ModeMatchesState
    <3>2. ProgramStatus = "DRAFT" /\ ProgramStatus' = "VALIDATED"
      BY <1>0, <2>3
      DEF PathValidationComplete, ValidatingDraft, SetProgram, StatusOf
    <3> QED
      BY <3>1, <3>2 DEF Lifecycle!Next, Lifecycle!Validate
  <2>4. CASE ExecutionComplete
    <3>1. CASE executionMode = "PREVIEW"
      <4>1. executionMode' = "NONE" /\ ProgramStatus' = "ACCEPTED"
        BY <1>0, <2>4, <3>1
        DEF ExecutionComplete, RunningProgramIsAuthorised, StatusOf
      <4> QED
        BY <3>1, <4>1 DEF Lifecycle!Next, Lifecycle!AcceptPreview
    <3>2. CASE executionMode # "PREVIEW"
      BY <2>4, <3>2, StopOrDiscard DEF ExecutionComplete
    <3> QED
      BY <3>1, <3>2
  <2>5. CASE StateComplete(source)
    BY <1>1, <2>1, <2>2, <2>3, <2>4, <2>5
    DEF StateComplete, StaleResult, CompletionRejected, Rejected
  <2>6. ASSUME NEW severity \in FaultSeverities, StateFailed(source, severity)
        PROVE  [Lifecycle!Next]_(Lifecycle!vars)
    BY <1>1, <2>6, StopOrDiscard DEF StateFailed, StaleResult, Rejected
  <2>7. CASE StateAbortedHome(source) \/ StateAbortedReset(source)
    BY <1>1, <2>7, StopOrDiscard
    DEF StateAbortedHome, StateAbortedReset, StaleResult, Rejected,
        CancelExecution
  <2> QED
    BY <1>1, <1>4, <2>2, <2>5, <2>6, <2>7 DEF StateResult, Rejected
<1> QED
  BY <1>2, <1>3, <1>4 DEF Next

\* The policy implements the life cycle of a weld program: only a program that
\* was validated since its last edit is executed, only one whose Preview ran to
\* its end is welded, under any order of events and any stop.
THEOREM LifecycleImplemented == Spec => ImplementsWeldProgram
<1>1. Init => ValidatingDraft /\ Lifecycle!Init
  BY DEF Init, ValidatingDraft, Lifecycle!Init, ProgramStatus
<1>2. ValidatingDraft /\ [Next]_machineVars => ValidatingDraft'
  BY ValidatingDraftStep
<1>3. PolicyInv /\ PolicyInv' /\ ValidatingDraft /\ [Next]_machineVars
          => [Lifecycle!Next]_(Lifecycle!vars)
  <2>1. UNCHANGED machineVars => UNCHANGED Lifecycle!vars
    BY DEF machineVars, Lifecycle!vars, ProgramStatus
  <2> QED
    BY <2>1, LifecycleStep
<1> QED
  BY <1>1, <1>2, <1>3, PolicyInvariant, PTL
  DEF Spec, ImplementsWeldProgram, Lifecycle!Spec
=============================================================================
