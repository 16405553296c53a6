---------------------------- MODULE StateMachine ----------------------------
(***************************************************************************)
(* The pure Supervisor policy of StateMachine/state_machine.c: the global  *)
(* robot state, the authorisation of the taught program, the emergency     *)
(* latches, and one action per SupervisorEvent.                            *)
(*                                                                         *)
(* state_machine_handle_event() answers HANDLED, TRANSITIONED or REJECTED; *)
(* a rejection that changes nothing is a stuttering step, and a rejection  *)
(* that does change something (the code has three) is modelled with its    *)
(* changes.  Diagnostics (lastEvent, the counters, the fault code,         *)
(* timestamps) are left out.                                               *)
(***************************************************************************)
EXTENDS Naturals

CONSTANTS
    ExecutionPolicies,  \* values of unifiedExecutionPolicy: TRUE in the wrapper
    FaultSeverities,    \* severities a FAULT_DETECTED or STATE_FAILED carries
    SafetySnapshots     \* snapshots the safety monitor may post

Severities ==
    {"NONE", "WARNING", "RECOVERABLE", "PROTECTIVE_STOP", "EMERGENCY"}

(***************************************************************************)
(* RobotSafetySnapshot.  `ready' stands for the conjunction of             *)
(* statusValid, motionPermitted, drivesReady and ethercatHealthy, which    *)
(* the policy only ever reads together.                                    *)
(***************************************************************************)
SafetySnapshot ==
    [estopActive : BOOLEAN, protectiveStopActive : BOOLEAN,
     globalFaultActive : BOOLEAN, ready : BOOLEAN]

ASSUME StateMachineAssumption ==
    /\ ExecutionPolicies \subseteq BOOLEAN
    /\ FaultSeverities \subseteq Severities
    /\ SafetySnapshots \subseteq SafetySnapshot

VARIABLES
    activeState, previousState, resumeState,
    executionMode, faultSeverity,
    recordedProgramAvailable, validatedTrajectoryAvailable, previewAccepted,
    emergencyStopReleased, emergencyResetAcknowledged, homingRequired,
    safety,
    unifiedExecutionPolicy      \* set once, before the first event

programVars ==
    <<recordedProgramAvailable, validatedTrajectoryAvailable, previewAccepted>>
latchVars ==
    <<emergencyStopReleased, emergencyResetAcknowledged, homingRequired>>
stateVars == <<activeState, previousState>>
machineVars ==
    <<stateVars, resumeState, executionMode, faultSeverity, programVars,
      latchVars, safety, unifiedExecutionPolicy>>

-----------------------------------------------------------------------------
LegacyExecutionStates == {"ARC_STABILIZING", "WELDING", "RETRACTING"}

\* is_operator_pausable_state()
PausableStates == {"APPROACH", "PATH_EXECUTION"} \cup LegacyExecutionStates

RobotStates ==
    {"BOOT", "HOMING", "IDLE", "TEACHING", "PATH_VALIDATION", "PAUSED",
     "FAULT", "EMERGENCY_STOP"} \cup PausableStates

StoppedStates == {"FAULT", "EMERGENCY_STOP"}

ExecutionModes == {"NONE", "PREVIEW", "PRODUCTION"}

Init ==
    /\ activeState = "BOOT"
    /\ previousState = "BOOT"
    /\ resumeState = "IDLE"
    /\ executionMode = "NONE"
    /\ faultSeverity = "NONE"
    /\ recordedProgramAvailable = FALSE
    /\ validatedTrajectoryAvailable = FALSE
    /\ previewAccepted = FALSE
    /\ emergencyStopReleased = FALSE
    /\ emergencyResetAcknowledged = FALSE
    /\ homingRequired = FALSE
    /\ safety = [estopActive |-> FALSE, protectiveStopActive |-> FALSE,
                 globalFaultActive |-> FALSE, ready |-> FALSE]
    /\ unifiedExecutionPolicy \in ExecutionPolicies

-----------------------------------------------------------------------------
(* Helpers of the policy.                                                  *)

SafetyReadyForRecovery ==
    /\ safety.ready
    /\ ~safety.estopActive
    /\ ~safety.protectiveStopActive
    /\ ~safety.globalFaultActive

CanMove == activeState \notin StoppedStates /\ SafetyReadyForRecovery

TransitionTo(next) ==
    /\ activeState' = next
    /\ previousState' = IF next = activeState THEN previousState ELSE activeState

\* Most handlers drop the execution mode and the resume destination together.
CancelExecution == executionMode' = "NONE" /\ resumeState' = "IDLE"

SetProgram(recorded, validated, accepted) ==
    /\ recordedProgramAvailable' = recorded
    /\ validatedTrajectoryAvailable' = validated
    /\ previewAccepted' = accepted

ClearProgram == SetProgram(FALSE, FALSE, FALSE)

\* An event without a classification counts as recoverable.
Classified(severity) == IF severity = "NONE" THEN "RECOVERABLE" ELSE severity

StopStateFor(severity) ==
    IF severity = "EMERGENCY" THEN "EMERGENCY_STOP" ELSE "FAULT"

Rejected == UNCHANGED machineVars

UpdateSafety(snapshot) ==
    /\ safety' = snapshot
    /\ UNCHANGED <<stateVars, resumeState, executionMode, faultSeverity,
                   programVars, latchVars>>

-----------------------------------------------------------------------------
(* Safety inputs and asynchronous faults: taken in every state, before any *)
(* state-specific event.                                                   *)

ProtectiveStopAsserted ==
    /\ safety' = [safety EXCEPT !.protectiveStopActive = TRUE]
    /\ faultSeverity' = "RECOVERABLE"
    /\ CancelExecution
    /\ TransitionTo("FAULT")
    /\ UNCHANGED <<programVars, latchVars>>

\* The input is stored in every state, whether the event is rejected or not.
ProtectiveStopCleared ==
    /\ safety' = [safety EXCEPT !.protectiveStopActive = FALSE]
    /\ UNCHANGED <<stateVars, resumeState, executionMode, faultSeverity,
                   programVars, latchVars>>

EstopAsserted ==
    /\ safety' = [safety EXCEPT !.estopActive = TRUE]
    /\ faultSeverity' = "EMERGENCY"
    /\ CancelExecution
    /\ emergencyStopReleased' = FALSE
    /\ emergencyResetAcknowledged' = FALSE
    /\ homingRequired' = TRUE
    /\ TransitionTo("EMERGENCY_STOP")
    /\ UNCHANGED programVars

\* Outside EMERGENCY_STOP the event is rejected after the input was stored.
EstopReleased ==
    /\ safety' = [safety EXCEPT !.estopActive = FALSE]
    /\ emergencyStopReleased' =
           (emergencyStopReleased \/ activeState = "EMERGENCY_STOP")
    /\ UNCHANGED <<stateVars, resumeState, executionMode, faultSeverity,
                   programVars, emergencyResetAcknowledged, homingRequired>>

FaultDetected(severity) ==
    /\ safety' = [safety EXCEPT !.globalFaultActive = TRUE]
    /\ faultSeverity' = Classified(severity)
    /\ CancelExecution
    /\ TransitionTo(StopStateFor(severity))
    /\ UNCHANGED <<programVars, latchVars>>

-----------------------------------------------------------------------------
(* Pause and Resume share one event.                                       *)

Pause ==
    /\ activeState \in PausableStates
    /\ resumeState' = activeState
    /\ TransitionTo("PAUSED")
    /\ UNCHANGED <<executionMode, faultSeverity, programVars, latchVars, safety>>

Resume ==
    /\ activeState = "PAUSED"
    /\ CanMove
    /\ resumeState \in PausableStates
    /\ resumeState' = "IDLE"
    /\ TransitionTo(resumeState)
    /\ UNCHANGED <<executionMode, faultSeverity, programVars, latchVars, safety>>

PauseResume ==
    \/ Pause
    \/ Resume
    \/ /\ activeState \notin PausableStates
       /\ activeState = "PAUSED" => ~CanMove \/ resumeState \notin PausableStates
       /\ Rejected

-----------------------------------------------------------------------------
(* Results reported by the active state.  A result whose source is not the *)
(* active state is rejected before anything else is looked at.             *)

StaleResult(source) == source # activeState /\ Rejected

\* resumeState keeps its value here, unlike in every other stop.
StateFailed(source, severity) ==
    \/ StaleResult(source)
    \/ /\ source = activeState
       /\ faultSeverity' = Classified(severity)
       /\ executionMode' = "NONE"
       /\ TransitionTo(StopStateFor(severity))
       /\ UNCHANGED <<resumeState, programVars, latchVars, safety>>

AbortableStates == {"APPROACH", "PATH_EXECUTION"}

StateAbortedHome(source) ==
    \/ StaleResult(source)
    \/ source = activeState /\ source \notin AbortableStates /\ Rejected
    \/ /\ source = activeState
       /\ source \in AbortableStates
       /\ CancelExecution
       /\ TransitionTo("HOMING")
       /\ UNCHANGED <<faultSeverity, programVars, latchVars, safety>>

StateAbortedReset(source) ==
    \/ StaleResult(source)
    \/ source = activeState /\ source \notin AbortableStates /\ Rejected
    \/ /\ source = activeState
       /\ source \in AbortableStates
       /\ ClearProgram
       /\ CancelExecution
       /\ TransitionTo("IDLE")
       /\ UNCHANGED <<faultSeverity, latchVars, safety>>

\* The successor of a state whose completion changes nothing else.
CompletionTarget ==
    CASE activeState = "BOOT" -> "HOMING"
      [] activeState = "HOMING" -> "IDLE"
      [] activeState = "APPROACH" ->
             IF unifiedExecutionPolicy THEN "PATH_EXECUTION"
             ELSE IF executionMode = "PREVIEW" THEN "WELDING"
             ELSE "ARC_STABILIZING"
      [] activeState = "ARC_STABILIZING" -> "WELDING"
      [] activeState = "WELDING" -> "RETRACTING"

PlainCompletionAllowed ==
    \/ activeState \in {"BOOT", "HOMING"}
    \/ activeState \in {"APPROACH", "WELDING"} /\ executionMode # "NONE"
    \/ activeState = "ARC_STABILIZING" /\ executionMode = "PRODUCTION"

PlainComplete ==
    /\ PlainCompletionAllowed
    /\ TransitionTo(CompletionTarget)
    /\ UNCHANGED <<resumeState, executionMode, faultSeverity, programVars,
                   latchVars, safety>>

TeachingComplete ==
    /\ activeState = "TEACHING"
    /\ SetProgram(TRUE, FALSE, FALSE)
    /\ executionMode' = "NONE"
    /\ TransitionTo("PATH_VALIDATION")
    /\ UNCHANGED <<resumeState, faultSeverity, latchVars, safety>>

PathValidationComplete ==
    /\ activeState = "PATH_VALIDATION"
    /\ SetProgram(TRUE, TRUE, FALSE)
    /\ executionMode' = "NONE"
    /\ TransitionTo("IDLE")
    /\ UNCHANGED <<resumeState, faultSeverity, latchVars, safety>>

\* A completed Preview is accepted; Production leaves the acceptance alone.
ExecutionComplete ==
    /\ activeState \in {"PATH_EXECUTION", "RETRACTING"}
    /\ executionMode # "NONE"
    /\ previewAccepted' = IF executionMode = "PREVIEW"
                          THEN validatedTrajectoryAvailable
                          ELSE previewAccepted
    /\ executionMode' = "NONE"
    /\ TransitionTo(IF activeState = "PATH_EXECUTION" THEN "HOMING" ELSE "IDLE")
    /\ UNCHANGED <<resumeState, faultSeverity, recordedProgramAvailable,
                   validatedTrajectoryAvailable, latchVars, safety>>

CompletionRejected ==
    /\ ~PlainCompletionAllowed
    /\ activeState \notin {"TEACHING", "PATH_VALIDATION"}
    /\ activeState \in {"PATH_EXECUTION", "RETRACTING"} => executionMode = "NONE"
    /\ Rejected

StateComplete(source) ==
    \/ StaleResult(source)
    \/ /\ source = activeState
       /\ \/ PlainComplete
          \/ TeachingComplete
          \/ PathValidationComplete
          \/ ExecutionComplete
          \/ CompletionRejected

ValidationRejected(source) ==
    \/ StaleResult(source)
    \/ source = activeState /\ activeState # "PATH_VALIDATION" /\ Rejected
    \/ /\ source = activeState
       /\ activeState = "PATH_VALIDATION"
       /\ SetProgram(TRUE, FALSE, FALSE)
       /\ executionMode' = "NONE"
       /\ TransitionTo("IDLE")
       /\ UNCHANGED <<resumeState, faultSeverity, latchVars, safety>>

-----------------------------------------------------------------------------
(* RESET.                                                                  *)

ResetProgramming ==
    /\ activeState \in {"IDLE", "TEACHING", "PATH_VALIDATION"}
    /\ ClearProgram
    /\ CancelExecution
    /\ TransitionTo("IDLE")
    /\ UNCHANGED <<faultSeverity, latchVars, safety>>

\* Mutant: fault recovery keeps the interrupted program.
BugResetFaultKeepsProgram ==
    /\ activeState = "FAULT"
    /\ SafetyReadyForRecovery
    /\ CancelExecution
    /\ faultSeverity' = "NONE"
    /\ TransitionTo("HOMING")
    /\ UNCHANGED <<programVars, latchVars, safety>>

\* Mutant: fault recovery forgets the resume destination of a failed pause.
BugResetFaultKeepsResume ==
    /\ activeState = "FAULT"
    /\ SafetyReadyForRecovery
    /\ ClearProgram
    /\ executionMode' = "NONE"
    /\ faultSeverity' = "NONE"
    /\ TransitionTo("HOMING")
    /\ UNCHANGED <<resumeState, latchVars, safety>>

ResetFault ==
    /\ activeState = "FAULT"
    /\ SafetyReadyForRecovery
    /\ ClearProgram
    /\ CancelExecution
    /\ faultSeverity' = "NONE"
    /\ TransitionTo("HOMING")
    /\ UNCHANGED <<latchVars, safety>>

\* The program is cleared before the release latch is looked at, so a RESET
\* that is rejected for a missing release has still dropped the program.
ResetEmergency ==
    /\ activeState = "EMERGENCY_STOP"
    /\ SafetyReadyForRecovery
    /\ ClearProgram
    /\ CancelExecution
    /\ IF unifiedExecutionPolicy
       THEN /\ emergencyResetAcknowledged' =
                   (emergencyResetAcknowledged \/ emergencyStopReleased)
            /\ homingRequired' = (homingRequired \/ emergencyStopReleased)
            /\ UNCHANGED <<stateVars, faultSeverity>>
       ELSE /\ faultSeverity' = "NONE"
            /\ TransitionTo("HOMING")
            /\ UNCHANGED <<emergencyResetAcknowledged, homingRequired>>
    /\ UNCHANGED <<emergencyStopReleased, safety>>

Reset ==
    \/ ResetProgramming
    \/ ResetFault
    \/ ResetEmergency
    \/ /\ activeState \notin {"IDLE", "TEACHING", "PATH_VALIDATION"}
       /\ activeState \in StoppedStates => ~SafetyReadyForRecovery
       /\ Rejected

-----------------------------------------------------------------------------
(* HOME and the operator commands of IDLE.                                 *)

HomeAfterEmergencyAllowed ==
    /\ emergencyStopReleased
    /\ emergencyResetAcknowledged
    /\ SafetyReadyForRecovery

\* emergencyStopReleased and resumeState keep their values.
HomeAfterEmergency ==
    /\ unifiedExecutionPolicy
    /\ activeState = "EMERGENCY_STOP"
    /\ HomeAfterEmergencyAllowed
    /\ faultSeverity' = "NONE"
    /\ emergencyResetAcknowledged' = FALSE
    /\ homingRequired' = FALSE
    /\ TransitionTo("HOMING")
    /\ UNCHANGED <<resumeState, executionMode, programVars,
                   emergencyStopReleased, safety>>

HomeFromIdle ==
    /\ activeState = "IDLE"
    /\ CanMove
    /\ CancelExecution
    /\ TransitionTo("HOMING")
    /\ UNCHANGED <<faultSeverity, programVars, latchVars, safety>>

Home ==
    \/ HomeAfterEmergency
    \/ HomeFromIdle
    \/ /\ activeState = "IDLE" => ~CanMove
       /\ unifiedExecutionPolicy /\ activeState = "EMERGENCY_STOP"
              => ~HomeAfterEmergencyAllowed
       /\ Rejected

\* Mutant: editing a program leaves its accepted Preview standing.
BugTeachKeepsAcceptance ==
    \/ activeState # "IDLE" /\ Rejected
    \/ /\ activeState = "IDLE"
       /\ executionMode' = "NONE"
       /\ SetProgram(recordedProgramAvailable, FALSE, previewAccepted)
       /\ TransitionTo("TEACHING")
       /\ UNCHANGED <<resumeState, faultSeverity, latchVars, safety>>

Teach ==
    \/ activeState # "IDLE" /\ Rejected
    \/ /\ activeState = "IDLE"
       /\ executionMode' = "NONE"
       /\ SetProgram(recordedProgramAvailable, FALSE, FALSE)
       /\ TransitionTo("TEACHING")
       /\ UNCHANGED <<resumeState, faultSeverity, latchVars, safety>>

PreviewAllowed ==
    /\ activeState = "IDLE"
    /\ recordedProgramAvailable
    /\ validatedTrajectoryAvailable
    /\ CanMove

ValidatePreview ==
    \/ ~PreviewAllowed /\ Rejected
    \/ /\ PreviewAllowed
       /\ executionMode' = "PREVIEW"
       /\ previewAccepted' = FALSE
       /\ TransitionTo("APPROACH")
       /\ UNCHANGED <<resumeState, faultSeverity, recordedProgramAvailable,
                      validatedTrajectoryAvailable, latchVars, safety>>

\* Mutant: Production asks for a validated program only.
BugReplayWithoutPreview == PreviewAllowed

ReplayAllowed == PreviewAllowed /\ previewAccepted

StartReplay ==
    \/ ~ReplayAllowed /\ Rejected
    \/ /\ ReplayAllowed
       /\ executionMode' = "PRODUCTION"
       /\ TransitionTo("APPROACH")
       /\ UNCHANGED <<resumeState, faultSeverity, programVars, latchVars, safety>>

-----------------------------------------------------------------------------
(* The environment: any event in any order, from any source.               *)

SafetyEvent ==
    \/ ProtectiveStopAsserted
    \/ ProtectiveStopCleared
    \/ EstopAsserted
    \/ EstopReleased
    \/ \E severity \in FaultSeverities : FaultDetected(severity)
    \/ \E snapshot \in SafetySnapshots : UpdateSafety(snapshot)

OperatorEvent ==
    \/ PauseResume
    \/ Reset
    \/ Home
    \/ Teach
    \/ ValidatePreview
    \/ StartReplay

StateResult(source) ==
    \/ StateComplete(source)
    \/ \E severity \in FaultSeverities : StateFailed(source, severity)
    \/ ValidationRejected(source)
    \/ StateAbortedHome(source)
    \/ StateAbortedReset(source)

Next ==
    /\ \/ SafetyEvent
       \/ OperatorEvent
       \/ \E source \in RobotStates : StateResult(source)
    /\ UNCHANGED unifiedExecutionPolicy

Spec == Init /\ [][Next]_machineVars

-----------------------------------------------------------------------------
(* Properties.                                                             *)

\* Every field holds a value of its C type.
TypeOK ==
    /\ unifiedExecutionPolicy \in BOOLEAN
    /\ activeState \in RobotStates
    /\ previousState \in RobotStates
    /\ resumeState \in PausableStates \cup {"IDLE"}
    /\ executionMode \in ExecutionModes
    /\ faultSeverity \in Severities
    /\ recordedProgramAvailable \in BOOLEAN
    /\ validatedTrajectoryAvailable \in BOOLEAN
    /\ previewAccepted \in BOOLEAN
    /\ emergencyStopReleased \in BOOLEAN
    /\ emergencyResetAcknowledged \in BOOLEAN
    /\ homingRequired \in BOOLEAN
    /\ safety \in SafetySnapshot

\* An accepted Preview belongs to a validated trajectory and a validated
\* trajectory to a recorded program, across every edit, reset, abort and stop
\* (the three flags of state_machine.c are written separately by 12 handlers).
ProgramLifecycle ==
    /\ previewAccepted => validatedTrajectoryAvailable
    /\ validatedTrajectoryAvailable => recordedProgramAvailable

\* An execution mode is set exactly while a moving state is active or paused:
\* no stop, abort or recovery leaves a mode behind, and no moving state is
\* entered without one (APPROACH rejects its own completion then).
ModeMatchesState ==
    executionMode # "NONE" <=> activeState \in PausableStates \cup {"PAUSED"}

\* What runs is authorised for as long as it runs, pauses included: Preview
\* runs a validated and not yet accepted program, Production an accepted one.
RunningProgramIsAuthorised ==
    /\ executionMode = "PREVIEW" =>
           validatedTrajectoryAvailable /\ ~previewAccepted
    /\ executionMode = "PRODUCTION" =>
           validatedTrajectoryAvailable /\ previewAccepted

\* PAUSED returns to the state it interrupted (supervisor_task.c relies on
\* previousState for it), and a resume destination outlives no recovery.
ResumeDestinationIsCurrent ==
    /\ activeState = "PAUSED" =>
           resumeState = previousState /\ resumeState \in PausableStates
    /\ activeState \notin StoppedStates \cup {"PAUSED"} => resumeState = "IDLE"

\* In EMERGENCY_STOP an acknowledgement is only ever standing after the
\* release and after the RESET that dropped the program.
AcknowledgedEmergencyHasNoProgram ==
    activeState = "EMERGENCY_STOP" /\ emergencyResetAcknowledged =>
        emergencyStopReleased /\ ~recordedProgramAvailable

\* What every event preserves, as one inductive invariant.
PolicyInv ==
    /\ TypeOK
    /\ ProgramLifecycle
    /\ ModeMatchesState
    /\ RunningProgramIsAuthorised

\* "A fault-interrupted trajectory is no longer safe to replay": no way out of
\* FAULT or EMERGENCY_STOP, by RESET or by HOME, keeps the program.
RecoveryDropsProgram ==
    [][(activeState \in StoppedStates /\ activeState' \notin StoppedStates)
            => recordedProgramAvailable' = FALSE]_machineVars

\* A robot that is not stopped starts or resumes an execution only when the
\* stored safety snapshot permits motion.
ExecutionStartsPermitted ==
    [][(activeState' \in PausableStates /\ activeState \notin PausableStates)
            => SafetyReadyForRecovery]_machineVars

\* How far the three program flags have brought the current program.
ProgramStatus ==
    CASE previewAccepted -> "ACCEPTED"
      [] ~previewAccepted /\ validatedTrajectoryAvailable -> "VALIDATED"
      [] ~previewAccepted /\ ~validatedTrajectoryAvailable
             /\ recordedProgramAvailable -> "DRAFT"
      [] OTHER -> "ABSENT"

Lifecycle == INSTANCE WeldProgram
                 WITH status <- ProgramStatus, running <- executionMode

\* The policy implements the life cycle of a weld program: every event is one
\* of its steps or leaves it alone.
ImplementsWeldProgram == Lifecycle!Spec

\* RUNTIME_STATES.md: after an emergency stop "Home is a separate deliberate
\* command that starts recovery motion".  homingRequired is set by the E-stop
\* and reset by that HOME only, so while it is set the robot stays stopped.
EmergencyEndsWithHome == homingRequired => activeState \in StoppedStates
=============================================================================
