---------------------------- MODULE SupervisorTask ----------------------------
(***************************************************************************)
(* StateMachine/supervisor_task.c with the tasks that feed it: the         *)
(* composition of the policy (StateMachine), the execution of a program    *)
(* (PathExecution) and the stop states (StopStates) through one message    *)
(* queue and one cycle per tick.                                           *)
(*                                                                         *)
(* Three tasks of fixed priority share one core (start_system() in         *)
(* Simulation/supervisor_mock_main.c): Supervisor 4, MockInputs 3, HMI 2.  *)
(* A lower task runs only while every higher one is blocked; a tick wakes  *)
(* the supervisor first, between any two posts of the lower tasks.         *)
(*                                                                         *)
(* The modules of BOOT, HOMING, IDLE, TEACHING, PATH_VALIDATION and        *)
(* APPROACH are represented by the results they may report.                *)
(*                                                                         *)
(* HmiTurns: HMI runs every ten ticks, but vTaskDelayUntil() lets a task   *)
(* that was held back make the turns it missed one after the other, so two *)
(* or more may fall between two ticks when the processor is overloaded.    *)
(* The messages TEACHING_EVENT and TEACHING_RUNTIME are left out: nobody   *)
(* posts the one, and the other only feeds TEACHING.                       *)
(***************************************************************************)
EXTENDS Naturals, Sequences

CONSTANTS
    QueueLength,            \* SUPERVISOR_QUEUE_LENGTH
    MaxMessagesPerCycle,    \* SUPERVISOR_MAX_MESSAGES_CYCLE
    HmiTurns,               \* turns of the HMI task between two ticks
    InjectedInputs,         \* the stop inputs that may become active
    Commands,               \* commands the operator may give
    RelayReplies, HoldReplies,
    SampleCount, ClearanceStableCycles, StopTimeout

StopInputs == {"ESTOP", "PROTECTIVE_STOP", "FAULT"}

\* What translate() makes of an HmiEvent.  SELECT stands for the three
\* geometries, EDIT for Record and the three speed commands.
HmiCommands ==
    {"SELECT", "EDIT", "VALIDATE_PREVIEW", "START_REPLAY", "PAUSE", "RESUME",
     "RESET", "HOME"}

ASSUME SupervisorTaskAssumption ==
    /\ QueueLength \in Nat \ {0}
    /\ MaxMessagesPerCycle \in Nat \ {0}
    /\ HmiTurns \in Nat
    /\ InjectedInputs \subseteq StopInputs
    /\ Commands \subseteq HmiCommands
    /\ RelayReplies \subseteq BOOLEAN
    /\ HoldReplies \subseteq {"STOPPED", "MOVING", "FAILED"}

VARIABLES
    \* the policy
    activeState, previousState, resumeState, executionMode, faultSeverity,
    recordedProgramAvailable, validatedTrajectoryAvailable, previewAccepted,
    emergencyStopReleased, emergencyResetAcknowledged, homingRequired, safety,
    unifiedExecutionPolicy,
    \* the context of PATH_EXECUTION
    phase, result, abortReason, mode, requestValid, sampleIndex, stableCycles,
    stopElapsed, wireFeedCommanded, relay,
    \* the context of PAUSED, FAULT and EMERGENCY_STOP
    stopPhase,
    \* the other inputs and outputs of the active state
    statusValid,        \* safety.statusValid: a snapshot has arrived
    pendingTeaching,    \* pending_teaching_event
    requests,           \* reset_requested, home_requested of PATH_EXECUTION
    approachControl,    \* ApproachControlInputs
    artifact,           \* validated_trajectory and its storage
    drivesReady,        \* all drives are in OPERATION ENABLED
    \* the tasks
    queue, taken,       \* g_queue, and the messages taken in this cycle
    supervisor,
    publisher, outbox,  \* MockInputs, and the posts its round still has to make
    published,          \* the inputs of its last round: old_estop and so on
    hmiTurns,           \* the turns HMI has left before the next tick
    inputs              \* the stop inputs that are active

\* The snapshot the publisher makes of the active inputs.
SnapshotOf(active, enabled) ==
    [estopActive |-> "ESTOP" \in active,
     protectiveStopActive |-> "PROTECTIVE_STOP" \in active,
     globalFaultActive |-> "FAULT" \in active,
     ready |-> enabled /\ active = {}]

Policy == INSTANCE StateMachine
              WITH ExecutionPolicies <- {TRUE},
                   FaultSeverities <- {"RECOVERABLE"},
                   SafetySnapshots <- {SnapshotOf(active, enabled) :
                       active \in SUBSET StopInputs, enabled \in BOOLEAN}
Execution == INSTANCE PathExecution
Stop == INSTANCE StopStates

policyVars ==
    <<activeState, previousState, resumeState, executionMode, faultSeverity,
      recordedProgramAvailable, validatedTrajectoryAvailable, previewAccepted,
      emergencyStopReleased, emergencyResetAcknowledged, homingRequired, safety>>
executionContext ==
    <<phase, result, abortReason, mode, requestValid, sampleIndex, stableCycles,
      stopElapsed, wireFeedCommanded>>
controlVars == <<statusValid, pendingTeaching, requests, approachControl>>
assetVars == <<artifact, drivesReady>>
contextVars == <<executionContext, relay, stopPhase, controlVars, assetVars>>
producerVars == <<publisher, outbox, published, hmiTurns, inputs>>
taskVars == <<queue, taken, supervisor, producerVars>>
vars == <<policyVars, unifiedExecutionPolicy, contextVars, taskVars>>

-----------------------------------------------------------------------------
(* Messages.                                                               *)

SafetyMessage(active) ==
    [type |-> "SAFETY", content |-> SnapshotOf(active, drivesReady)]
EventMessage(event) == [type |-> "EVENT", content |-> event]
HmiMessage(command) == [type |-> "HMI_COMMAND", content |-> command]

\* Neither of the two control messages ever carries a request.
ApproachMessage(active) ==
    [type |-> "APPROACH_CONTROL", content |-> active \cap {"ESTOP", "FAULT"} # {}]
ExecutionMessage == [type |-> "PATH_EXECUTION_INPUTS", content |-> "NOW"]

NoRequest == [reset |-> FALSE, home |-> FALSE]
NoControl == [stop |-> FALSE, reset |-> FALSE, home |-> FALSE]

\* The event of an input that changed since the last round.
Edge(input, asserted, cleared, active, before) ==
    IF input \in active \ before THEN asserted
    ELSE IF input \in before \ active THEN cleared
    ELSE << >>

\* Mutant: the inputs are published as a snapshot only.
BugRoundWithoutEvents(active, before) ==
    <<SafetyMessage(active), ApproachMessage(active), ExecutionMessage>>

\* What input_task() posts in one round.  A fault that disappears has no event
\* of its own; TEACHING_RUNTIME is not modelled.
Round(active, before) ==
    <<SafetyMessage(active)>>
    \o Edge("ESTOP", <<EventMessage("ESTOP_ASSERTED")>>,
            <<EventMessage("ESTOP_RELEASED")>>, active, before)
    \o Edge("PROTECTIVE_STOP", <<EventMessage("PROTECTIVE_STOP_ASSERTED")>>,
            <<EventMessage("PROTECTIVE_STOP_CLEARED")>>, active, before)
    \o Edge("FAULT", <<EventMessage("FAULT_DETECTED")>>, << >>, active, before)
    \o <<ApproachMessage(active), ExecutionMessage>>

-----------------------------------------------------------------------------
(* Entering the active state.  BOOT, HOMING, IDLE and TEACHING keep nothing *)
(* here that an entry would change.                                        *)

Entered(state) == activeState' = state /\ activeState # state

\* Mutant: any context that has been used before is taken for a paused one.
BugEnterExecutionResumes ==
    IF ~Entered("PATH_EXECUTION") THEN UNCHANGED <<executionContext, requests>>
    ELSE IF phase # "IDLE"
    THEN Execution!ResumeExecution /\ UNCHANGED requests
    ELSE Execution!Enter(executionMode', TRUE) /\ requests' = NoRequest

\* PATH_EXECUTION goes on after a pause, and starts afresh otherwise.  The
\* request asks for a trajectory that a finished validation has stamped.
EnterExecution ==
    IF ~Entered("PATH_EXECUTION") THEN UNCHANGED <<executionContext, requests>>
    ELSE IF previousState' = "PAUSED" /\ phase # "IDLE"
    THEN Execution!ResumeExecution /\ UNCHANGED requests
    ELSE /\ Execution!Enter(executionMode',
                validatedTrajectoryAvailable' /\ artifact = "COMMITTED")
         /\ requests' = NoRequest

\* APPROACH keeps its control inputs only when it resumes.
EnterApproach ==
    approachControl' = IF Entered("APPROACH") /\ previousState' # "PAUSED"
                       THEN NoControl ELSE approachControl

EnterStopState ==
    IF \E state \in {"PAUSED", "FAULT", "EMERGENCY_STOP"} : Entered(state)
    THEN Stop!EnterStop ELSE UNCHANGED stopPhase

\* The artifact is erased before it is written again.
EnterValidation ==
    artifact' = IF Entered("PATH_VALIDATION") THEN "PARTIAL" ELSE artifact

\* enter_active_state()
EnterActiveState ==
    EnterExecution /\ EnterApproach /\ EnterStopState /\ EnterValidation

\* handle_policy_event() for an event the policy decides on.
Forward(event) == event /\ EnterActiveState

NoEvent ==
    UNCHANGED <<policyVars, executionContext, requests, approachControl,
                stopPhase, artifact>>

-----------------------------------------------------------------------------
(* Handling one message.                                                   *)

\* RESET and HOME are requests to a moving state first.
HandleRequest(reset) ==
    \/ /\ activeState = "PATH_EXECUTION"
       /\ requests' = [reset |-> reset, home |-> ~reset]
       /\ UNCHANGED <<policyVars, executionContext, approachControl, stopPhase,
                      artifact>>
    \/ /\ activeState = "APPROACH"
       /\ approachControl' = [approachControl EXCEPT !.reset = reset,
                                                     !.home = ~reset]
       /\ UNCHANGED <<policyVars, executionContext, requests, stopPhase, artifact>>
    \/ /\ activeState \notin {"PATH_EXECUTION", "APPROACH"}
       /\ Forward(IF reset THEN Policy!Reset ELSE Policy!Home)

\* Commands that TEACHING takes for itself: one at a time, in its next step.
TeachingCommand(command) ==
    /\ command \in {"SELECT", "EDIT", "RESET", "VALIDATE_PREVIEW"}
    /\ \/ activeState = "TEACHING" /\ NoEvent
       \/ activeState = "IDLE" /\ command = "SELECT" /\ Forward(Policy!Teach)
    /\ pendingTeaching' =
           IF command = "VALIDATE_PREVIEW" THEN "VALIDATE" ELSE "EDIT"

\* Commands that mean nothing in the active state.
IgnoredCommand(command) ==
    /\ \/ command = "SELECT" /\ activeState \notin {"TEACHING", "IDLE"}
       \/ command = "EDIT" /\ activeState # "TEACHING"
       \/ command = "PAUSE" /\ activeState = "PAUSED"
       \/ command = "RESUME" /\ activeState # "PAUSED"
    /\ NoEvent
    /\ UNCHANGED pendingTeaching

MotionCommand(command) ==
    /\ \/ /\ command = "VALIDATE_PREVIEW" /\ activeState # "TEACHING"
          /\ Forward(Policy!ValidatePreview)
       \/ command = "START_REPLAY" /\ Forward(Policy!StartReplay)
       \/ /\ \/ command = "PAUSE" /\ activeState # "PAUSED"
             \/ command = "RESUME" /\ activeState = "PAUSED"
          /\ Forward(Policy!PauseResume)
       \/ command = "RESET" /\ activeState # "TEACHING" /\ HandleRequest(TRUE)
       \/ command = "HOME" /\ HandleRequest(FALSE)
    /\ UNCHANGED pendingTeaching

HandleHmiCommand(command) ==
    /\ TeachingCommand(command) \/ IgnoredCommand(command) \/ MotionCommand(command)
    /\ UNCHANGED statusValid

PolicyEvent(event) ==
    \/ event = "ESTOP_ASSERTED" /\ Policy!EstopAsserted
    \/ event = "ESTOP_RELEASED" /\ Policy!EstopReleased
    \/ event = "PROTECTIVE_STOP_ASSERTED" /\ Policy!ProtectiveStopAsserted
    \/ event = "PROTECTIVE_STOP_CLEARED" /\ Policy!ProtectiveStopCleared
    \/ event = "FAULT_DETECTED" /\ Policy!FaultDetected("RECOVERABLE")

HandleEvent(event) ==
    /\ Forward(PolicyEvent(event))
    /\ UNCHANGED <<statusValid, pendingTeaching>>

HandleSafety(snapshot) ==
    /\ Policy!UpdateSafety(snapshot)
    /\ statusValid' = TRUE
    /\ UNCHANGED <<executionContext, requests, approachControl, stopPhase,
                   artifact, pendingTeaching>>

\* The structure is overwritten as a whole, its requests included.
HandleApproachControl(stop) ==
    /\ approachControl' = [NoControl EXCEPT !.stop = stop]
    /\ UNCHANGED <<policyVars, executionContext, requests, stopPhase, artifact,
                   statusValid, pendingTeaching>>

\* So is this one, and its now_ms is what a controlled stop is timed with.
HandleExecutionInputs ==
    /\ requests' = NoRequest
    /\ Execution!StopClockTicks \/ UNCHANGED executionContext
    /\ UNCHANGED <<policyVars, approachControl, stopPhase, artifact,
                   statusValid, pendingTeaching>>

HandleMessage(message) ==
    /\ \/ message.type = "SAFETY" /\ HandleSafety(message.content)
       \/ message.type = "EVENT" /\ HandleEvent(message.content)
       \/ message.type = "APPROACH_CONTROL" /\ HandleApproachControl(message.content)
       \/ message.type = "PATH_EXECUTION_INPUTS" /\ HandleExecutionInputs
       \/ message.type = "HMI_COMMAND" /\ HandleHmiCommand(message.content)
    /\ UNCHANGED <<relay, drivesReady>>

-----------------------------------------------------------------------------
(* One step of the active state, and the event its result becomes.         *)

\* Mutant: a failed step is reported with the severity of an emergency.
BugFailedAsEmergency == Policy!StateFailed(activeState, "EMERGENCY")

\* emit_step_failure(), emit_step_complete()
Failed == Policy!StateFailed(activeState, "RECOVERABLE")
Complete == Policy!StateComplete(activeState)

\* BOOT enables the drives before it completes.
RunBoot ==
    /\ activeState = "BOOT"
    /\ \/ NoEvent /\ drivesReady' \in {drivesReady, TRUE}
       \/ Forward(Failed) /\ UNCHANGED drivesReady
       \/ drivesReady /\ Forward(Complete) /\ UNCHANGED drivesReady
    /\ UNCHANGED <<relay, statusValid, pendingTeaching>>

RunHoming ==
    /\ activeState = "HOMING"
    /\ NoEvent \/ Forward(Failed) \/ Forward(Complete)
    /\ UNCHANGED <<relay, statusValid, pendingTeaching, drivesReady>>

RunIdle ==
    /\ activeState = "IDLE"
    /\ NoEvent \/ Forward(Failed)
    /\ UNCHANGED <<relay, statusValid, pendingTeaching, drivesReady>>

\* A program is submitted by the command to validate it.
RunTeaching ==
    /\ activeState = "TEACHING"
    /\ \/ NoEvent
       \/ Forward(Failed)
       \/ pendingTeaching = "VALIDATE" /\ Forward(Complete)
    /\ pendingTeaching' = "NONE"
    /\ UNCHANGED <<relay, statusValid, drivesReady>>

\* Mutant: a finished validation is a successful one.
BugEveryValidationSucceeds(valid) == Complete

\* What the end of a validation is reported as.
ValidationEnd(valid) ==
    IF valid THEN Complete ELSE Policy!ValidationRejected(activeState)

\* An invalid program is a result, never a failure; the artifact of a valid one
\* is committed by the step that completes it.
RunPathValidation ==
    /\ activeState = "PATH_VALIDATION"
    /\ \/ NoEvent
       \/ \E valid \in BOOLEAN :
              /\ ValidationEnd(valid)
              /\ artifact' = IF valid THEN "COMMITTED" ELSE artifact
              /\ EnterExecution /\ EnterApproach /\ EnterStopState
    /\ UNCHANGED <<relay, statusValid, pendingTeaching, drivesReady>>

\* A stop input fails it; RESET wins over HOME.
ApproachEvent ==
    LET control == approachControl IN
    \/ control.stop /\ Failed
    \/ ~control.stop /\ control.reset /\ Policy!StateAbortedReset("APPROACH")
    \/ /\ ~control.stop /\ ~control.reset /\ control.home
       /\ Policy!StateAbortedHome("APPROACH")
    \/ /\ ~control.stop /\ ~control.reset /\ ~control.home
       /\ UNCHANGED policyVars \/ Failed \/ Complete

RunApproach ==
    /\ activeState = "APPROACH"
    /\ ApproachEvent
    /\ approachControl' = [approachControl EXCEPT !.reset = FALSE, !.home = FALSE]
    /\ EnterExecution /\ EnterStopState /\ EnterValidation
    /\ UNCHANGED <<relay, statusValid, pendingTeaching, drivesReady>>

\* The inputs of the step: the stored safety snapshot and the requests.
ExecutionInputs ==
    [estop |-> safety.estopActive,
     stopped |-> safety.protectiveStopActive \/ safety.globalFaultActive,
     reset |-> requests.reset, home |-> requests.home,
     ready |-> safety.ready, followingError |-> FALSE]

ExecutionEnd ==
    IF result # "ABORTED" THEN Complete
    ELSE IF abortReason = "HOME" THEN Policy!StateAbortedHome("PATH_EXECUTION")
    ELSE Policy!StateAbortedReset("PATH_EXECUTION")

\* Mutant: the requests are not one-shot.
BugRequestsStay == UNCHANGED requests

\* Whatever the step made of the requests, they are gone after it.
ClearRequests == requests' = NoRequest

RunPathExecution ==
    /\ activeState = "PATH_EXECUTION"
    /\ \/ Execution!StepRuns(ExecutionInputs) /\ UNCHANGED policyVars
       \/ Execution!StepFails(ExecutionInputs) /\ Failed
       \/ Execution!StepCompletes(ExecutionInputs) /\ ExecutionEnd
    /\ ClearRequests
    /\ EnterStopState
    /\ UNCHANGED <<approachControl, artifact, statusValid, pendingTeaching,
                   drivesReady>>

\* PAUSED is not told of the protective stop.
PausedStopInput == safety.estopActive \/ safety.globalFaultActive

RunPaused ==
    /\ activeState = "PAUSED"
    /\ \/ Stop!PausedRuns(PausedStopInput) /\ UNCHANGED policyVars
       \/ Stop!PausedFails(PausedStopInput) /\ Failed /\ EnterStopState
    /\ UNCHANGED <<executionContext, requests, approachControl, artifact,
                   statusValid, pendingTeaching, drivesReady>>

SafetyHealthy ==
    /\ statusValid
    /\ ~safety.estopActive /\ ~safety.protectiveStopActive /\ ~safety.globalFaultActive

\* The results of the two stop states are ignored.
RunStopState ==
    /\ \/ activeState = "FAULT" /\ Stop!FaultStep(SafetyHealthy)
       \/ /\ activeState = "EMERGENCY_STOP"
          /\ Stop!EmergencyStopStep(safety.estopActive,
                 emergencyResetAcknowledged, SafetyHealthy)
    /\ UNCHANGED <<policyVars, executionContext, requests, approachControl,
                   artifact, statusValid, pendingTeaching, drivesReady>>

\* run_active_state()
RunActiveState ==
    \/ RunBoot
    \/ RunHoming
    \/ RunIdle
    \/ RunTeaching
    \/ RunPathValidation
    \/ RunApproach
    \/ RunPathExecution
    \/ RunPaused
    \/ RunStopState

-----------------------------------------------------------------------------
(* The tasks.                                                              *)

Init ==
    /\ Policy!Init
    /\ Execution!Init
    /\ Stop!Init
    /\ statusValid = FALSE
    /\ pendingTeaching = "NONE"
    /\ requests = NoRequest
    /\ approachControl = NoControl
    /\ artifact = "PARTIAL"
    /\ drivesReady = FALSE
    /\ queue = << >>
    /\ taken = 0
    /\ supervisor = "RUNNING"
    /\ publisher = "READY"
    /\ outbox = << >>
    /\ published = {}
    /\ hmiTurns = HmiTurns
    /\ inputs = {}

\* Mutant: the supervisor takes one message per cycle.
BugOneMessagePerCycle ==
    queue = << >> \/ taken > 0 \/ pendingTeaching # "NONE"

\* The batch of a cycle ends early for a command that TEACHING has to take.
BatchEnds ==
    queue = << >> \/ taken = MaxMessagesPerCycle \/ pendingTeaching # "NONE"

TakeMessage ==
    /\ supervisor = "RUNNING"
    /\ ~BatchEnds
    /\ HandleMessage(Head(queue))
    /\ queue' = Tail(queue)
    /\ taken' = taken + 1
    /\ UNCHANGED <<unifiedExecutionPolicy, supervisor, producerVars>>

\* The batch is over: one step of the active state ends the cycle.
Step ==
    /\ supervisor = "RUNNING"
    /\ BatchEnds
    /\ RunActiveState
    /\ supervisor' = "BLOCKED"
    /\ taken' = 0
    /\ UNCHANGED <<unifiedExecutionPolicy, queue, producerVars>>

Rested == publisher = "WAITING" /\ outbox = << >>

\* The next period: the supervisor preempts whatever else is running.
Tick ==
    /\ supervisor = "BLOCKED"
    /\ supervisor' = "RUNNING"
    /\ publisher' = IF Rested THEN "READY" ELSE publisher
    /\ hmiTurns' = HmiTurns
    /\ UNCHANGED <<policyVars, unifiedExecutionPolicy, contextVars, queue, taken,
                   outbox, published, inputs>>

\* input_task() looks at the inputs once per round, and opens the relay itself
\* while any of them is active.
PublishRound ==
    /\ supervisor = "BLOCKED"
    /\ publisher = "READY"
    /\ publisher' = "WAITING"
    /\ outbox' = Round(inputs, published)
    /\ published' = inputs
    /\ IF inputs = {} THEN UNCHANGED relay
       ELSE \E issued \in RelayReplies : Stop!OpenRelay(issued)
    /\ UNCHANGED <<policyVars, unifiedExecutionPolicy, executionContext, stopPhase,
                   controlVars, assetVars, queue, taken, supervisor, hmiTurns, inputs>>

\* post_required(): a full queue would end the program (see QueueHasRoom).
PublishPost ==
    /\ supervisor = "BLOCKED"
    /\ outbox # << >>
    /\ Len(queue) < QueueLength
    /\ queue' = Append(queue, Head(outbox))
    /\ outbox' = Tail(outbox)
    /\ UNCHANGED <<policyVars, unifiedExecutionPolicy, contextVars, taken,
                   supervisor, publisher, published, hmiTurns, inputs>>

\* Mutant: HMI runs before the publisher has finished its round.
BugHmiRunsFirst == supervisor = "BLOCKED"

\* HMI has the lowest priority.
HmiMayRun == supervisor = "BLOCKED" /\ Rested

\* One turn: a command, or a simulated input that changes.
HmiTurn ==
    /\ HmiMayRun
    /\ hmiTurns > 0
    /\ hmiTurns' = hmiTurns - 1
    /\ \/ /\ Len(queue) < QueueLength
          /\ \E command \in Commands : queue' = Append(queue, HmiMessage(command))
          /\ UNCHANGED inputs
       \/ /\ \E input \in InjectedInputs :
                 inputs' = IF input \in inputs THEN inputs \ {input}
                           ELSE inputs \cup {input}
          /\ UNCHANGED queue
    /\ UNCHANGED <<policyVars, unifiedExecutionPolicy, contextVars, taken,
                   supervisor, publisher, outbox, published>>

Next ==
    \/ TakeMessage
    \/ Step
    \/ Tick
    \/ PublishRound
    \/ PublishPost
    \/ HmiTurn

Spec == Init /\ [][Next]_vars

\* The supervisor runs every period.  Its cycle is shorter than the period, so
\* the publisher gets the core in between, time and again.
FairSpec ==
    /\ Spec
    /\ WF_vars(TakeMessage \/ Step)
    /\ WF_vars(Tick)
    /\ SF_vars(PublishRound \/ PublishPost)

-----------------------------------------------------------------------------
(* Properties.                                                             *)

MessageTypes ==
    {"SAFETY", "EVENT", "APPROACH_CONTROL", "PATH_EXECUTION_INPUTS", "HMI_COMMAND"}

\* Every variable of the wrapper and the tasks holds a value of its kind; the
\* policy and the execution have type invariants of their own.
TaskTypeOK ==
    /\ Policy!TypeOK
    /\ stopPhase \in Stop!StopPhases
    /\ pendingTeaching \in {"NONE", "EDIT", "VALIDATE"}
    /\ requests \in [reset : BOOLEAN, home : BOOLEAN]
    /\ approachControl \in [stop : BOOLEAN, reset : BOOLEAN, home : BOOLEAN]
    /\ artifact \in {"PARTIAL", "COMMITTED"}
    /\ taken \in 0 .. MaxMessagesPerCycle
    /\ \A i \in 1 .. Len(queue) : queue[i].type \in MessageTypes
    /\ supervisor \in {"BLOCKED", "RUNNING"}
    /\ publisher \in {"WAITING", "READY"}
    /\ published \in SUBSET InjectedInputs

\* A post of the publisher never meets a full queue, which would end the
\* program: a cycle empties it before the next round, whatever the operator
\* does and however often a round is preempted.
QueueHasRoom == outbox # << >> => Len(queue) < QueueLength

\* An unsafe snapshot is in force only while the robot is stopped, or while the
\* event that stops it is still to be handled: snapshot and events are posted
\* one by one, and the supervisor may run between any two of them.
StopIsOnItsWay ==
    LET coming(event) ==
            \/ \E i \in 1 .. Len(queue) : queue[i] = EventMessage(event)
            \/ \E i \in 1 .. Len(outbox) : outbox[i] = EventMessage(event)
    IN activeState \notin Policy!StoppedStates =>
           /\ safety.estopActive => coming("ESTOP_ASSERTED")
           /\ safety.protectiveStopActive => coming("PROTECTIVE_STOP_ASSERTED")
           /\ safety.globalFaultActive => coming("FAULT_DETECTED")

\* The request that PATH_EXECUTION works on, also when it is resumed, is the one
\* the policy has authorised: its mode is the current one and its trajectory is
\* the validated one.
RunContextIsCurrent ==
    \/ activeState = "PATH_EXECUTION"
    \/ activeState = "PAUSED" /\ resumeState = "PATH_EXECUTION"
    => mode = executionMode /\ requestValid

\* What the policy calls validated is a committed artifact, across edits,
\* rejections and validations that were cut short.
ArtifactBacksValidation ==
    validatedTrajectoryAvailable => artifact = "COMMITTED"

PendingRequest ==
    requests # NoRequest \/ approachControl.reset \/ approachControl.home

\* A RESET or HOME request waits for nothing but the step at the end of its own
\* batch: it cannot be left over for a later Resume to act on.
RequestIsCurrent == PendingRequest => supervisor = "RUNNING"

\* A RESET or HOME request of the operator is not lost: only the step of the
\* active state, or a stop, takes it away, never the periodic control message
\* that overwrites the same structure.
RequestReachesTheStep ==
    [][PendingRequest /\ ~PendingRequest' =>
           supervisor' = "BLOCKED" \/ activeState' # activeState]_vars

\* Between two cycles the relay is closed only for a Production run in
\* PATH_EXECUTION: every stop, pause or abort opens it within its own cycle.
RelayOnlyInProduction ==
    supervisor = "BLOCKED" /\ relay =>
        activeState = "PATH_EXECUTION" /\ executionMode = "PRODUCTION"

\* Between two cycles nothing of a cycle is left over: no request, and no relay
\* but that of a Production run (supervisor_task.c:384, :611).
TaskInv ==
    /\ TaskTypeOK
    /\ RequestIsCurrent
    /\ RelayOnlyInProduction

\* The wrapper takes no decision of its own: what its tasks do to the policy
\* variables is a sequence of the events of the policy.
ImplementsPolicy == Policy!Spec

\* A stop input that stays active stops the robot.
StopInputStopsRobot ==
    \A input \in InjectedInputs :
        input \in inputs ~> (activeState \in Policy!StoppedStates \/ input \notin inputs)
=============================================================================
