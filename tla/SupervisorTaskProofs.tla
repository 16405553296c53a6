------------------------ MODULE SupervisorTaskProofs ------------------------
(***************************************************************************)
(* Proofs about SupervisorTask, for every set of stop inputs and commands, *)
(* every reply of the relay and of the drives, and every place at which a  *)
(* task preempts another.                                                  *)
(*                                                                         *)
(* BaseInv says what is in the queue, and that the policy is in order; by  *)
(* it every step of a task is an event of the policy or none, which is the *)
(* refinement, and which lets the theorems of the policy be used here.     *)
(*                                                                         *)
(* QueueInv counts, for each phase of a tick, what is in the queue and     *)
(* what is still to be posted: it all fits into one cycle, so the cycle    *)
(* ends with an empty queue.  RequestInv rests on it: a request is made by *)
(* the last message of a batch, and the step that takes it follows.        *)
(*                                                                         *)
(* StreamInv looks at the queue and the rest of the round as one stream of *)
(* messages that is only taken from in front and added to at the end.  A   *)
(* snapshot that raises an input is in it only together with the event, or *)
(* after the event, with nothing in between that clears the input; so when *)
(* the snapshot comes into force the robot is stopped or will be.          *)
(*                                                                         *)
(* RelayInv says why the relay is closed.  A pause or a stop leaves it     *)
(* closed until the step that ends the same batch; StreamInv and           *)
(* PublishedInv see to it that nothing comes in between.                   *)
(***************************************************************************)
EXTENDS SupervisorTask, TLAPS, SequenceTheorems

-----------------------------------------------------------------------------
(* Messages.                                                               *)

Snapshots == {SnapshotOf(active, enabled) :
                  active \in SUBSET StopInputs, enabled \in BOOLEAN}

StopEvents == {"ESTOP_ASSERTED", "ESTOP_RELEASED", "PROTECTIVE_STOP_ASSERTED",
               "PROTECTIVE_STOP_CLEARED", "FAULT_DETECTED"}

\* What the publisher posts, and what is in the queue.
Published == [type : {"SAFETY"}, content : Snapshots]
             \cup [type : {"EVENT"}, content : StopEvents]
             \cup [type : {"APPROACH_CONTROL"}, content : BOOLEAN]
             \cup [type : {"PATH_EXECUTION_INPUTS"}, content : {"NOW"}]
Messages == Published \cup [type : {"HMI_COMMAND"}, content : Commands]

\* Only messages are posted, the inputs are those that may become active, and a
\* round begins when the one before has been posted.
MessageInv ==
    /\ queue \in Seq(Messages) /\ outbox \in Seq(Published)
    /\ inputs \subseteq InjectedInputs /\ published \subseteq InjectedInputs
    /\ drivesReady \in BOOLEAN
    /\ taken \in Nat /\ hmiTurns \in 0 .. HmiTurns
    /\ supervisor \in {"BLOCKED", "RUNNING"}
    /\ publisher \in {"WAITING", "READY"}
    /\ publisher = "READY" => outbox = << >>

-----------------------------------------------------------------------------
(* What the tasks do to the policy.                                        *)

\* A step of the policy, or none.
PolicyMove == [Policy!Next]_(Policy!machineVars)

\* A step that leaves the policy alone is a stutter of it.
LEMMA NoMove ==
    ASSUME UNCHANGED <<policyVars, unifiedExecutionPolicy>>
    PROVE  PolicyMove
BY DEF PolicyMove, policyVars, Policy!machineVars, Policy!stateVars,
       Policy!programVars, Policy!latchVars

\* A message is an event of the environment, or leaves the policy alone; it
\* touches the artifact by an entry only.
LEMMA MessageEvent ==
    ASSUME NEW message \in Messages, HandleMessage(message)
    PROVE  /\ \/ Policy!SafetyEvent
              \/ Policy!OperatorEvent
              \/ UNCHANGED policyVars
           /\ EnterValidation \/ UNCHANGED artifact
<1> DEFINE Goal == /\ \/ Policy!SafetyEvent
                      \/ Policy!OperatorEvent
                      \/ UNCHANGED policyVars
                   /\ EnterValidation \/ UNCHANGED artifact
<1> HIDE DEF Goal
<1>1. CASE message.type = "SAFETY" /\ HandleSafety(message.content)
  <2>1. message.content \in Snapshots
    BY <1>1 DEF Messages, Published
  <2> QED
    BY <1>1, <2>1 DEF Goal, HandleSafety, Policy!SafetyEvent, Snapshots
<1>2. CASE HandleEvent(message.content)
  BY <1>2 DEF Goal, HandleEvent, Forward, EnterActiveState, PolicyEvent,
              Policy!SafetyEvent
<1>3. CASE HandleApproachControl(message.content) \/ HandleExecutionInputs
  BY <1>3 DEF Goal, HandleApproachControl, HandleExecutionInputs
<1>4. CASE HandleHmiCommand(message.content)
  <2> USE DEF Goal, NoEvent, Forward, EnterActiveState, Policy!OperatorEvent
  <2>1. CASE TeachingCommand(message.content) \/ IgnoredCommand(message.content)
    BY <2>1 DEF TeachingCommand, IgnoredCommand
  <2>2. CASE MotionCommand(message.content)
    BY <2>2 DEF MotionCommand, HandleRequest
  <2> QED
    BY <1>4, <2>1, <2>2 DEF HandleHmiCommand
<1> QED
  BY <1>1, <1>2, <1>3, <1>4 DEF Goal, HandleMessage

\* The step of a state is a result of that state, or leaves the policy alone.
LEMMA StateStep ==
    ASSUME RunActiveState
    PROVE  Policy!StateResult(activeState) \/ UNCHANGED policyVars
<1>1. CASE Failed \/ Complete \/ Policy!ValidationRejected(activeState)
  BY <1>1 DEF Failed, Complete, Policy!StateResult
<1>2. CASE \/ Policy!StateAbortedHome(activeState)
           \/ Policy!StateAbortedReset(activeState)
  BY <1>2 DEF Policy!StateResult
<1>3. CASE RunBoot \/ RunHoming \/ RunIdle \/ RunTeaching
  BY <1>1, <1>3 DEF RunBoot, RunHoming, RunIdle, RunTeaching, NoEvent, Forward
<1>4. CASE RunPathValidation
  BY <1>1, <1>4 DEF RunPathValidation, NoEvent, ValidationEnd
<1>5. CASE RunApproach
  BY <1>1, <1>2, <1>5 DEF RunApproach, ApproachEvent
<1>6. CASE RunPathExecution
  BY <1>1, <1>2, <1>6 DEF RunPathExecution, ExecutionEnd
<1>7. CASE RunPaused \/ RunStopState
  BY <1>1, <1>7 DEF RunPaused, RunStopState
<1> QED
  BY <1>3, <1>4, <1>5, <1>6, <1>7 DEF RunActiveState

\* Every step of every task is an event of the policy, or none.
LEMMA TasksMove ==
    ASSUME Policy!TypeOK, MessageInv, [Next]_vars
    PROVE  PolicyMove
<1>1. CASE TakeMessage
  <2>1. queue # << >> /\ Head(queue) \in Messages
    BY <1>1, HeadTailProperties DEF TakeMessage, BatchEnds, MessageInv
  <2>2. \/ Policy!SafetyEvent
        \/ Policy!OperatorEvent
        \/ UNCHANGED policyVars
    BY <1>1, <2>1, MessageEvent DEF TakeMessage
  <2>3. UNCHANGED unifiedExecutionPolicy
    BY <1>1 DEF TakeMessage
  <2> QED
    BY <2>2, <2>3, NoMove DEF PolicyMove, Policy!Next
<1>2. CASE Step
  <2>1. Policy!StateResult(activeState) \/ UNCHANGED policyVars
    BY <1>2, StateStep DEF Step
  <2>2. activeState \in Policy!RobotStates /\ UNCHANGED unifiedExecutionPolicy
    BY <1>2 DEF Step, Policy!TypeOK
  <2> QED
    BY <2>1, <2>2, NoMove DEF PolicyMove, Policy!Next
<1>3. CASE Tick \/ PublishRound \/ PublishPost \/ HmiTurn \/ UNCHANGED vars
  BY <1>3, NoMove DEF Tick, PublishRound, PublishPost, HmiTurn, vars
<1> QED
  BY <1>1, <1>2, <1>3 DEF Next

-----------------------------------------------------------------------------
(* What StateMachineProofs proves of the policy holds for the policy here.  *)

Theory == INSTANCE StateMachineProofs
              WITH ExecutionPolicies <- {TRUE},
                   FaultSeverities <- {"RECOVERABLE"},
                   SafetySnapshots <- {SnapshotOf(active, enabled) :
                       active \in SUBSET StopInputs, enabled \in BOOLEAN}

\* The values the wrapper gives the policy are those the policy asks for.
LEMMA PolicyConstants ==
    /\ {TRUE} \subseteq BOOLEAN
    /\ {"RECOVERABLE"} \subseteq Theory!Severities
    /\ {SnapshotOf(active, enabled) :
            active \in SUBSET StopInputs, enabled \in BOOLEAN}
           \subseteq Theory!SafetySnapshot
<1>1. {"RECOVERABLE"} \subseteq Theory!Severities
  BY DEF Theory!Severities
<1>2. ASSUME NEW active, NEW enabled \in BOOLEAN
      PROVE  SnapshotOf(active, enabled) \in Theory!SafetySnapshot
  BY DEF Theory!SafetySnapshot, SnapshotOf
<1> QED
  BY <1>1, <1>2

\* Both instances of the policy are the same policy.
LEMMA SameNext == PolicyMove <=> [Theory!Next]_(Theory!machineVars)
<1>1. Policy!Next <=> Theory!Next
  BY DEF Policy!Severities, Theory!Severities, Policy!LegacyExecutionStates,
         Theory!LegacyExecutionStates, Policy!PausableStates,
         Theory!PausableStates, Policy!RobotStates, Theory!RobotStates,
         Policy!StoppedStates, Theory!StoppedStates, Policy!ExecutionModes,
         Theory!ExecutionModes, Policy!SafetyReadyForRecovery,
         Theory!SafetyReadyForRecovery, Policy!CanMove, Theory!CanMove,
         Policy!TransitionTo, Theory!TransitionTo, Policy!CancelExecution,
         Theory!CancelExecution, Policy!SetProgram, Theory!SetProgram,
         Policy!ClearProgram, Theory!ClearProgram, Policy!Classified,
         Theory!Classified, Policy!StopStateFor, Theory!StopStateFor,
         Policy!Rejected, Theory!Rejected, Policy!UpdateSafety,
         Theory!UpdateSafety, Policy!ProtectiveStopAsserted,
         Theory!ProtectiveStopAsserted, Policy!ProtectiveStopCleared,
         Theory!ProtectiveStopCleared, Policy!EstopAsserted,
         Theory!EstopAsserted, Policy!EstopReleased, Theory!EstopReleased,
         Policy!FaultDetected, Theory!FaultDetected, Policy!Pause,
         Theory!Pause, Policy!Resume, Theory!Resume, Policy!PauseResume,
         Theory!PauseResume, Policy!StaleResult, Theory!StaleResult,
         Policy!StateFailed, Theory!StateFailed, Policy!AbortableStates,
         Theory!AbortableStates, Policy!StateAbortedHome,
         Theory!StateAbortedHome, Policy!StateAbortedReset,
         Theory!StateAbortedReset, Policy!CompletionTarget,
         Theory!CompletionTarget, Policy!PlainCompletionAllowed,
         Theory!PlainCompletionAllowed, Policy!PlainComplete,
         Theory!PlainComplete, Policy!TeachingComplete,
         Theory!TeachingComplete, Policy!PathValidationComplete,
         Theory!PathValidationComplete, Policy!ExecutionComplete,
         Theory!ExecutionComplete, Policy!CompletionRejected,
         Theory!CompletionRejected, Policy!StateComplete,
         Theory!StateComplete, Policy!ValidationRejected,
         Theory!ValidationRejected, Policy!ResetProgramming,
         Theory!ResetProgramming, Policy!ResetFault, Theory!ResetFault,
         Policy!ResetEmergency, Theory!ResetEmergency, Policy!Reset,
         Theory!Reset, Policy!HomeAfterEmergencyAllowed,
         Theory!HomeAfterEmergencyAllowed, Policy!HomeAfterEmergency,
         Theory!HomeAfterEmergency, Policy!HomeFromIdle, Theory!HomeFromIdle,
         Policy!Home, Theory!Home, Policy!Teach, Theory!Teach,
         Policy!PreviewAllowed, Theory!PreviewAllowed, Policy!ValidatePreview,
         Theory!ValidatePreview, Policy!ReplayAllowed, Theory!ReplayAllowed,
         Policy!StartReplay, Theory!StartReplay, Policy!SafetyEvent,
         Theory!SafetyEvent, Policy!OperatorEvent, Theory!OperatorEvent,
         Policy!StateResult, Theory!StateResult, Policy!Next, Theory!Next,
         Policy!stateVars, Theory!stateVars, Policy!programVars,
         Theory!programVars, Policy!latchVars, Theory!latchVars,
         Policy!machineVars, Theory!machineVars
<1>2. Policy!machineVars = Theory!machineVars
  BY DEF Policy!machineVars, Theory!machineVars, Policy!stateVars,
         Theory!stateVars, Policy!programVars, Theory!programVars,
         Policy!latchVars, Theory!latchVars
<1>3. (Policy!machineVars)' = (Theory!machineVars)'
  BY DEF Policy!machineVars, Theory!machineVars, Policy!stateVars,
         Theory!stateVars, Policy!programVars, Theory!programVars,
         Policy!latchVars, Theory!latchVars
<1> QED
  BY <1>1, <1>2, <1>3 DEF PolicyMove

\* And the same invariant.
LEMMA SameInv == Policy!PolicyInv <=> Theory!PolicyInv
BY DEF Policy!PolicyInv, Theory!PolicyInv, Policy!TypeOK, Theory!TypeOK,
       Policy!ProgramLifecycle, Theory!ProgramLifecycle,
       Policy!ModeMatchesState, Theory!ModeMatchesState,
       Policy!RunningProgramIsAuthorised, Theory!RunningProgramIsAuthorised,
       Policy!SafetySnapshot, Theory!SafetySnapshot, Policy!RobotStates,
       Theory!RobotStates, Policy!PausableStates, Theory!PausableStates,
       Policy!LegacyExecutionStates, Theory!LegacyExecutionStates,
       Policy!StoppedStates, Theory!StoppedStates, Policy!ExecutionModes,
       Theory!ExecutionModes, Policy!Severities, Theory!Severities

\* The policy is in order, and so is the destination of Resume.
PolicyFacts == Policy!PolicyInv /\ Theory!ResumeInv

\* What is proved of the policy holds at the start.
LEMMA InitPolicyFacts == Init => PolicyFacts
<1> SUFFICES ASSUME Init PROVE PolicyFacts
  OBVIOUS
<1>1. Theory!Init
  BY DEF Init, Policy!Init, Theory!Init
<1>2. Theory!PolicyInv
  BY <1>1, PolicyConstants, Theory!InitPolicyInv
<1>3. Theory!ResumeInv
  BY <1>1 DEF Theory!Init, Theory!ResumeInv, Theory!ResumeDestinationIsCurrent,
              Theory!StoppedStates
<1> QED
  BY <1>2, <1>3, SameInv DEF PolicyFacts

\* And it survives every event of the policy.
LEMMA PolicyFactsNext ==
    ASSUME PolicyFacts, PolicyMove
    PROVE  PolicyFacts'
<1>1. Theory!PolicyInv /\ [Theory!Next]_(Theory!machineVars)
  BY SameInv, SameNext DEF PolicyFacts
<1>2. Theory!PolicyInv'
  BY <1>1, PolicyConstants, Theory!PolicyInvNext
<1>3. Theory!TypeOK
  BY <1>1 DEF Theory!PolicyInv
<1>4. Theory!ResumeInv'
  BY <1>1, <1>3, PolicyConstants, Theory!ResumeStep DEF PolicyFacts
<1>5. Policy!PolicyInv' <=> Theory!PolicyInv'
  BY DEF Policy!PolicyInv, Theory!PolicyInv, Policy!TypeOK, Theory!TypeOK,
         Policy!ProgramLifecycle, Theory!ProgramLifecycle,
         Policy!ModeMatchesState, Theory!ModeMatchesState,
         Policy!RunningProgramIsAuthorised, Theory!RunningProgramIsAuthorised,
         Policy!SafetySnapshot, Theory!SafetySnapshot, Policy!RobotStates,
         Theory!RobotStates, Policy!PausableStates, Theory!PausableStates,
         Policy!LegacyExecutionStates, Theory!LegacyExecutionStates,
         Policy!StoppedStates, Theory!StoppedStates, Policy!ExecutionModes,
         Theory!ExecutionModes, Policy!Severities, Theory!Severities
<1> QED
  BY <1>2, <1>4, <1>5 DEF PolicyFacts

-----------------------------------------------------------------------------
(* What is posted.                                                         *)

EventsOf(input) == IF input \in InjectedInputs THEN 1 ELSE 0

RoundSize == 3 + EventsOf("ESTOP") + EventsOf("PROTECTIVE_STOP") + EventsOf("FAULT")

\* A round is three to six messages.
LEMMA RoundSizeType == RoundSize \in 3 .. 6
BY DEF RoundSize, EventsOf

\* A round is a snapshot, at most one event per input that changes, and two
\* controls.
LEMMA RoundPosts ==
    ASSUME drivesReady \in BOOLEAN,
           NEW active \in SUBSET StopInputs, NEW before \in SUBSET StopInputs
    PROVE  /\ Round(active, before) \in Seq(Published)
           /\ active \cup before \subseteq InjectedInputs =>
                  Len(Round(active, before)) <= RoundSize
<1> DEFINE Known == active \cup before \subseteq InjectedInputs
           snapshot == <<SafetyMessage(active)>>
           e1 == Edge("ESTOP", <<EventMessage("ESTOP_ASSERTED")>>,
                      <<EventMessage("ESTOP_RELEASED")>>, active, before)
           e2 == Edge("PROTECTIVE_STOP", <<EventMessage("PROTECTIVE_STOP_ASSERTED")>>,
                      <<EventMessage("PROTECTIVE_STOP_CLEARED")>>, active, before)
           e3 == Edge("FAULT", <<EventMessage("FAULT_DETECTED")>>, << >>,
                      active, before)
           controls == <<ApproachMessage(active), ExecutionMessage>>
<1>1. snapshot \in Seq(Published) /\ Len(snapshot) <= 1
  <2>1. SafetyMessage(active) \in Published
    BY DEF SafetyMessage, Published, Snapshots
  <2> QED
    BY <2>1
<1>2. /\ e1 \in Seq(Published)
      /\ Known => Len(e1) <= EventsOf("ESTOP")
  <2>1. EventMessage("ESTOP_ASSERTED") \in Published
    BY DEF EventMessage, Published, StopEvents
  <2>2. EventMessage("ESTOP_RELEASED") \in Published
    BY DEF EventMessage, Published, StopEvents
  <2> QED
    BY <2>1, <2>2 DEF Edge, EventsOf, Known
<1>3. /\ e2 \in Seq(Published)
      /\ Known => Len(e2) <= EventsOf("PROTECTIVE_STOP")
  <2>1. EventMessage("PROTECTIVE_STOP_ASSERTED") \in Published
    BY DEF EventMessage, Published, StopEvents
  <2>2. EventMessage("PROTECTIVE_STOP_CLEARED") \in Published
    BY DEF EventMessage, Published, StopEvents
  <2> QED
    BY <2>1, <2>2 DEF Edge, EventsOf, Known
<1>4. /\ e3 \in Seq(Published)
      /\ Known => Len(e3) <= EventsOf("FAULT")
  <2>1. EventMessage("FAULT_DETECTED") \in Published
    BY DEF EventMessage, Published, StopEvents
  <2> QED
    BY <2>1 DEF Edge, EventsOf, Known
<1>5. controls \in Seq(Published) /\ Len(controls) <= 2
  <2>1. ApproachMessage(active) \in Published /\ ExecutionMessage \in Published
    BY DEF ApproachMessage, ExecutionMessage, Published
  <2> QED
    BY <2>1
<1>6. \A input : EventsOf(input) \in 0 .. 1
  BY DEF EventsOf
<1> HIDE DEF snapshot, e1, e2, e3, controls, Known
<1>7. ASSUME NEW s \in Seq(Published), NEW t \in Seq(Published)
      PROVE  s \o t \in Seq(Published) /\ Len(s \o t) = Len(s) + Len(t)
  BY ConcatProperties
<1> DEFINE r1 == snapshot \o e1
           r2 == r1 \o e2
           r3 == r2 \o e3
           r4 == r3 \o controls
<1> HIDE DEF r1, r2, r3, r4
<1>8. /\ r1 \in Seq(Published)
      /\ Known => Len(r1) <= 1 + EventsOf("ESTOP")
  BY <1>1, <1>2, <1>6, <1>7, LenProperties DEF r1
<1>9. /\ r2 \in Seq(Published)
      /\ Known => Len(r2) <= 1 + EventsOf("ESTOP") + EventsOf("PROTECTIVE_STOP")
  BY <1>3, <1>6, <1>7, <1>8, LenProperties DEF r2
<1>10. /\ r3 \in Seq(Published)
       /\ Known => Len(r3) <= 1 + EventsOf("ESTOP") + EventsOf("PROTECTIVE_STOP")
                                 + EventsOf("FAULT")
  BY <1>4, <1>6, <1>7, <1>9, LenProperties DEF r3
<1>11. r4 \in Seq(Published) /\ (Known => Len(r4) <= RoundSize)
  BY <1>5, <1>6, <1>7, <1>10, LenProperties DEF r4, RoundSize
<1>12. Round(active, before) = r4
  BY DEF Round, r1, r2, r3, r4, snapshot, e1, e2, e3, controls
<1> QED
  BY <1>11, <1>12 DEF Known

\* At the start there are no messages.
LEMMA InitMessages == Init => MessageInv
<1> SUFFICES ASSUME Init PROVE MessageInv
  OBVIOUS
<1>1. queue \in Seq(Messages) /\ outbox \in Seq(Published)
  BY DEF Init
<1>2. hmiTurns \in 0 .. HmiTurns
  BY SupervisorTaskAssumption DEF Init
<1> QED
  BY <1>1, <1>2 DEF Init, MessageInv

\* The tasks exchange nothing but messages.
LEMMA MessagesNext ==
    ASSUME MessageInv, [Next]_vars
    PROVE  MessageInv'
<1> USE DEF MessageInv
<1>1. CASE TakeMessage
  <2>1. queue # << >>
    BY <1>1 DEF TakeMessage, BatchEnds
  <2>2. Tail(queue) \in Seq(Messages)
    BY <2>1, HeadTailProperties
  <2> QED
    BY <1>1, <2>2 DEF TakeMessage, producerVars, HandleMessage
<1>2. CASE Step
  <2>1. drivesReady' \in BOOLEAN
    BY <1>2 DEF Step, RunActiveState, RunBoot, RunHoming, RunIdle, RunTeaching,
                RunPathValidation, RunApproach, RunPathExecution, RunPaused,
                RunStopState
  <2> QED
    BY <1>2, <2>1 DEF Step, producerVars
<1>3. CASE Tick
  BY <1>3, SupervisorTaskAssumption
  DEF Tick, Rested, contextVars, assetVars
<1>4. CASE PublishRound
  <2>1. Round(inputs, published) \in Seq(Published)
    BY RoundPosts, SupervisorTaskAssumption
  <2> QED
    BY <1>4, <2>1 DEF PublishRound, assetVars
<1>5. CASE PublishPost
  <2>1. Head(outbox) \in Messages
    BY <1>5, HeadTailProperties DEF PublishPost, Messages
  <2>2. Tail(outbox) \in Seq(Published)
    BY <1>5, HeadTailProperties DEF PublishPost
  <2>3. Append(queue, Head(outbox)) \in Seq(Messages)
    BY <2>1, AppendProperties
  <2>4. publisher # "READY"
    BY <1>5 DEF PublishPost
  <2> QED
    BY <1>5, <2>2, <2>3, <2>4 DEF PublishPost, contextVars, assetVars
<1>6. CASE HmiTurn
  <2>1. ASSUME NEW command \in Commands
        PROVE  Append(queue, HmiMessage(command)) \in Seq(Messages)
    <3>1. HmiMessage(command) \in Messages
      BY DEF HmiMessage, Messages
    <3> QED
      BY <3>1, AppendProperties
  <2>2. queue' \in Seq(Messages)
    BY <1>6, <2>1 DEF HmiTurn
  <2>3. inputs' \subseteq InjectedInputs
    BY <1>6 DEF HmiTurn
  <2>4. hmiTurns' \in 0 .. HmiTurns
    BY <1>6, SupervisorTaskAssumption DEF HmiTurn
  <2> QED
    BY <1>6, <2>2, <2>3, <2>4 DEF HmiTurn, contextVars, assetVars
<1>7. CASE UNCHANGED vars
  BY <1>7 DEF vars, taskVars, producerVars, contextVars, assetVars
<1> QED
  BY <1>1, <1>2, <1>3, <1>4, <1>5, <1>6, <1>7 DEF Next

\* What every task may rely on.
BaseInv == MessageInv /\ PolicyFacts

\* Both parts of BaseInv survive every step.
LEMMA BaseNext ==
    ASSUME BaseInv, [Next]_vars
    PROVE  BaseInv' /\ PolicyMove
<1>1. PolicyMove
  BY TasksMove DEF BaseInv, PolicyFacts, Policy!PolicyInv
<1> QED
  BY <1>1, MessagesNext, PolicyFactsNext DEF BaseInv

\* So they hold in every reachable state.
LEMMA BaseInvariant == Spec => []BaseInv
<1>1. Init => BaseInv
  BY InitMessages, InitPolicyFacts DEF BaseInv
<1>2. BaseInv /\ [Next]_vars => BaseInv'
  BY BaseNext
<1> QED
  BY <1>1, <1>2, PTL DEF Spec

\* What the tasks do to the policy is one of its events at a time.
THEOREM PolicyImplemented == Spec => ImplementsPolicy
<1>1. Init => Policy!Init
  BY DEF Init
<1>2. BaseInv /\ [Next]_vars => [Policy!Next]_(Policy!machineVars)
  BY BaseNext DEF PolicyMove
<1> QED
  BY <1>1, <1>2, BaseInvariant, PTL DEF Spec, ImplementsPolicy, Policy!Spec

-----------------------------------------------------------------------------
(* The request that PATH_EXECUTION works on.                               *)

\* It is made by the entry that starts a run and by nothing else.
RunContextMove ==
    IF Entered("PATH_EXECUTION") /\ ~(previousState' = "PAUSED" /\ phase # "IDLE")
    THEN /\ mode' = executionMode'
         /\ requestValid' = (validatedTrajectoryAvailable' /\ artifact = "COMMITTED")
    ELSE UNCHANGED <<mode, requestValid>>

\* A transition makes the request by the entry into PATH_EXECUTION, or not at all.
LEMMA EntryMakesRequest ==
    ASSUME EnterExecution \/ (UNCHANGED executionContext /\ UNCHANGED activeState)
    PROVE  RunContextMove
BY DEF EnterExecution, RunContextMove, Entered, executionContext,
       Execution!ResumeExecution, Execution!Enter, Execution!executionVars,
       Execution!requestVars, Execution!progressVars, Execution!feedVars

\* That is so when a message is taken.
LEMMA MessageContext ==
    ASSUME NEW message, HandleMessage(message)
    PROVE  RunContextMove
<1>1. CASE EnterActiveState \/ NoEvent
  BY <1>1, EntryMakesRequest DEF EnterActiveState, NoEvent, policyVars
<1>2. CASE UNCHANGED policyVars /\ UNCHANGED executionContext
  BY <1>2, EntryMakesRequest DEF policyVars
<1>3. CASE HandleSafety(message.content)
  BY <1>3, EntryMakesRequest DEF HandleSafety, Policy!UpdateSafety, Policy!stateVars
<1>4. CASE HandleEvent(message.content)
  BY <1>1, <1>4 DEF HandleEvent, Forward
<1>5. CASE HandleApproachControl(message.content)
  BY <1>2, <1>5 DEF HandleApproachControl
<1>6. CASE HandleExecutionInputs
  <2>1. CASE Execution!StopClockTicks
    BY <1>6, <2>1 DEF HandleExecutionInputs, Execution!StopClockTicks,
       Execution!requestVars, RunContextMove, Entered, policyVars
  <2> QED
    BY <1>2, <1>6, <2>1 DEF HandleExecutionInputs
<1>7. CASE HandleHmiCommand(message.content)
  <2>1. CASE TeachingCommand(message.content) \/ IgnoredCommand(message.content)
    BY <1>1, <2>1 DEF TeachingCommand, IgnoredCommand, Forward
  <2>2. CASE MotionCommand(message.content)
    BY <1>1, <1>2, <2>2 DEF MotionCommand, HandleRequest, Forward
  <2> QED
    BY <1>7, <2>1, <2>2 DEF HandleHmiCommand
<1> QED
  BY <1>3, <1>4, <1>5, <1>6, <1>7 DEF HandleMessage

\* And in the step of the active state.
LEMMA StepContext ==
    ASSUME RunActiveState
    PROVE  RunContextMove
<1>1. CASE EnterActiveState \/ NoEvent
  BY <1>1, EntryMakesRequest DEF EnterActiveState, NoEvent, policyVars
<1>2. CASE RunBoot \/ RunHoming \/ RunIdle \/ RunTeaching
  BY <1>1, <1>2 DEF RunBoot, RunHoming, RunIdle, RunTeaching, Forward
<1>3. CASE RunPathValidation \/ RunApproach
  BY <1>1, <1>3, EntryMakesRequest DEF RunPathValidation, RunApproach
<1>4. CASE RunPathExecution
  <2>1. UNCHANGED <<mode, requestValid>>
    BY <1>4
    DEF RunPathExecution, Execution!StepRuns, Execution!StepFails,
        Execution!StepCompletes, Execution!StartAbort, Execution!BeginAbort,
        Execution!CheckPrerequisites, Execution!ConfigureWireFeed,
        Execution!FollowTrajectory, Execution!DisableWireFeed,
        Execution!AdvanceRetraction, Execution!VerifyClearance,
        Execution!ControlledStopEnds, Execution!ControlledStopWaits,
        Execution!FailOnStopInput, Execution!PhaseFails, Execution!Fail,
        Execution!executionVars, Execution!requestVars
  <2>2. activeState = "PATH_EXECUTION"
    BY <1>4 DEF RunPathExecution
  <2> QED
    BY <2>1, <2>2 DEF RunContextMove, Entered
<1>5. CASE RunPaused
  <2>1. ~Entered("PATH_EXECUTION")
    BY <1>5
    DEF RunPaused, Entered, policyVars, Failed, Policy!StateFailed,
        Policy!StaleResult, Policy!TransitionTo, Policy!StopStateFor
  <2> QED
    BY <1>5, <2>1 DEF RunPaused, RunContextMove, executionContext
<1>6. CASE RunStopState
  BY <1>6, EntryMakesRequest DEF RunStopState, policyVars
<1> QED
  BY <1>2, <1>3, <1>4, <1>5, <1>6 DEF RunActiveState

\* Only starting a run makes a request.
LEMMA ContextMove ==
    ASSUME [Next]_vars
    PROVE  RunContextMove
<1>1. CASE TakeMessage
  BY <1>1, MessageContext DEF TakeMessage
<1>2. CASE Step
  BY <1>2, StepContext DEF Step
<1>3. CASE Tick \/ PublishRound \/ PublishPost \/ HmiTurn \/ UNCHANGED vars
  BY <1>3, EntryMakesRequest
  DEF Tick, PublishRound, PublishPost, HmiTurn, vars, contextVars, policyVars
<1> QED
  BY <1>1, <1>2, <1>3 DEF Next

-----------------------------------------------------------------------------
(* The artifact of a validation.                                           *)

\* No message validates a program or starts a validation.
LEMMA EventKeepsValidation ==
    ASSUME PolicyFacts, Policy!SafetyEvent \/ Policy!OperatorEvent
    PROVE  /\ validatedTrajectoryAvailable' => validatedTrajectoryAvailable
           /\ ~Entered("PATH_VALIDATION")
<1> USE DEF Entered, Policy!TransitionTo, Policy!programVars, Policy!stateVars
<1>1. CASE Policy!SafetyEvent
  BY <1>1
  DEF Policy!SafetyEvent, Policy!ProtectiveStopAsserted,
      Policy!ProtectiveStopCleared, Policy!EstopAsserted, Policy!EstopReleased,
      Policy!FaultDetected, Policy!StopStateFor, Policy!UpdateSafety
<1>2. CASE Policy!PauseResume
  BY <1>2
  DEF Policy!PauseResume, Policy!Pause, Policy!Resume, Policy!Rejected,
      Policy!machineVars, Policy!PausableStates, Policy!LegacyExecutionStates
<1>3. CASE Policy!Reset
  BY <1>3
  DEF Policy!Reset, Policy!ResetProgramming, Policy!ResetFault,
      Policy!ResetEmergency, Policy!ClearProgram, Policy!SetProgram,
      Policy!Rejected, Policy!machineVars
<1>4. CASE Policy!Home
  BY <1>4
  DEF Policy!Home, Policy!HomeAfterEmergency, Policy!HomeFromIdle,
      Policy!Rejected, Policy!machineVars
<1>5. CASE Policy!Teach \/ Policy!ValidatePreview \/ Policy!StartReplay
  BY <1>5
  DEF Policy!Teach, Policy!ValidatePreview, Policy!StartReplay,
      Policy!SetProgram, Policy!Rejected, Policy!machineVars
<1> QED
  BY <1>1, <1>2, <1>3, <1>4, <1>5 DEF Policy!OperatorEvent

\* No state but PATH_VALIDATION validates a program, and no state that is not
\* TEACHING starts a validation.
LEMMA ResultKeepsValidation ==
    ASSUME NEW source, Policy!StateResult(source)
    PROVE  /\ \/ validatedTrajectoryAvailable' => validatedTrajectoryAvailable
              \/ activeState = "PATH_VALIDATION" /\ Policy!StateComplete(source)
           /\ Entered("PATH_VALIDATION") => ~validatedTrajectoryAvailable'
<1> USE DEF Entered, Policy!TransitionTo, Policy!programVars, Policy!stateVars,
            Policy!SetProgram, Policy!ClearProgram, Policy!Rejected,
            Policy!machineVars, Policy!StaleResult
<1>1. CASE Policy!StateComplete(source)
  BY <1>1
  DEF Policy!StateComplete, Policy!PlainComplete, Policy!PlainCompletionAllowed,
      Policy!CompletionTarget, Policy!TeachingComplete,
      Policy!PathValidationComplete, Policy!ExecutionComplete,
      Policy!CompletionRejected
<1>2. CASE Policy!ValidationRejected(source)
  BY <1>2 DEF Policy!ValidationRejected
<1>3. CASE Policy!StateAbortedHome(source) \/ Policy!StateAbortedReset(source)
  BY <1>3 DEF Policy!StateAbortedHome, Policy!StateAbortedReset
<1>4. ASSUME NEW severity, Policy!StateFailed(source, severity)
      PROVE  /\ UNCHANGED validatedTrajectoryAvailable
             /\ ~Entered("PATH_VALIDATION")
  BY <1>4 DEF Policy!StateFailed, Policy!StopStateFor
<1> QED
  BY <1>1, <1>2, <1>3, <1>4 DEF Policy!StateResult

\* A rejected validation leaves nothing validated.
LEMMA RejectionWithdraws ==
    ASSUME activeState = "PATH_VALIDATION", Policy!ValidationRejected(activeState)
    PROVE  ~validatedTrajectoryAvailable' /\ ~Entered("PATH_VALIDATION")
BY DEF Policy!ValidationRejected, Policy!StaleResult, Policy!SetProgram, Entered

\* A step writes the artifact only between a validation and its result.
LEMMA StepKeepsArtifact ==
    ASSUME BaseInv, ArtifactBacksValidation, RunActiveState
    PROVE  ArtifactBacksValidation'
<1> USE DEF ArtifactBacksValidation
<1>1. CASE UNCHANGED <<policyVars, artifact>>
  BY <1>1 DEF policyVars
<1>2. ASSUME Policy!StateResult(activeState), EnterValidation \/ UNCHANGED artifact,
             activeState # "PATH_VALIDATION"
      PROVE  ArtifactBacksValidation'
  BY <1>2, ResultKeepsValidation DEF EnterValidation
<1>3. ASSUME Failed \/ Complete,
             EnterValidation \/ UNCHANGED artifact,
             activeState # "PATH_VALIDATION"
      PROVE  ArtifactBacksValidation'
  BY <1>2, <1>3 DEF Failed, Complete, Policy!StateResult
<1>4. CASE RunBoot \/ RunHoming \/ RunIdle \/ RunTeaching
  <2>1. activeState # "PATH_VALIDATION"
    BY <1>4 DEF RunBoot, RunHoming, RunIdle, RunTeaching
  <2> QED
    BY <1>1, <1>3, <1>4, <2>1
    DEF RunBoot, RunHoming, RunIdle, RunTeaching, NoEvent, Forward,
        EnterActiveState
<1>5. CASE RunPathValidation
  <2>1. CASE NoEvent
    BY <1>1, <2>1 DEF NoEvent
  <2>2. ASSUME ValidationEnd(TRUE), artifact' = "COMMITTED"
        PROVE  ArtifactBacksValidation'
    BY <2>2
  <2>3. CASE ValidationEnd(FALSE)
    BY <1>5, <2>3, RejectionWithdraws DEF RunPathValidation, ValidationEnd
  <2> QED
    BY <1>5, <2>1, <2>2, <2>3 DEF RunPathValidation
<1>6. CASE RunApproach
  <2>1. activeState = "APPROACH" /\ EnterValidation
    BY <1>6 DEF RunApproach
  <2>2. CASE UNCHANGED policyVars
    BY <1>1, <2>1, <2>2 DEF EnterValidation, Entered, policyVars
  <2> QED
    BY <1>2, <1>3, <1>6, <2>1, <2>2
    DEF RunApproach, ApproachEvent, Policy!StateResult
<1>7. CASE RunPathExecution
  <2>1. activeState = "PATH_EXECUTION" /\ UNCHANGED artifact
    BY <1>7 DEF RunPathExecution
  <2> QED
    BY <1>1, <1>2, <1>3, <1>7, <2>1
    DEF RunPathExecution, ExecutionEnd, Policy!StateResult
<1>8. CASE RunPaused \/ RunStopState
  BY <1>1, <1>3, <1>8 DEF RunPaused, RunStopState
<1> QED
  BY <1>4, <1>5, <1>6, <1>7, <1>8 DEF RunActiveState

\* Whatever is taken, stepped or posted, a validated trajectory stays committed.
LEMMA ArtifactNext ==
    ASSUME BaseInv, ArtifactBacksValidation, [Next]_vars
    PROVE  ArtifactBacksValidation'
<1>1. CASE TakeMessage
  <2>1. queue # << >> /\ Head(queue) \in Messages
    BY <1>1, HeadTailProperties DEF TakeMessage, BatchEnds, BaseInv, MessageInv
  <2>2. \/ Policy!SafetyEvent \/ Policy!OperatorEvent
        \/ UNCHANGED policyVars
    BY <1>1, <2>1, MessageEvent DEF TakeMessage
  <2>3. EnterValidation \/ UNCHANGED artifact
    BY <1>1, <2>1, MessageEvent DEF TakeMessage
  <2>4. /\ validatedTrajectoryAvailable' => validatedTrajectoryAvailable
        /\ ~Entered("PATH_VALIDATION")
    BY <2>2, EventKeepsValidation DEF BaseInv, policyVars, Entered
  <2> QED
    BY <2>3, <2>4 DEF EnterValidation, ArtifactBacksValidation
<1>2. CASE Step
  BY <1>2, StepKeepsArtifact DEF Step
<1>3. CASE Tick \/ PublishRound \/ PublishPost \/ HmiTurn \/ UNCHANGED vars
  BY <1>3
  DEF Tick, PublishRound, PublishPost, HmiTurn, vars, contextVars, assetVars,
      policyVars, ArtifactBacksValidation
<1> QED
  BY <1>1, <1>2, <1>3 DEF Next

\* Across edits, rejections and validations that were cut short, what the policy
\* calls validated is a committed artifact.
THEOREM ArtifactIsCommitted == Spec => []ArtifactBacksValidation
<1>1. Init => ArtifactBacksValidation
  BY DEF Init, Policy!Init, ArtifactBacksValidation
<1>2. BaseInv /\ ArtifactBacksValidation /\ [Next]_vars => ArtifactBacksValidation'
  BY ArtifactNext
<1> QED
  BY <1>1, <1>2, BaseInvariant, PTL DEF Spec

-----------------------------------------------------------------------------
(* The run that is current.                                                *)

\* PATH_EXECUTION runs, or a pause will return to it.
RunIsCurrent ==
    \/ activeState = "PATH_EXECUTION"
    \/ activeState = "PAUSED" /\ resumeState = "PATH_EXECUTION"

\* What an event of the policy does to a current run: it goes on in its mode, or
\* APPROACH has just started it.
RunMove ==
    /\ RunIsCurrent' =>
           \/ RunIsCurrent /\ UNCHANGED executionMode
           \/ activeState = "APPROACH" /\ Entered("PATH_EXECUTION")
    /\ Entered("PATH_EXECUTION") => previousState' = activeState

\* That is so for the events of the inputs and of the operator.
LEMMA EventsKeepRun ==
    ASSUME PolicyFacts, Policy!SafetyEvent \/ Policy!OperatorEvent
    PROVE  RunMove
<1> USE DEF RunMove, RunIsCurrent, Entered, Policy!TransitionTo, Policy!stateVars,
            Policy!CancelExecution
<1>1. CASE Policy!SafetyEvent
  BY <1>1
  DEF Policy!SafetyEvent, Policy!ProtectiveStopAsserted,
      Policy!ProtectiveStopCleared, Policy!EstopAsserted, Policy!EstopReleased,
      Policy!FaultDetected, Policy!StopStateFor, Policy!UpdateSafety
<1>2. CASE Policy!PauseResume
  BY <1>2
  DEF Policy!PauseResume, Policy!Pause, Policy!Resume, Policy!Rejected,
      Policy!machineVars, Policy!PausableStates, Policy!LegacyExecutionStates
<1>3. CASE Policy!Reset
  BY <1>3
  DEF Policy!Reset, Policy!ResetProgramming, Policy!ResetFault,
      Policy!ResetEmergency, Policy!Rejected, Policy!machineVars
<1>4. CASE Policy!Home
  BY <1>4
  DEF Policy!Home, Policy!HomeAfterEmergency, Policy!HomeFromIdle,
      Policy!Rejected, Policy!machineVars
<1>5. CASE Policy!Teach \/ Policy!ValidatePreview \/ Policy!StartReplay
  BY <1>5
  DEF Policy!Teach, Policy!ValidatePreview, Policy!StartReplay,
      Policy!PreviewAllowed, Policy!ReplayAllowed, Policy!Rejected,
      Policy!machineVars
<1> QED
  BY <1>1, <1>2, <1>3, <1>4, <1>5 DEF Policy!OperatorEvent

\* And for the results of the states.
LEMMA ResultsKeepRun ==
    ASSUME PolicyFacts, NEW source, Policy!StateResult(source)
    PROVE  RunMove
<1> USE DEF RunMove, RunIsCurrent, Entered, Policy!TransitionTo, Policy!stateVars,
            Policy!CancelExecution, Policy!Rejected, Policy!machineVars,
            Policy!StaleResult
<1>1. CASE Policy!StateComplete(source)
  BY <1>1
  DEF Policy!StateComplete, Policy!PlainComplete, Policy!PlainCompletionAllowed,
      Policy!CompletionTarget, Policy!TeachingComplete,
      Policy!PathValidationComplete, Policy!ExecutionComplete,
      Policy!CompletionRejected
<1>2. CASE Policy!ValidationRejected(source)
  BY <1>2 DEF Policy!ValidationRejected
<1>3. CASE Policy!StateAbortedHome(source) \/ Policy!StateAbortedReset(source)
  BY <1>3 DEF Policy!StateAbortedHome, Policy!StateAbortedReset
<1>4. ASSUME NEW severity, Policy!StateFailed(source, severity)
      PROVE  RunMove
  BY <1>4 DEF Policy!StateFailed, Policy!StopStateFor
<1> QED
  BY <1>1, <1>2, <1>3, <1>4 DEF Policy!StateResult

\* So it is whatever the tasks do to the policy.
LEMMA RunMoves ==
    ASSUME PolicyFacts, PolicyMove
    PROVE  RunMove
<1>1. CASE UNCHANGED Policy!machineVars
  BY <1>1 DEF Policy!machineVars, Policy!stateVars, RunMove, RunIsCurrent, Entered
<1> QED
  BY <1>1, EventsKeepRun, ResultsKeepRun DEF PolicyMove, Policy!Next

\* The request stays that of the run that is current.
LEMMA RunContextNext ==
    ASSUME BaseInv, ArtifactBacksValidation, RunContextIsCurrent, [Next]_vars
    PROVE  RunContextIsCurrent'
<1>1. BaseInv' /\ PolicyMove /\ RunContextMove
  BY BaseNext, ContextMove
<1>2. RunMove
  BY <1>1, RunMoves DEF BaseInv
<1>3. RunContextIsCurrent <=> (RunIsCurrent => mode = executionMode /\ requestValid)
  BY DEF RunContextIsCurrent, RunIsCurrent
<1>4. SUFFICES ASSUME RunIsCurrent'
               PROVE  mode' = executionMode' /\ requestValid'
  BY DEF RunContextIsCurrent, RunIsCurrent
<1>5. CASE Entered("PATH_EXECUTION") /\ ~(previousState' = "PAUSED" /\ phase # "IDLE")
  <2>1. executionMode' # "NONE"
    BY <1>1, <1>5
    DEF BaseInv, PolicyFacts, Policy!PolicyInv, Policy!ModeMatchesState, Entered,
        Policy!PausableStates
  <2>2. validatedTrajectoryAvailable'
    BY <1>1, <2>1
    DEF BaseInv, PolicyFacts, Policy!PolicyInv, Policy!TypeOK,
        Policy!ExecutionModes, Policy!RunningProgramIsAuthorised
  <2>3. artifact = "COMMITTED"
    <3>1. \/ RunIsCurrent /\ UNCHANGED executionMode
          \/ activeState = "APPROACH"
      BY <1>2, <1>4 DEF RunMove
    <3>2. executionMode # "NONE"
      BY <3>1
      DEF RunIsCurrent, BaseInv, PolicyFacts, Policy!PolicyInv,
          Policy!ModeMatchesState, Policy!PausableStates
    <3>3. validatedTrajectoryAvailable
      BY <3>2
      DEF BaseInv, PolicyFacts, Policy!PolicyInv, Policy!TypeOK,
          Policy!ExecutionModes, Policy!RunningProgramIsAuthorised
    <3> QED
      BY <3>3 DEF ArtifactBacksValidation
  <2> QED
    BY <1>1, <1>5, <2>2, <2>3 DEF RunContextMove
<1>6. CASE ~(Entered("PATH_EXECUTION") /\ ~(previousState' = "PAUSED" /\ phase # "IDLE"))
  <2>1. RunIsCurrent /\ UNCHANGED executionMode
    BY <1>2, <1>4, <1>6 DEF RunMove
  <2>2. UNCHANGED <<mode, requestValid>>
    BY <1>1, <1>6 DEF RunContextMove
  <2> QED
    BY <1>3, <2>1, <2>2
<1> QED
  BY <1>5, <1>6

\* The request that PATH_EXECUTION works on, also after a pause, is the one the
\* policy has authorised.
THEOREM RunContextStaysCurrent == Spec => []RunContextIsCurrent
<1>1. Init => RunContextIsCurrent
  BY DEF Init, Policy!Init, RunContextIsCurrent
<1>2. BaseInv /\ ArtifactBacksValidation /\ RunContextIsCurrent /\ [Next]_vars
      => RunContextIsCurrent'
  BY RunContextNext
<1> QED
  BY <1>1, <1>2, BaseInvariant, ArtifactIsCommitted, PTL DEF Spec

-----------------------------------------------------------------------------
(* The queue.                                                              *)

\* The queue and a cycle hold a round and what HMI adds to it, and no command
\* that TEACHING takes is followed by another.
Sizes ==
    /\ QueueLength >= RoundSize + HmiTurns
    /\ MaxMessagesPerCycle >= RoundSize + HmiTurns
    /\ HmiTurns <= 1 \/ "SELECT" \notin Commands

IsCommand(message) == message.type = "HMI_COMMAND"

\* What has been and will be posted before the next step fits into one cycle.
RoomInv ==
    /\ Len(outbox) <= RoundSize
    /\ supervisor = "RUNNING" => Len(queue) + Len(outbox) + taken <= RoundSize + HmiTurns
    /\ supervisor = "BLOCKED" /\ publisher = "READY" =>
           taken = 0 /\ Len(queue) + hmiTurns <= HmiTurns
    /\ supervisor = "BLOCKED" /\ publisher = "WAITING" =>
           taken = 0 /\ Len(queue) + Len(outbox) + hmiTurns <= RoundSize + HmiTurns

\* A command is the last message of a batch when HMI has one turn only.
CommandsComeLast ==
    HmiTurns <= 1 =>
        \A i \in 1 .. Len(queue) :
            IsCommand(queue[i]) =>
                /\ i = Len(queue)
                /\ supervisor = "BLOCKED" => Rested /\ hmiTurns = 0
                /\ outbox = << >>

\* A command waits for TEACHING in TEACHING only, and at the end of the batch.
TeachingInv ==
    /\ pendingTeaching # "NONE" =>
           activeState = "TEACHING" /\ supervisor = "RUNNING" /\ queue = << >>
    /\ "SELECT" \notin Commands => activeState # "TEACHING"

QueueInv == RoomInv /\ CommandsComeLast /\ TeachingInv

\* At the start the queue is empty.
LEMMA InitQueue == Init => QueueInv
<1> SUFFICES ASSUME Init PROVE QueueInv
  OBVIOUS
<1>1. RoomInv
  BY SupervisorTaskAssumption, RoundSizeType DEF Init, RoomInv
<1>2. CommandsComeLast
  BY DEF Init, CommandsComeLast
<1>3. TeachingInv
  BY DEF Init, Policy!Init, TeachingInv
<1> QED
  BY <1>1, <1>2, <1>3 DEF QueueInv

\* The batch ends when the queue is empty.
LEMMA BatchTakesAll ==
    ASSUME Sizes, BaseInv, QueueInv, supervisor = "RUNNING", BatchEnds
    PROVE  queue = << >>
<1>1. CASE taken = MaxMessagesPerCycle
  <2>1. Len(queue) + Len(outbox) + taken <= RoundSize + HmiTurns
    BY DEF QueueInv, RoomInv
  <2>2. Len(queue) \in Nat /\ Len(outbox) \in Nat
    BY LenProperties DEF BaseInv, MessageInv
  <2>3. Len(queue) = 0
    BY <1>1, <2>1, <2>2, SupervisorTaskAssumption, RoundSizeType DEF Sizes
  <2> QED
    BY <2>3, EmptySeq DEF BaseInv, MessageInv
<1> QED
  BY <1>1 DEF BatchEnds, QueueInv, TeachingInv

\* TEACHING is entered by Teach only.
LEMMA OnlyTeachTeaches ==
    ASSUME PolicyFacts, activeState # "TEACHING",
           \/ Policy!SafetyEvent
           \/ Policy!PauseResume \/ Policy!Reset \/ Policy!Home
           \/ Policy!ValidatePreview \/ Policy!StartReplay
           \/ Policy!StateResult(activeState)
           \/ UNCHANGED activeState
    PROVE  activeState' # "TEACHING"
<1> USE DEF Policy!TransitionTo, Policy!stateVars, Policy!Rejected,
            Policy!machineVars, Policy!StaleResult
<1>1. CASE UNCHANGED activeState
  BY <1>1
<1>2. CASE Policy!SafetyEvent
  BY <1>2
  DEF Policy!SafetyEvent, Policy!ProtectiveStopAsserted,
      Policy!ProtectiveStopCleared, Policy!EstopAsserted, Policy!EstopReleased,
      Policy!FaultDetected, Policy!StopStateFor, Policy!UpdateSafety
<1>3. CASE \/ Policy!PauseResume \/ Policy!Reset \/ Policy!Home
           \/ Policy!ValidatePreview \/ Policy!StartReplay
  BY <1>3
  DEF Policy!PauseResume, Policy!Pause, Policy!Resume, Policy!PausableStates,
      Policy!LegacyExecutionStates, Policy!Reset, Policy!ResetProgramming,
      Policy!ResetFault, Policy!ResetEmergency, Policy!Home,
      Policy!HomeAfterEmergency, Policy!HomeFromIdle, Policy!ValidatePreview,
      Policy!StartReplay
<1>4. CASE Policy!StateResult(activeState)
  BY <1>4
  DEF Policy!StateResult, Policy!StateComplete, Policy!PlainComplete,
      Policy!PlainCompletionAllowed, Policy!CompletionTarget,
      Policy!TeachingComplete, Policy!PathValidationComplete,
      Policy!ExecutionComplete, Policy!CompletionRejected,
      Policy!ValidationRejected, Policy!StateAbortedHome,
      Policy!StateAbortedReset, Policy!StateFailed, Policy!StopStateFor
<1> QED
  BY <1>1, <1>2, <1>3, <1>4

\* What a message does to TEACHING: only SELECT enters it, and a command is left
\* to TEACHING only when it is or becomes active.
LEMMA MessageTeaches ==
    ASSUME PolicyFacts, NEW message \in Messages, HandleMessage(message)
    PROVE  /\ activeState # "TEACHING" /\ activeState' = "TEACHING"
                  => "SELECT" \in Commands
           /\ pendingTeaching' # pendingTeaching =>
                  IsCommand(message) /\ activeState' = "TEACHING"
<1> DEFINE Other ==
               \/ Policy!SafetyEvent
               \/ Policy!PauseResume \/ Policy!Reset \/ Policy!Home
               \/ Policy!ValidatePreview \/ Policy!StartReplay
               \/ Policy!StateResult(activeState)
               \/ UNCHANGED activeState
           Goal ==
               /\ activeState # "TEACHING" /\ activeState' = "TEACHING"
                      => "SELECT" \in Commands
               /\ pendingTeaching' # pendingTeaching =>
                      IsCommand(message) /\ activeState' = "TEACHING"
<1> SUFFICES Goal
  OBVIOUS
<1>1. ASSUME Other, UNCHANGED pendingTeaching PROVE Goal
  BY <1>1, OnlyTeachTeaches
<1> HIDE DEF Goal
<1>2. CASE message.type = "HMI_COMMAND" /\ HandleHmiCommand(message.content)
  <2>1. message.content \in Commands
    BY <1>2 DEF Messages, Published
  <2>2. CASE TeachingCommand(message.content)
    <3>1. CASE activeState = "TEACHING" /\ NoEvent
      BY <1>2, <3>1 DEF Goal, IsCommand, NoEvent, policyVars
    <3>2. CASE /\ activeState = "IDLE" /\ message.content = "SELECT"
               /\ Forward(Policy!Teach)
      BY <1>2, <2>1, <3>2
      DEF Goal, IsCommand, Forward, Policy!Teach, Policy!TransitionTo
    <3> QED
      BY <2>2, <3>1, <3>2 DEF TeachingCommand
  <2>3. CASE IgnoredCommand(message.content)
    BY <1>1, <2>3 DEF IgnoredCommand, NoEvent, policyVars
  <2>4. CASE MotionCommand(message.content)
    <3>1. Other
      BY <2>4 DEF MotionCommand, HandleRequest, Forward, policyVars
    <3>2. UNCHANGED pendingTeaching
      BY <2>4 DEF MotionCommand
    <3> HIDE DEF Other
    <3> QED
      BY <1>1, <3>1, <3>2
  <2> QED
    BY <1>2, <2>2, <2>3, <2>4 DEF HandleHmiCommand
<1>3. CASE message.type = "SAFETY" /\ HandleSafety(message.content)
  BY <1>1, <1>3 DEF HandleSafety, Policy!UpdateSafety, Policy!stateVars
<1>4. CASE HandleEvent(message.content)
  <2>1. Policy!SafetyEvent
    BY <1>4 DEF HandleEvent, Forward, PolicyEvent, Policy!SafetyEvent
  <2>2. UNCHANGED pendingTeaching
    BY <1>4 DEF HandleEvent
  <2> QED
    BY <1>1, <2>1, <2>2
<1>5. CASE HandleApproachControl(message.content) \/ HandleExecutionInputs
  BY <1>1, <1>5 DEF HandleApproachControl, HandleExecutionInputs, policyVars
<1> QED
  BY <1>2, <1>3, <1>4, <1>5 DEF HandleMessage

\* Taking a message.
LEMMA TakeQueue ==
    ASSUME Sizes, BaseInv, QueueInv, TakeMessage
    PROVE  QueueInv'
<1>1. queue # << >> /\ pendingTeaching = "NONE" /\ supervisor = "RUNNING"
  BY DEF TakeMessage, BatchEnds
<1>2. Head(queue) \in Messages /\ Head(queue) = queue[1]
  BY <1>1, HeadTailProperties DEF BaseInv, MessageInv
<1>3. /\ queue' = Tail(queue) /\ Len(queue') = Len(queue) - 1
      /\ Len(queue) \in Nat \ {0}
      /\ \A i \in 1 .. Len(queue') : queue'[i] = queue[i + 1]
  BY <1>1, HeadTailProperties, LenProperties, EmptySeq
  DEF TakeMessage, BaseInv, MessageInv
<1>4. UNCHANGED <<supervisor, outbox, hmiTurns, publisher>> /\ taken' = taken + 1
  BY DEF TakeMessage, producerVars
<1>5. RoomInv'
  <2>1. Len(outbox) \in Nat
    BY LenProperties DEF BaseInv, MessageInv
  <2> QED
    BY <1>1, <1>3, <1>4, <2>1, SupervisorTaskAssumption, RoundSizeType
    DEF QueueInv, RoomInv, BaseInv, MessageInv
<1>6. CommandsComeLast'
  <2> SUFFICES ASSUME HmiTurns <= 1, NEW i \in 1 .. Len(queue'),
                      IsCommand(queue'[i])
               PROVE  /\ i = Len(queue')
                      /\ supervisor' = "BLOCKED" => Rested' /\ hmiTurns' = 0
                      /\ outbox' = << >>
    BY DEF CommandsComeLast, IsCommand
  <2>1. i + 1 \in 1 .. Len(queue) /\ IsCommand(queue[i + 1])
    BY <1>3
  <2>2. i + 1 = Len(queue) /\ outbox = << >>
    BY <2>1 DEF QueueInv, CommandsComeLast
  <2>3. i = Len(queue')
    <3>1. i \in Int /\ Len(queue) \in Int /\ Len(queue') = Len(queue) - 1
      BY <1>3
    <3> QED
      BY <2>2, <3>1
  <2>4. supervisor' # "BLOCKED" /\ outbox' = << >>
    BY <1>1, <1>4, <2>2
  <2> QED
    BY <2>3, <2>4
<1>7. TeachingInv'
  <2>1. HandleMessage(Head(queue))
    BY DEF TakeMessage
  <2>2. "SELECT" \notin Commands => activeState' # "TEACHING"
    BY <1>2, <2>1, MessageTeaches DEF BaseInv, QueueInv, TeachingInv
  <2>3. ASSUME pendingTeaching' # "NONE"
        PROVE  activeState' = "TEACHING" /\ queue' = << >>
    <3>1. IsCommand(queue[1]) /\ activeState' = "TEACHING"
      BY <1>1, <1>2, <2>1, <2>3, MessageTeaches DEF BaseInv
    <3>2. HmiTurns <= 1
      BY <2>2, <3>1 DEF Sizes
    <3>3. Len(queue) = 1
      <4>1. 1 \in 1 .. Len(queue)
        BY <1>3
      <4> QED
        BY <3>1, <3>2, <4>1 DEF QueueInv, CommandsComeLast
    <3>4. queue' \in Seq(Messages)
      BY <1>1, <1>3, HeadTailProperties DEF BaseInv, MessageInv
    <3> QED
      BY <1>3, <3>1, <3>3, <3>4, EmptySeq
  <2> QED
    BY <1>1, <1>4, <2>2, <2>3 DEF TeachingInv
<1> QED
  BY <1>5, <1>6, <1>7 DEF QueueInv

\* A step of the active state, after which no command waits for TEACHING.
LEMMA StepQueue ==
    ASSUME Sizes, BaseInv, QueueInv, Step
    PROVE  QueueInv'
<1>1. queue = << >> /\ supervisor = "RUNNING"
  BY BatchTakesAll DEF Step
<1>2. /\ UNCHANGED <<queue, outbox, hmiTurns, publisher>>
      /\ taken' = 0 /\ supervisor' = "BLOCKED"
  BY DEF Step, producerVars
<1>3. RoomInv'
  <2>1. Len(queue') = 0
    BY <1>1, <1>2
  <2>2. Len(outbox) \in Nat
    BY LenProperties DEF BaseInv, MessageInv
  <2> QED
    BY <1>2, <2>1, <2>2, SupervisorTaskAssumption, RoundSizeType
    DEF QueueInv, RoomInv, BaseInv, MessageInv
<1>4. CommandsComeLast'
  <2>1. Len(queue') = 0
    BY <1>1, <1>2
  <2> QED
    BY <2>1 DEF CommandsComeLast
<1>5. pendingTeaching' = "NONE"
  <2>1. CASE RunTeaching
    BY <2>1 DEF RunTeaching
  <2>2. CASE ~RunTeaching
    <3>1. activeState # "TEACHING" /\ UNCHANGED pendingTeaching
      BY <2>2
      DEF Step, RunActiveState, RunBoot, RunHoming, RunIdle, RunPathValidation,
          RunApproach, RunPathExecution, RunPaused, RunStopState
    <3> QED
      BY <3>1 DEF QueueInv, TeachingInv
  <2> QED
    BY <2>1, <2>2
<1>6. "SELECT" \notin Commands => activeState' # "TEACHING"
  <2>1. Policy!StateResult(activeState) \/ UNCHANGED activeState
    BY StateStep DEF Step, policyVars
  <2> QED
    BY <2>1, OnlyTeachTeaches DEF BaseInv, QueueInv, TeachingInv
<1> QED
  BY <1>3, <1>4, <1>5, <1>6 DEF QueueInv, TeachingInv

\* What the producers do to the queue while the supervisor is blocked.
LEMMA TickQueue ==
    ASSUME Sizes, BaseInv, QueueInv, Tick
    PROVE  QueueInv'
<1>1. /\ supervisor = "BLOCKED" /\ supervisor' = "RUNNING"
      /\ UNCHANGED <<queue, taken, outbox, activeState, pendingTeaching>>
  BY DEF Tick, policyVars, contextVars, controlVars
<1>2. pendingTeaching = "NONE"
  BY <1>1 DEF QueueInv, TeachingInv
<1>3. RoomInv'
  <2>1. Len(outbox) \in Nat /\ Len(queue) \in Nat /\ hmiTurns \in Nat
    BY LenProperties DEF BaseInv, MessageInv
  <2>2. publisher = "READY" => Len(outbox) = 0
    BY DEF BaseInv, MessageInv
  <2>3. Len(queue) + Len(outbox) + taken <= RoundSize + HmiTurns
    BY <1>1, <2>1, <2>2, SupervisorTaskAssumption, RoundSizeType
    DEF QueueInv, RoomInv, BaseInv, MessageInv
  <2> QED
    BY <1>1, <2>3 DEF QueueInv, RoomInv
<1>4. CommandsComeLast'
  BY <1>1 DEF QueueInv, CommandsComeLast, IsCommand
<1>5. TeachingInv'
  BY <1>1, <1>2 DEF QueueInv, TeachingInv
<1> QED
  BY <1>3, <1>4, <1>5 DEF QueueInv

\* A round begins, or a post of it is made.
LEMMA PublishQueue ==
    ASSUME BaseInv, QueueInv, PublishRound \/ PublishPost
    PROVE  QueueInv'
<1>1. /\ supervisor = "BLOCKED"
      /\ UNCHANGED <<taken, supervisor, hmiTurns, activeState, pendingTeaching>>
  BY DEF PublishRound, PublishPost, policyVars, contextVars, controlVars
<1>2. Len(queue) \in Nat /\ Len(outbox) \in Nat /\ hmiTurns \in Nat
  BY LenProperties, SupervisorTaskAssumption, RoundSizeType DEF BaseInv, MessageInv
<1>3. TeachingInv'
  BY <1>1 DEF QueueInv, TeachingInv
<1>4. CASE PublishRound
  <2>1. /\ publisher = "READY" /\ publisher' = "WAITING"
        /\ outbox' = Round(inputs, published) /\ UNCHANGED queue
    BY <1>4 DEF PublishRound
  <2>2. outbox' \in Seq(Published) /\ Len(outbox') <= RoundSize
    BY <2>1, RoundPosts, SupervisorTaskAssumption, RoundSizeType DEF BaseInv, MessageInv
  <2>3. Len(outbox') \in Nat
    BY <2>2, LenProperties
  <2>4. RoomInv'
    BY <1>1, <1>2, <2>1, <2>2, <2>3, SupervisorTaskAssumption, RoundSizeType
    DEF QueueInv, RoomInv
  <2>5. HmiTurns <= 1 => \A i \in 1 .. Len(queue) : ~IsCommand(queue[i])
    BY <1>1, <2>1 DEF QueueInv, CommandsComeLast, Rested
  <2>6. CommandsComeLast'
    BY <2>1, <2>5 DEF CommandsComeLast, IsCommand
  <2> QED
    BY <1>3, <2>4, <2>6 DEF QueueInv
<1>5. CASE PublishPost
  <2>1. /\ outbox # << >> /\ queue' = Append(queue, Head(outbox))
        /\ outbox' = Tail(outbox) /\ UNCHANGED publisher
    BY <1>5 DEF PublishPost
  <2>2. Len(outbox') = Len(outbox) - 1 /\ Head(outbox) \in Published
    BY <2>1, HeadTailProperties DEF BaseInv, MessageInv
  <2>3. Len(queue') = Len(queue) + 1
    BY <2>1, <2>2, AppendProperties DEF BaseInv, MessageInv, Messages
  <2>4. publisher = "WAITING"
    BY <2>1 DEF BaseInv, MessageInv
  <2>5. RoomInv'
    BY <1>1, <1>2, <2>1, <2>2, <2>3, <2>4, SupervisorTaskAssumption, RoundSizeType
    DEF QueueInv, RoomInv
  <2>6. CommandsComeLast'
    <3> SUFFICES ASSUME HmiTurns <= 1, NEW i \in 1 .. Len(queue')
                 PROVE  ~IsCommand(queue'[i])
      BY DEF CommandsComeLast, IsCommand
    <3>1. CASE i \in 1 .. Len(queue)
      <4>1. ~IsCommand(queue[i])
        BY <2>1, <3>1 DEF QueueInv, CommandsComeLast
      <4>2. queue'[i] = queue[i]
        BY <2>1, <2>2, <3>1, AppendProperties DEF BaseInv, MessageInv, Messages
      <4> QED
        BY <4>1, <4>2
    <3>2. CASE i = Len(queue) + 1
      <4>1. queue'[i] = Head(outbox)
        BY <2>1, <2>2, <3>2, AppendProperties DEF BaseInv, MessageInv, Messages
      <4> QED
        BY <2>2, <4>1 DEF IsCommand, Published
    <3> QED
      BY <1>2, <2>3, <3>1, <3>2
  <2> QED
    BY <1>3, <2>5, <2>6 DEF QueueInv
<1> QED
  BY <1>4, <1>5

\* HMI adds at most one message in each of its turns, after the round.
LEMMA HmiQueue ==
    ASSUME BaseInv, QueueInv, HmiTurn
    PROVE  QueueInv'
<1>1. /\ supervisor = "BLOCKED" /\ publisher = "WAITING" /\ outbox = << >>
      /\ hmiTurns > 0 /\ hmiTurns' = hmiTurns - 1
      /\ UNCHANGED <<taken, supervisor, publisher, outbox, activeState,
                     pendingTeaching>>
  BY DEF HmiTurn, HmiMayRun, Rested, policyVars, contextVars, controlVars
<1>2. Len(queue) \in Nat /\ hmiTurns \in 0 .. HmiTurns /\ Len(outbox) = 0
  BY <1>1, LenProperties DEF BaseInv, MessageInv
<1>3. TeachingInv'
  BY <1>1 DEF QueueInv, TeachingInv
<1>4. CASE UNCHANGED queue
  <2>1. RoomInv'
    BY <1>1, <1>2, <1>4, SupervisorTaskAssumption, RoundSizeType DEF QueueInv, RoomInv
  <2>2. CommandsComeLast'
    <3>1. \A i \in 1 .. Len(queue) : ~IsCommand(queue[i]) \/ ~(HmiTurns <= 1)
      BY <1>1 DEF QueueInv, CommandsComeLast
    <3> QED
      BY <1>4, <3>1 DEF CommandsComeLast, IsCommand
  <2> QED
    BY <1>3, <2>1, <2>2 DEF QueueInv
<1>5. ASSUME NEW command \in Commands, queue' = Append(queue, HmiMessage(command))
      PROVE  QueueInv'
  <2>1. HmiMessage(command) \in Messages
    BY DEF HmiMessage, Messages
  <2>2. Len(queue') = Len(queue) + 1
    BY <1>5, <2>1, AppendProperties DEF BaseInv, MessageInv
  <2>3. RoomInv'
    BY <1>1, <1>2, <2>2, SupervisorTaskAssumption, RoundSizeType DEF QueueInv, RoomInv
  <2>4. CommandsComeLast'
    <3> SUFFICES ASSUME HmiTurns <= 1, NEW i \in 1 .. Len(queue'),
                        IsCommand(queue'[i])
                 PROVE  /\ i = Len(queue')
                        /\ supervisor' = "BLOCKED" => Rested' /\ hmiTurns' = 0
                        /\ outbox' = << >>
      BY DEF CommandsComeLast, IsCommand
    <3>1. Rested' /\ outbox' = << >>
      BY <1>1 DEF Rested
    <3>2. hmiTurns' = 0
      BY <1>1, <1>2, SupervisorTaskAssumption, RoundSizeType
    <3>3. ASSUME i \in 1 .. Len(queue) PROVE FALSE
      <4>1. queue'[i] = queue[i]
        BY <1>5, <2>1, <3>3, AppendProperties DEF BaseInv, MessageInv
      <4> QED
        BY <1>1, <3>3, <4>1 DEF QueueInv, CommandsComeLast
    <3>4. i = Len(queue')
      BY <1>2, <2>2, <3>3
    <3> QED
      BY <3>1, <3>2, <3>4
  <2> QED
    BY <1>3, <2>3, <2>4 DEF QueueInv
<1> QED
  BY <1>4, <1>5 DEF HmiTurn

\* The queue keeps its invariant in every step.
LEMMA QueueNext ==
    ASSUME Sizes, BaseInv, QueueInv, [Next]_vars
    PROVE  QueueInv'
<1>1. CASE UNCHANGED vars
  BY <1>1
  DEF vars, taskVars, producerVars, policyVars, contextVars, controlVars, QueueInv,
      RoomInv, CommandsComeLast, TeachingInv, IsCommand, Rested
<1> QED
  BY <1>1, TakeQueue, StepQueue, TickQueue, PublishQueue, HmiQueue DEF Next

\* So it holds in every reachable state.
LEMMA QueueInvariant ==
    ASSUME Sizes
    PROVE  Spec => []QueueInv
<1>1. Init => QueueInv
  BY InitQueue
<1>2. BaseInv /\ QueueInv /\ [Next]_vars => QueueInv'
  BY QueueNext
<1> QED
  BY <1>1, <1>2, BaseInvariant, PTL DEF Spec

\* A post of the publisher never meets a full queue when queue and cycle hold a
\* round and the commands of one tick: a cycle then takes all there is, whatever
\* the operator does and however often a round is preempted.
THEOREM QueueAlwaysHasRoom ==
    ASSUME Sizes
    PROVE  Spec => []QueueHasRoom
<1>1. BaseInv /\ QueueInv => QueueHasRoom
  <2> SUFFICES ASSUME BaseInv, QueueInv, outbox # << >>
               PROVE  Len(queue) < QueueLength
    BY DEF QueueHasRoom
  <2>1. Len(queue) \in Nat /\ Len(outbox) \in Nat /\ hmiTurns \in Nat
    BY LenProperties, SupervisorTaskAssumption, RoundSizeType DEF BaseInv, MessageInv
  <2>2. Len(outbox) # 0
    BY EmptySeq DEF BaseInv, MessageInv
  <2>3. publisher = "WAITING"
    BY DEF BaseInv, MessageInv
  <2>4. taken \in Nat /\ supervisor \in {"BLOCKED", "RUNNING"}
    BY DEF BaseInv, MessageInv
  <2> QED
    BY <2>1, <2>2, <2>3, <2>4, SupervisorTaskAssumption, RoundSizeType DEF QueueInv, RoomInv, Sizes
<1> QED
  BY <1>1, QueueInvariant, BaseInvariant, PTL

-----------------------------------------------------------------------------
(* Requests of the operator.                                               *)

\* A request is made at the end of a batch, and of a state that will take it.
RequestInv ==
    /\ approachControl \in [stop : BOOLEAN, reset : BOOLEAN, home : BOOLEAN]
    /\ PendingRequest => supervisor = "RUNNING" /\ queue = << >>
    /\ requests # NoRequest => activeState = "PATH_EXECUTION"
    /\ approachControl.reset \/ approachControl.home => activeState = "APPROACH"

\* The empty control is a control.
LEMMA NoControlRequestsNothing ==
    /\ NoControl \in [stop : BOOLEAN, reset : BOOLEAN, home : BOOLEAN]
    /\ ~NoControl.reset /\ ~NoControl.home
BY DEF NoControl

\* Only a command makes a request.
LEMMA MessageRequests ==
    ASSUME RequestInv, ~PendingRequest, NEW message \in Messages,
           HandleMessage(message)
    PROVE  /\ approachControl' \in [stop : BOOLEAN, reset : BOOLEAN, home : BOOLEAN]
           /\ PendingRequest' => IsCommand(message)
           /\ requests' # NoRequest => activeState' = "PATH_EXECUTION"
           /\ approachControl'.reset \/ approachControl'.home =>
                  activeState' = "APPROACH"
<1> DEFINE Clean ==
               /\ approachControl' \in [stop : BOOLEAN, reset : BOOLEAN, home : BOOLEAN]
               /\ requests' = NoRequest
               /\ ~approachControl'.reset /\ ~approachControl'.home
           Goal ==
               /\ approachControl' \in [stop : BOOLEAN, reset : BOOLEAN, home : BOOLEAN]
               /\ PendingRequest' => IsCommand(message)
               /\ requests' # NoRequest => activeState' = "PATH_EXECUTION"
               /\ approachControl'.reset \/ approachControl'.home =>
                      activeState' = "APPROACH"
<1> SUFFICES Goal
  OBVIOUS
<1>1. ASSUME Clean PROVE Goal
  BY <1>1 DEF PendingRequest, NoRequest
<1>2. requests = NoRequest /\ ~approachControl.reset /\ ~approachControl.home
  BY DEF PendingRequest
<1>3. ASSUME requests' \in {requests, NoRequest},
             approachControl' \in {approachControl, NoControl}
      PROVE  Clean
  <2>1. CASE approachControl' = NoControl
    BY <1>2, <1>3, <2>1, NoControlRequestsNothing
  <2>2. CASE approachControl' = approachControl
    BY <1>2, <1>3, <2>2 DEF RequestInv
  <2> QED
    BY <1>3, <2>1, <2>2
<1> HIDE DEF Clean, Goal
<1>4. ASSUME EnterActiveState PROVE Clean
  BY <1>3, <1>4 DEF EnterActiveState, EnterExecution, EnterApproach
<1>5. ASSUME NoEvent PROVE Clean
  BY <1>3, <1>5 DEF NoEvent
<1>6. CASE HandleSafety(message.content) \/ HandleEvent(message.content)
  BY <1>1, <1>3, <1>4, <1>6 DEF HandleSafety, HandleEvent, Forward
<1>7. CASE HandleApproachControl(message.content)
       /\ message.type = "APPROACH_CONTROL"
  <2>1. message.content \in BOOLEAN
    BY <1>7 DEF Messages, Published
  <2>2. Clean
    BY <1>2, <1>7, <2>1 DEF Clean, HandleApproachControl, NoControl
  <2> QED
    BY <1>1, <2>2
<1>8. CASE HandleExecutionInputs
  BY <1>1, <1>3, <1>8 DEF HandleExecutionInputs
<1>9. CASE HandleHmiCommand(message.content) /\ message.type = "HMI_COMMAND"
  <2>1. CASE TeachingCommand(message.content) \/ IgnoredCommand(message.content)
    BY <1>1, <1>4, <1>5, <2>1 DEF TeachingCommand, IgnoredCommand, Forward
  <2>2. ASSUME NEW reset \in BOOLEAN, HandleRequest(reset)
        PROVE  Goal
    <3>1. CASE activeState \notin {"PATH_EXECUTION", "APPROACH"}
      BY <1>1, <1>4, <2>2, <3>1 DEF HandleRequest, Forward
    <3>2. CASE activeState = "PATH_EXECUTION"
      BY <1>2, <1>9, <2>2, <3>2
      DEF Goal, HandleRequest, RequestInv, IsCommand, policyVars
    <3>3. CASE activeState = "APPROACH"
      BY <1>2, <1>9, <2>2, <3>3
      DEF Goal, HandleRequest, RequestInv, IsCommand, policyVars
    <3> QED
      BY <3>1, <3>2, <3>3
  <2>3. CASE MotionCommand(message.content)
    BY <1>1, <1>4, <2>2, <2>3 DEF MotionCommand, Forward
  <2> QED
    BY <1>9, <2>1, <2>3 DEF HandleHmiCommand
<1> QED
  BY <1>6, <1>7, <1>8, <1>9 DEF HandleMessage

\* A step leaves no request behind.
LEMMA StepRequests ==
    ASSUME RequestInv, RunActiveState
    PROVE  /\ approachControl' \in [stop : BOOLEAN, reset : BOOLEAN, home : BOOLEAN]
           /\ ~PendingRequest'
<1> DEFINE Goal ==
               /\ approachControl' \in [stop : BOOLEAN, reset : BOOLEAN, home : BOOLEAN]
               /\ ~PendingRequest'
<1> SUFFICES Goal
  OBVIOUS
<1>1. ASSUME requests' \in {requests, NoRequest},
             approachControl' \in {approachControl, NoControl},
             activeState \notin {"PATH_EXECUTION", "APPROACH"}
      PROVE  Goal
  <2>1. requests' = NoRequest
    BY <1>1 DEF RequestInv
  <2>2. CASE approachControl' = NoControl
    BY <2>1, <2>2, NoControlRequestsNothing DEF PendingRequest
  <2>3. CASE approachControl' = approachControl
    BY <1>1, <2>1, <2>3 DEF RequestInv, PendingRequest
  <2> QED
    BY <1>1, <2>2, <2>3
<1>2. ASSUME EnterExecution PROVE requests' \in {requests, NoRequest}
  BY <1>2 DEF EnterExecution
<1>3. ASSUME EnterApproach PROVE approachControl' \in {approachControl, NoControl}
  BY <1>3 DEF EnterApproach
<1> HIDE DEF Goal
<1>4. CASE RunBoot \/ RunHoming \/ RunIdle \/ RunTeaching
  BY <1>1, <1>2, <1>3, <1>4
  DEF RunBoot, RunHoming, RunIdle, RunTeaching, NoEvent, Forward, EnterActiveState
<1>5. CASE RunPathValidation
  BY <1>1, <1>2, <1>3, <1>5 DEF RunPathValidation, NoEvent
<1>6. CASE RunApproach
  <2>1. requests' = NoRequest
    BY <1>2, <1>6 DEF RunApproach, RequestInv
  <2> QED
    BY <1>6, <2>1 DEF Goal, RunApproach, RequestInv, PendingRequest
<1>7. CASE RunPathExecution
  BY <1>7 DEF Goal, RunPathExecution, ClearRequests, RequestInv, PendingRequest
<1>8. CASE RunPaused \/ RunStopState
  BY <1>1, <1>8 DEF RunPaused, RunStopState
<1> QED
  BY <1>4, <1>5, <1>6, <1>7, <1>8 DEF RunActiveState

\* Requests keep their invariant in every step.
LEMMA RequestNext ==
    ASSUME Sizes, HmiTurns <= 1, BaseInv, QueueInv, RequestInv, [Next]_vars
    PROVE  RequestInv'
<1>1. CASE TakeMessage
  <2>1. queue # << >> /\ queue' = Tail(queue) /\ HandleMessage(Head(queue))
    BY <1>1 DEF TakeMessage, BatchEnds
  <2>2. Head(queue) \in Messages /\ Head(queue) = queue[1]
    BY <2>1, HeadTailProperties DEF BaseInv, MessageInv
  <2>3. ~PendingRequest
    BY <2>1 DEF RequestInv
  <2>4. /\ approachControl' \in [stop : BOOLEAN, reset : BOOLEAN, home : BOOLEAN]
        /\ PendingRequest' => IsCommand(queue[1])
        /\ requests' # NoRequest => activeState' = "PATH_EXECUTION"
        /\ approachControl'.reset \/ approachControl'.home =>
               activeState' = "APPROACH"
    BY <2>1, <2>2, <2>3, MessageRequests
  <2>5. ASSUME PendingRequest' PROVE queue' = << >>
    <3>1. Len(queue) \in Nat \ {0}
      BY <2>1, LenProperties, EmptySeq DEF BaseInv, MessageInv
    <3>2. Len(queue) = 1
      <4>1. 1 \in 1 .. Len(queue)
        BY <3>1
      <4> QED
        BY <2>4, <2>5, <4>1 DEF QueueInv, CommandsComeLast
    <3>3. queue' \in Seq(Messages) /\ Len(queue') = Len(queue) - 1
      BY <2>1, HeadTailProperties DEF BaseInv, MessageInv
    <3> QED
      BY <3>2, <3>3, EmptySeq
  <2>6. supervisor' = "RUNNING"
    BY <1>1 DEF TakeMessage
  <2> QED
    BY <2>4, <2>5, <2>6 DEF RequestInv
<1>2. CASE Step
  <2>1. /\ approachControl' \in [stop : BOOLEAN, reset : BOOLEAN, home : BOOLEAN]
        /\ ~PendingRequest'
    BY <1>2, StepRequests DEF Step
  <2> QED
    BY <2>1 DEF RequestInv, PendingRequest
<1>3. CASE Tick \/ PublishRound \/ PublishPost \/ HmiTurn
  <2>1. supervisor = "BLOCKED" /\ UNCHANGED <<requests, approachControl, activeState>>
    BY <1>3
    DEF Tick, PublishRound, PublishPost, HmiTurn, HmiMayRun, policyVars,
        contextVars, controlVars
  <2>2. ~PendingRequest
    BY <2>1 DEF RequestInv
  <2> QED
    BY <2>1, <2>2 DEF RequestInv, PendingRequest
<1>4. CASE UNCHANGED vars
  BY <1>4
  DEF vars, taskVars, policyVars, contextVars, controlVars, RequestInv,
      PendingRequest
<1> QED
  BY <1>1, <1>2, <1>3, <1>4 DEF Next

\* So it holds in every reachable state.
LEMMA RequestInvariant ==
    ASSUME Sizes, HmiTurns <= 1
    PROVE  Spec => []RequestInv
<1>1. Init => RequestInv
  BY DEF Init, RequestInv, PendingRequest, NoControl
<1>2. BaseInv /\ QueueInv /\ RequestInv /\ [Next]_vars => RequestInv'
  BY RequestNext
<1> QED
  BY <1>1, <1>2, BaseInvariant, QueueInvariant, PTL DEF Spec

\* As long as HMI has one turn a tick, a RESET or HOME request is taken by the
\* step at the end of its own batch: it is neither overwritten by the periodic
\* control message before that step nor left over for a later one.
THEOREM RequestsReachTheStep ==
    ASSUME Sizes, HmiTurns <= 1
    PROVE  Spec => []RequestIsCurrent /\ RequestReachesTheStep
<1>1. RequestInv => RequestIsCurrent
  BY DEF RequestInv, RequestIsCurrent
<1>2. RequestInv /\ [Next]_vars =>
          [PendingRequest /\ ~PendingRequest' =>
               supervisor' = "BLOCKED" \/ activeState' # activeState]_vars
  <2> SUFFICES ASSUME RequestInv, Next, PendingRequest
               PROVE  supervisor' = "BLOCKED"
    OBVIOUS
  <2>1. supervisor = "RUNNING" /\ queue = << >>
    BY DEF RequestInv
  <2> QED
    BY <2>1
    DEF Next, TakeMessage, BatchEnds, Step, Tick, PublishRound, PublishPost,
        HmiTurn, HmiMayRun
<1> QED
  BY <1>1, <1>2, RequestInvariant, PTL DEF Spec, RequestReachesTheStep

-----------------------------------------------------------------------------
(* Snapshots and events of a stop input, in the order they will be taken.  *)

\* A snapshot that shows the input active.
Shows(input, snapshot) ==
    \/ input = "ESTOP" /\ snapshot.estopActive
    \/ input = "PROTECTIVE_STOP" /\ snapshot.protectiveStopActive
    \/ input = "FAULT" /\ snapshot.globalFaultActive

\* A snapshot that raises the input, an event that asserts it, and what clears it.
Raises(input, message) ==
    message.type = "SAFETY" /\ Shows(input, message.content)

Asserts(input, message) ==
    /\ message.type = "EVENT"
    /\ \/ input = "ESTOP" /\ message.content = "ESTOP_ASSERTED"
       \/ input = "PROTECTIVE_STOP" /\ message.content = "PROTECTIVE_STOP_ASSERTED"
       \/ input = "FAULT" /\ message.content = "FAULT_DETECTED"

Clears(input, message) ==
    \/ message.type = "SAFETY" /\ ~Shows(input, message.content)
    \/ /\ message.type = "EVENT"
       /\ \/ input = "ESTOP" /\ message.content = "ESTOP_RELEASED"
          \/ input = "PROTECTIVE_STOP" /\ message.content = "PROTECTIVE_STOP_CLEARED"

\* The event of the input comes at this position or later.
Announced(input, s, first) ==
    \E j \in first .. Len(s) : Asserts(input, s[j])

\* Before this position the input is active, and the event of it has been or
\* will have been taken.
Backed(input, s, snapshot, i) ==
    \/ Shows(input, snapshot) /\ \A k \in 1 .. i - 1 : ~Clears(input, s[k])
    \/ \E j \in 1 .. i - 1 :
           Asserts(input, s[j]) /\ \A k \in j + 1 .. i - 1 : ~Clears(input, s[k])

\* No snapshot raises an input whose event is neither before nor behind it; an
\* input that has been published stays active to the end; and the snapshot in
\* force is unsafe only in a stopped state or before the event.
StreamInv(input, s, snapshot, state, known) ==
    /\ \A i \in 1 .. Len(s) :
           Raises(input, s[i]) =>
               Announced(input, s, i + 1) \/ Backed(input, s, snapshot, i)
    /\ input \in known => Backed(input, s, snapshot, Len(s) + 1)
    /\ Shows(input, snapshot) /\ state \notin Policy!StoppedStates =>
           Announced(input, s, 1)

\* What taking the first message does to the position of the others.
LEMMA BackedTail ==
    ASSUME NEW input, NEW s \in Seq(Messages), s # << >>,
           NEW before, NEW after, NEW i \in 1 .. Len(s),
           Asserts(input, s[1]) => Shows(input, after),
           Shows(input, before) /\ ~Clears(input, s[1]) => Shows(input, after),
           Backed(input, s, before, i + 1)
    PROVE  Backed(input, Tail(s), after, i)
<1>1. /\ Len(s) \in Nat /\ Len(Tail(s)) = Len(s) - 1
      /\ \A k \in 1 .. Len(s) - 1 : Tail(s)[k] = s[k + 1]
  BY HeadTailProperties, LenProperties
<1>2. ASSUME NEW k \in 1 .. i - 1 PROVE Tail(s)[k] = s[k + 1]
  BY <1>1
<1>3. CASE Shows(input, before) /\ \A k \in 1 .. i : ~Clears(input, s[k])
  <2>1. 1 \in 1 .. i
    OBVIOUS
  <2>2. Shows(input, after)
    BY <1>3, <2>1
  <2>3. \A k \in 1 .. i - 1 : ~Clears(input, Tail(s)[k])
    <3> SUFFICES ASSUME NEW k \in 1 .. i - 1 PROVE ~Clears(input, Tail(s)[k])
      OBVIOUS
    <3>1. k + 1 \in 1 .. i
      OBVIOUS
    <3> QED
      BY <1>2, <1>3, <3>1
  <2> QED
    BY <2>2, <2>3 DEF Backed
<1>4. ASSUME NEW j \in 1 .. i, Asserts(input, s[j]),
             \A k \in j + 1 .. i : ~Clears(input, s[k])
      PROVE  Backed(input, Tail(s), after, i)
  <2>1. CASE j = 1
    <3>1. \A k \in 1 .. i - 1 : ~Clears(input, Tail(s)[k])
      <4> SUFFICES ASSUME NEW k \in 1 .. i - 1 PROVE ~Clears(input, Tail(s)[k])
        OBVIOUS
      <4>1. k + 1 \in j + 1 .. i
        BY <2>1
      <4> QED
        BY <1>2, <1>4, <4>1
    <3> QED
      BY <1>4, <2>1, <3>1 DEF Backed
  <2>2. CASE j # 1
    <3>1. j - 1 \in 1 .. i - 1 /\ (j - 1) + 1 = j
      BY <2>2
    <3>2. Asserts(input, Tail(s)[j - 1])
      BY <1>2, <1>4, <3>1
    <3>3. \A k \in (j - 1) + 1 .. i - 1 : ~Clears(input, Tail(s)[k])
      <4> SUFFICES ASSUME NEW k \in j .. i - 1 PROVE ~Clears(input, Tail(s)[k])
        BY <3>1
      <4>1. k \in 1 .. i - 1 /\ k + 1 \in j + 1 .. i
        OBVIOUS
      <4> QED
        BY <1>2, <1>4, <4>1
    <3> QED
      BY <3>1, <3>2, <3>3 DEF Backed
  <2> QED
    BY <2>1, <2>2
<1> QED
  BY <1>3, <1>4 DEF Backed

\* The same for an event that is still to come.
LEMMA AnnouncedTail ==
    ASSUME NEW input, NEW s \in Seq(Messages), s # << >>,
           NEW i \in 1 .. Len(s), Announced(input, s, i + 1)
    PROVE  Announced(input, Tail(s), i)
<1>1. PICK j \in i + 1 .. Len(s) : Asserts(input, s[j])
  BY DEF Announced
<1>2. /\ Len(s) \in Nat /\ Len(Tail(s)) = Len(s) - 1
      /\ \A k \in 1 .. Len(s) - 1 : Tail(s)[k] = s[k + 1]
  BY HeadTailProperties, LenProperties
<1>3. j - 1 \in i .. Len(Tail(s)) /\ j - 1 \in 1 .. Len(s) - 1 /\ (j - 1) + 1 = j
  BY <1>2
<1>4. Asserts(input, Tail(s)[j - 1])
  BY <1>1, <1>2, <1>3
<1> QED
  BY <1>3, <1>4 DEF Announced

\* Taking a message of the stream, with the effect its handler has.
LEMMA TailStream ==
    ASSUME NEW input, NEW s \in Seq(Messages), s # << >>, NEW known,
           NEW before, NEW after, NEW old, NEW new,
           StreamInv(input, s, before, old, known),
           Clears(input, s[1]) => ~Shows(input, after),
           Asserts(input, s[1]) =>
               Shows(input, after) /\ new \in Policy!StoppedStates,
           Raises(input, s[1]) => Shows(input, after) /\ new = old,
           ~Clears(input, s[1]) /\ ~Asserts(input, s[1]) /\ ~Raises(input, s[1]) =>
               /\ Shows(input, after) <=> Shows(input, before)
               /\ Shows(input, after) /\ new \notin Policy!StoppedStates =>
                      old \notin Policy!StoppedStates
    PROVE  StreamInv(input, Tail(s), after, new, known)
<1>1. /\ Len(s) \in Nat \ {0} /\ Len(Tail(s)) = Len(s) - 1
      /\ \A k \in 1 .. Len(s) - 1 : Tail(s)[k] = s[k + 1]
  BY HeadTailProperties, LenProperties, EmptySeq
<1>2. ASSUME NEW i \in 1 .. Len(s), Backed(input, s, before, i + 1)
      PROVE  Backed(input, Tail(s), after, i)
  <2>1. Shows(input, before) /\ ~Clears(input, s[1]) => Shows(input, after)
    OBVIOUS
  <2> QED
    BY <1>2, <2>1, BackedTail
<1>3. ASSUME NEW i \in 1 .. Len(Tail(s)), Raises(input, Tail(s)[i])
      PROVE  Announced(input, Tail(s), i + 1) \/ Backed(input, Tail(s), after, i)
  <2>1. i + 1 \in 1 .. Len(s) /\ i \in 1 .. Len(s) /\ Tail(s)[i] = s[i + 1]
    BY <1>1
  <2>2. Announced(input, s, (i + 1) + 1) \/ Backed(input, s, before, i + 1)
    BY <1>3, <2>1 DEF StreamInv
  <2> QED
    BY <1>2, <2>1, <2>2, AnnouncedTail
<1>4. input \in known => Backed(input, Tail(s), after, Len(Tail(s)) + 1)
  <2>1. Len(s) \in 1 .. Len(s) /\ Len(Tail(s)) + 1 = Len(s)
    BY <1>1
  <2> QED
    BY <1>2, <2>1 DEF StreamInv
<1>5. ASSUME Shows(input, after), new \notin Policy!StoppedStates
      PROVE  Announced(input, Tail(s), 1)
  <2>1. ~Clears(input, s[1]) /\ ~Asserts(input, s[1])
    BY <1>5
  <2>2. 1 \in 1 .. Len(s)
    BY <1>1
  <2>3. Announced(input, s, 1) \/ Announced(input, s, 1 + 1)
    <3>1. CASE Raises(input, s[1])
      <4>1. Announced(input, s, 1 + 1) \/ Backed(input, s, before, 1)
        BY <2>2, <3>1 DEF StreamInv
      <4>2. Backed(input, s, before, 1) => Shows(input, before)
        BY DEF Backed
      <4> QED
        BY <1>5, <3>1, <4>1, <4>2 DEF StreamInv
    <3>2. CASE ~Raises(input, s[1])
      BY <1>5, <2>1, <3>2 DEF StreamInv
    <3> QED
      BY <3>1, <3>2
  <2>4. Announced(input, s, 1 + 1)
    BY <1>1, <2>1, <2>3 DEF Announced
  <2> QED
    BY <2>2, <2>4, AnnouncedTail
<1> QED
  BY <1>3, <1>4, <1>5 DEF StreamInv

\* A position keeps what is before it when the stream grows.
LEMMA BackedGrows ==
    ASSUME NEW input, NEW s \in Seq(Messages), NEW r \in Seq(Messages),
           NEW snapshot, NEW i \in 1 .. Len(s) + 1,
           Backed(input, s, snapshot, i)
    PROVE  Backed(input, s \o r, snapshot, i)
<1>1. ASSUME NEW k \in 1 .. i - 1 PROVE (s \o r)[k] = s[k]
  <2>1. Len(s) \in Nat /\ Len(r) \in Nat
    BY LenProperties
  <2>2. k \in 1 .. Len(s) + Len(r) /\ k <= Len(s)
    BY <2>1
  <2> QED
    BY <2>2, ConcatProperties
<1>2. CASE Shows(input, snapshot) /\ \A k \in 1 .. i - 1 : ~Clears(input, s[k])
  BY <1>1, <1>2 DEF Backed
<1>3. ASSUME NEW j \in 1 .. i - 1, Asserts(input, s[j]),
             \A k \in j + 1 .. i - 1 : ~Clears(input, s[k])
      PROVE  Backed(input, s \o r, snapshot, i)
  <2>1. Asserts(input, (s \o r)[j])
    BY <1>1, <1>3
  <2>2. \A k \in j + 1 .. i - 1 : ~Clears(input, (s \o r)[k])
    <3> SUFFICES ASSUME NEW k \in j + 1 .. i - 1
                 PROVE  ~Clears(input, (s \o r)[k])
      OBVIOUS
    <3>1. k \in 1 .. i - 1
      OBVIOUS
    <3> QED
      BY <1>1, <1>3, <3>1
  <2> QED
    BY <2>1, <2>2 DEF Backed
<1> QED
  BY <1>2, <1>3 DEF Backed

\* And to its end, when nothing that is added clears the input.
LEMMA BackedToTheEnd ==
    ASSUME NEW input, NEW s \in Seq(Messages), NEW snapshot,
           NEW i \in 1 .. Len(s) + 1, Backed(input, s, snapshot, i),
           \A k \in i .. Len(s) : ~Clears(input, s[k])
    PROVE  Backed(input, s, snapshot, Len(s) + 1)
<1>1. Len(s) \in Nat /\ (Len(s) + 1) - 1 = Len(s)
  BY LenProperties
<1>2. CASE Shows(input, snapshot) /\ \A k \in 1 .. i - 1 : ~Clears(input, s[k])
  <2>1. \A k \in 1 .. Len(s) : ~Clears(input, s[k])
    <3> SUFFICES ASSUME NEW k \in 1 .. Len(s) PROVE ~Clears(input, s[k])
      OBVIOUS
    <3>1. k \in 1 .. i - 1 \/ k \in i .. Len(s)
      BY <1>1
    <3> QED
      BY <1>2, <3>1
  <2> QED
    BY <1>1, <1>2, <2>1 DEF Backed
<1>3. ASSUME NEW j \in 1 .. i - 1, Asserts(input, s[j]),
             \A k \in j + 1 .. i - 1 : ~Clears(input, s[k])
      PROVE  Backed(input, s, snapshot, Len(s) + 1)
  <2>1. \A k \in j + 1 .. Len(s) : ~Clears(input, s[k])
    <3> SUFFICES ASSUME NEW k \in j + 1 .. Len(s) PROVE ~Clears(input, s[k])
      OBVIOUS
    <3>1. k \in j + 1 .. i - 1 \/ k \in i .. Len(s)
      BY <1>1
    <3> QED
      BY <1>3, <3>1
  <2>2. j \in 1 .. Len(s)
    BY <1>1
  <2> QED
    BY <1>1, <1>3, <2>1, <2>2 DEF Backed
<1> QED
  BY <1>2, <1>3 DEF Backed

\* An event that is to come is still to come in a longer stream.
LEMMA AnnouncedGrows ==
    ASSUME NEW input, NEW s \in Seq(Messages), NEW r \in Seq(Messages),
           NEW first \in Nat \ {0}, Announced(input, s, first)
    PROVE  Announced(input, s \o r, first)
<1>1. PICK j \in first .. Len(s) : Asserts(input, s[j])
  BY DEF Announced
<1>2. /\ Len(s) \in Nat /\ Len(r) \in Nat /\ Len(s \o r) = Len(s) + Len(r)
      /\ \A i \in 1 .. Len(s) + Len(r) :
             (s \o r)[i] = IF i <= Len(s) THEN s[i] ELSE r[i - Len(s)]
  BY LenProperties, ConcatProperties
<1>3. j \in first .. Len(s \o r) /\ j \in 1 .. Len(s) + Len(r) /\ j <= Len(s)
  BY <1>2
<1>4. Asserts(input, (s \o r)[j])
  BY <1>1, <1>2, <1>3
<1> QED
  BY <1>3, <1>4 DEF Announced

\* Messages are added whose snapshot, the first of them, raises a published input
\* only, none of which clears it, and which assert it when it is new.
LEMMA GrowStream ==
    ASSUME NEW input, NEW s \in Seq(Messages), NEW r \in Seq(Messages),
           NEW snapshot, NEW state, NEW before, NEW active,
           StreamInv(input, s, snapshot, state, before), r # << >>,
           \A i \in 2 .. Len(r) : ~Raises(input, r[i]),
           Raises(input, r[1]) => input \in active,
           input \in active => \A i \in 1 .. Len(r) : ~Clears(input, r[i]),
           input \in active \ before => \E i \in 2 .. Len(r) : Asserts(input, r[i])
    PROVE  StreamInv(input, s \o r, snapshot, state, active)
<1> DEFINE n == Len(s)
           t == s \o r
<1>1. /\ n \in Nat /\ Len(r) \in Nat \ {0} /\ Len(t) = n + Len(r)
      /\ t \in Seq(Messages)
      /\ \A i \in 1 .. n : t[i] = s[i]
      /\ \A i \in 1 .. Len(r) : t[n + i] = r[i]
  <2>1. /\ n \in Nat /\ Len(r) \in Nat \ {0} /\ Len(t) = n + Len(r)
        /\ t \in Seq(Messages)
        /\ \A i \in 1 .. n + Len(r) : t[i] = IF i <= n THEN s[i] ELSE r[i - n]
    BY LenProperties, EmptySeq, ConcatProperties
  <2>2. \A i \in 1 .. n : t[i] = s[i]
    BY <2>1
  <2>3. ASSUME NEW i \in 1 .. Len(r) PROVE t[n + i] = r[i]
    <3>1. n + i \in 1 .. n + Len(r) /\ ~(n + i <= n) /\ (n + i) - n = i
      BY <2>1
    <3> QED
      BY <2>1, <3>1
  <2> QED
    BY <2>1, <2>2, <2>3
<1> HIDE DEF n
<1>2. ASSUME NEW first \in Nat \ {0}, Announced(input, s, first)
      PROVE  Announced(input, t, first)
  BY <1>2, AnnouncedGrows
<1>3. ASSUME NEW i \in 1 .. n + 1, Backed(input, s, snapshot, i)
      PROVE  Backed(input, t, snapshot, i)
  BY <1>3, BackedGrows DEF n
<1>4. input \in active \ before =>
          \E i \in 2 .. Len(r) : Asserts(input, t[n + i])
  <2> SUFFICES ASSUME input \in active \ before
               PROVE  \E i \in 2 .. Len(r) : Asserts(input, t[n + i])
    OBVIOUS
  <2>1. PICK i \in 2 .. Len(r) : Asserts(input, r[i])
    OBVIOUS
  <2>2. i \in 1 .. Len(r)
    BY <1>1
  <2>3. Asserts(input, t[n + i])
    BY <1>1, <2>1, <2>2
  <2> QED
    BY <2>3
<1> HIDE DEF t
<1>5. ASSUME NEW i \in 1 .. Len(t), Raises(input, t[i])
      PROVE  Announced(input, t, i + 1) \/ Backed(input, t, snapshot, i)
  <2>1. CASE i \in 1 .. n
    <3>1. Announced(input, s, i + 1) \/ Backed(input, s, snapshot, i)
      BY <1>1, <1>5, <2>1 DEF StreamInv, n
    <3> QED
      BY <1>1, <1>2, <1>3, <2>1, <3>1
  <2>2. CASE i = n + 1
    <3>1. input \in active
      BY <1>1, <1>5, <2>2
    <3>2. CASE input \in before
      <4>1. Backed(input, s, snapshot, n + 1)
        BY <3>2 DEF StreamInv, n
      <4> QED
        BY <1>1, <1>3, <2>2, <4>1
    <3>3. CASE input \notin before
      <4>1. PICK k \in 2 .. Len(r) : Asserts(input, t[n + k])
        BY <1>4, <3>1, <3>3
      <4>2. n + k \in i + 1 .. Len(t)
        BY <1>1, <2>2
      <4> QED
        BY <4>1, <4>2 DEF Announced
    <3> QED
      BY <3>2, <3>3
  <2>3. CASE i \in n + 2 .. Len(t)
    <3>1. i - n \in 2 .. Len(r) /\ i - n \in 1 .. Len(r) /\ n + (i - n) = i
      BY <1>1, <2>3
    <3> QED
      BY <1>1, <1>5, <3>1
  <2> QED
    BY <1>1, <2>1, <2>2, <2>3
<1>6. ASSUME input \in active
      PROVE  Backed(input, t, snapshot, Len(t) + 1)
  <2>1. \A k \in n + 1 .. Len(t) : ~Clears(input, t[k])
    <3> SUFFICES ASSUME NEW k \in n + 1 .. Len(t) PROVE ~Clears(input, t[k])
      OBVIOUS
    <3>1. k - n \in 1 .. Len(r) /\ n + (k - n) = k
      BY <1>1
    <3> QED
      BY <1>1, <1>6, <3>1
  <2>2. CASE input \in before
    <3>1. n + 1 \in 1 .. Len(t) + 1 /\ Backed(input, t, snapshot, n + 1)
      BY <1>1, <1>3, <2>2 DEF StreamInv, n
    <3> QED
      BY <1>1, <2>1, <3>1, BackedToTheEnd
  <2>3. CASE input \notin before
    <3>1. PICK k \in 2 .. Len(r) : Asserts(input, t[n + k])
      BY <1>4, <1>6, <2>3
    <3>2. n + k \in 1 .. (Len(t) + 1) - 1
      BY <1>1
    <3>3. \A m \in (n + k) + 1 .. (Len(t) + 1) - 1 : ~Clears(input, t[m])
      BY <1>1, <2>1
    <3> QED
      BY <3>1, <3>2, <3>3 DEF Backed
  <2> QED
    BY <2>2, <2>3
<1>7. Shows(input, snapshot) /\ state \notin Policy!StoppedStates =>
          Announced(input, t, 1)
  BY <1>2 DEF StreamInv
<1>8. StreamInv(input, t, snapshot, state, active)
  BY <1>5, <1>6, <1>7 DEF StreamInv
<1> QED
  BY <1>8 DEF t

-----------------------------------------------------------------------------
(* What the tasks do to the stream.                                        *)

\* A round begins with the snapshot of the inputs; it asserts what is new and
\* clears nothing that is active.
LEMMA RoundOfInput ==
    ASSUME NEW input \in StopInputs, drivesReady \in BOOLEAN,
           NEW active \in SUBSET StopInputs, NEW before \in SUBSET StopInputs
    PROVE  LET r == Round(active, before) IN
           /\ Len(r) >= 1
           /\ \A i \in 2 .. Len(r) : ~Raises(input, r[i])
           /\ Raises(input, r[1]) => input \in active
           /\ input \in active => \A i \in 1 .. Len(r) : ~Clears(input, r[i])
           /\ input \in active \ before => \E i \in 2 .. Len(r) : Asserts(input, r[i])
<1> DEFINE e1 == Edge("ESTOP", <<EventMessage("ESTOP_ASSERTED")>>,
                      <<EventMessage("ESTOP_RELEASED")>>, active, before)
           e2 == Edge("PROTECTIVE_STOP", <<EventMessage("PROTECTIVE_STOP_ASSERTED")>>,
                      <<EventMessage("PROTECTIVE_STOP_CLEARED")>>, active, before)
           e3 == Edge("FAULT", <<EventMessage("FAULT_DETECTED")>>, << >>,
                      active, before)
           controls == <<ApproachMessage(active), ExecutionMessage>>
           Quiet(m) == /\ ~Raises(input, m)
                       /\ input \in active => ~Clears(input, m)
           Posts(s) == /\ s \in Seq(Messages)
                       /\ \A i \in 1 .. Len(s) : Quiet(s[i])
           Tells(s) == \E i \in 1 .. Len(s) : Asserts(input, s[i])
           Begins(s) == /\ s \in Seq(Messages)
                        /\ Len(s) >= 1
                        /\ s[1] = SafetyMessage(active)
                        /\ \A i \in 2 .. Len(s) : Quiet(s[i])
           Asserted(s) == \E i \in 2 .. Len(s) : Asserts(input, s[i])
<1> HIDE DEF Quiet
<1>1. ASSUME NEW m \in Messages, Quiet(m)
      PROVE  Posts(<<m>>) /\ (Asserts(input, m) => Tells(<<m>>))
  <2>1. <<m>> \in Seq(Messages) /\ Len(<<m>>) = 1 /\ <<m>>[1] = m
    OBVIOUS
  <2>2. \A i \in 1 .. Len(<<m>>) : <<m>>[i] = m
    BY <2>1
  <2>3. 1 \in 1 .. Len(<<m>>)
    BY <2>1
  <2> HIDE DEF Quiet
  <2> QED
    BY <1>1, <2>1, <2>2, <2>3
<1>2. Posts(<< >>)
  OBVIOUS
<1>3. /\ Posts(e1)
      /\ input = "ESTOP" /\ input \in active \ before => Tells(e1)
  <2> DEFINE up == EventMessage("ESTOP_ASSERTED")
             down == EventMessage("ESTOP_RELEASED")
  <2>1. up \in Messages /\ Quiet(up) /\ (input = "ESTOP" => Asserts(input, up))
    BY DEF EventMessage, Messages, Published, StopEvents, StopInputs, Quiet, Raises,
           Clears, Asserts
  <2>2. /\ down \in Messages
        /\ "ESTOP" \notin active => Quiet(down)
    BY DEF EventMessage, Messages, Published, StopEvents, StopInputs, Quiet, Raises,
           Clears
  <2> HIDE DEF up, down, Posts, Tells
  <2>3. CASE "ESTOP" \in active \ before
    <3>1. e1 = <<up>>
      BY <2>3 DEF Edge, up
    <3> QED
      BY <1>1, <2>1, <3>1
  <2>4. CASE "ESTOP" \in before \ active
    <3>1. e1 = <<down>>
      BY <2>4 DEF Edge, down
    <3> QED
      BY <1>1, <2>2, <2>4, <3>1
  <2>5. CASE "ESTOP" \notin active \ before /\ "ESTOP" \notin before \ active
    <3>1. e1 = << >>
      BY <2>5 DEF Edge
    <3> QED
      BY <1>2, <2>5, <3>1
  <2> QED
    BY <2>3, <2>4, <2>5
<1>4. /\ Posts(e2)
      /\ input = "PROTECTIVE_STOP" /\ input \in active \ before => Tells(e2)
  <2> DEFINE up == EventMessage("PROTECTIVE_STOP_ASSERTED")
             down == EventMessage("PROTECTIVE_STOP_CLEARED")
  <2>1. /\ up \in Messages /\ Quiet(up)
        /\ input = "PROTECTIVE_STOP" => Asserts(input, up)
    BY DEF EventMessage, Messages, Published, StopEvents, StopInputs, Quiet, Raises,
           Clears, Asserts
  <2>2. /\ down \in Messages
        /\ "PROTECTIVE_STOP" \notin active => Quiet(down)
    BY DEF EventMessage, Messages, Published, StopEvents, StopInputs, Quiet, Raises,
           Clears
  <2> HIDE DEF up, down, Posts, Tells
  <2>3. CASE "PROTECTIVE_STOP" \in active \ before
    <3>1. e2 = <<up>>
      BY <2>3 DEF Edge, up
    <3> QED
      BY <1>1, <2>1, <3>1
  <2>4. CASE "PROTECTIVE_STOP" \in before \ active
    <3>1. e2 = <<down>>
      BY <2>4 DEF Edge, down
    <3> QED
      BY <1>1, <2>2, <2>4, <3>1
  <2>5. CASE /\ "PROTECTIVE_STOP" \notin active \ before
             /\ "PROTECTIVE_STOP" \notin before \ active
    <3>1. e2 = << >>
      BY <2>5 DEF Edge
    <3> QED
      BY <1>2, <2>5, <3>1
  <2> QED
    BY <2>3, <2>4, <2>5
<1>5. /\ Posts(e3)
      /\ input = "FAULT" /\ input \in active \ before => Tells(e3)
  <2> DEFINE up == EventMessage("FAULT_DETECTED")
  <2>1. up \in Messages /\ Quiet(up) /\ (input = "FAULT" => Asserts(input, up))
    BY DEF EventMessage, Messages, Published, StopEvents, StopInputs, Quiet, Raises,
           Clears, Asserts
  <2> HIDE DEF up, Posts, Tells
  <2>2. CASE "FAULT" \in active \ before
    <3>1. e3 = <<up>>
      BY <2>2 DEF Edge, up
    <3> QED
      BY <1>1, <2>1, <3>1
  <2>3. CASE "FAULT" \notin active \ before
    <3>1. e3 = << >>
      BY <2>3 DEF Edge
    <3> QED
      BY <1>2, <2>3, <3>1
  <2> QED
    BY <2>2, <2>3
<1>6. Posts(controls)
  <2>1. /\ ApproachMessage(active) \in Messages /\ Quiet(ApproachMessage(active))
        /\ ExecutionMessage \in Messages /\ Quiet(ExecutionMessage)
    BY DEF ApproachMessage, ExecutionMessage, Messages, Published, Quiet, Raises,
           Clears
  <2>2. /\ controls \in Seq(Messages) /\ Len(controls) = 2
        /\ controls[1] = ApproachMessage(active) /\ controls[2] = ExecutionMessage
    BY <2>1
  <2>3. ASSUME NEW i \in 1 .. Len(controls) PROVE Quiet(controls[i])
    <3>1. i = 1 \/ i = 2
      BY <2>2
    <3> QED
      BY <2>1, <2>2, <3>1
  <2> QED
    BY <2>2, <2>3
<1>7. /\ SafetyMessage(active) \in Messages
      /\ Raises(input, SafetyMessage(active)) => input \in active
      /\ input \in active => ~Clears(input, SafetyMessage(active))
  <2>1. SafetyMessage(active) \in Messages
    BY DEF SafetyMessage, Messages, Published, Snapshots
  <2> QED
    BY <2>1 DEF SafetyMessage, SnapshotOf, StopInputs, Raises, Clears, Shows
<1>8. Begins(<<SafetyMessage(active)>>)
  BY <1>7
<1> HIDE DEF e1, e2, e3, controls
<1>9. ASSUME NEW s, NEW t, Begins(s), Posts(t)
      PROVE  Begins(s \o t) /\ (Asserted(s) \/ Tells(t) => Asserted(s \o t))
  <2>1. /\ Len(s) \in Nat /\ Len(t) \in Nat /\ Len(s) >= 1
        /\ s \o t \in Seq(Messages) /\ Len(s \o t) = Len(s) + Len(t)
        /\ \A i \in 1 .. Len(s) + Len(t) :
               (s \o t)[i] = IF i <= Len(s) THEN s[i] ELSE t[i - Len(s)]
    BY <1>9, LenProperties, ConcatProperties
  <2>2. ASSUME NEW i \in 1 .. Len(s) PROVE (s \o t)[i] = s[i]
    BY <2>1
  <2>3. ASSUME NEW i \in 1 .. Len(t)
        PROVE  Len(s) + i \in 2 .. Len(s \o t) /\ (s \o t)[Len(s) + i] = t[i]
    <3>1. /\ Len(s) + i \in 1 .. Len(s) + Len(t) /\ Len(s) + i >= 2
          /\ ~(Len(s) + i <= Len(s)) /\ (Len(s) + i) - Len(s) = i
      BY <2>1
    <3> QED
      BY <2>1, <3>1
  <2>4. ASSUME NEW i \in 2 .. Len(s \o t) PROVE Quiet((s \o t)[i])
    <3>1. CASE i <= Len(s)
      <4>1. i \in 1 .. Len(s) /\ i \in 2 .. Len(s)
        BY <2>1, <3>1
      <4> QED
        BY <1>9, <2>2, <4>1
    <3>2. CASE ~(i <= Len(s))
      <4>1. i - Len(s) \in 1 .. Len(t) /\ Len(s) + (i - Len(s)) = i
        BY <2>1, <3>2
      <4> QED
        BY <1>9, <2>3, <4>1
    <3> QED
      BY <3>1, <3>2
  <2>5. (s \o t)[1] = SafetyMessage(active)
    <3>1. 1 \in 1 .. Len(s)
      BY <2>1
    <3> QED
      BY <1>9, <2>2, <3>1
  <2>6. ASSUME NEW i \in 2 .. Len(s), Asserts(input, s[i]) PROVE Asserted(s \o t)
    <3>1. i \in 1 .. Len(s) /\ i \in 2 .. Len(s \o t)
      BY <2>1
    <3> QED
      BY <2>2, <2>6, <3>1
  <2>7. ASSUME NEW i \in 1 .. Len(t), Asserts(input, t[i]) PROVE Asserted(s \o t)
    BY <2>3, <2>7
  <2>8. Len(s \o t) >= 1
    BY <2>1
  <2> QED
    BY <2>1, <2>4, <2>5, <2>6, <2>7, <2>8
<1> DEFINE r1 == <<SafetyMessage(active)>> \o e1
           r2 == r1 \o e2
           r3 == r2 \o e3
           r4 == r3 \o controls
<1> HIDE DEF Posts, Tells, Begins, Asserted, r1, r2, r3, r4
<1>10. Begins(r1) /\ (Tells(e1) => Asserted(r1))
  BY <1>3, <1>8, <1>9 DEF r1
<1>11. Begins(r2) /\ (Asserted(r1) \/ Tells(e2) => Asserted(r2))
  BY <1>4, <1>9, <1>10 DEF r2
<1>12. Begins(r3) /\ (Asserted(r2) \/ Tells(e3) => Asserted(r3))
  BY <1>5, <1>9, <1>11 DEF r3
<1>13. Begins(r4) /\ (Asserted(r3) => Asserted(r4))
  BY <1>6, <1>9, <1>12 DEF r4
<1>14. input \in active \ before => Asserted(r4)
  BY <1>3, <1>4, <1>5, <1>10, <1>11, <1>12, <1>13 DEF StopInputs
<1>15. Round(active, before) = r4
  BY DEF Round, r1, r2, r3, r4, e1, e2, e3, controls
<1>16. /\ Len(r4) >= 1 /\ Len(r4) \in Nat /\ r4[1] = SafetyMessage(active)
       /\ \A i \in 2 .. Len(r4) : Quiet(r4[i])
  BY <1>13, LenProperties DEF Begins
<1>17. ASSUME input \in active, NEW i \in 1 .. Len(r4)
       PROVE  ~Clears(input, r4[i])
  <2>1. i = 1 \/ i \in 2 .. Len(r4)
    BY <1>16
  <2> QED
    BY <1>7, <1>16, <1>17, <2>1 DEF Quiet
<1>18. \A i \in 2 .. Len(r4) : ~Raises(input, r4[i])
  BY <1>16 DEF Quiet
<1> QED
  BY <1>7, <1>14, <1>15, <1>16, <1>17, <1>18 DEF Asserted

\* A command of the operator leaves a stopped state only when nothing is active.
LEMMA OperatorKeepsSafety ==
    ASSUME Policy!OperatorEvent
    PROVE  /\ safety' = safety
           /\ activeState \in Policy!StoppedStates
                  /\ activeState' \notin Policy!StoppedStates =>
                  Policy!SafetyReadyForRecovery
<1> USE DEF Policy!TransitionTo, Policy!stateVars, Policy!Rejected,
            Policy!machineVars, Policy!StoppedStates
<1>1. CASE Policy!PauseResume
  BY <1>1
  DEF Policy!PauseResume, Policy!Pause, Policy!Resume, Policy!PausableStates,
      Policy!LegacyExecutionStates
<1>2. CASE Policy!Reset
  BY <1>2
  DEF Policy!Reset, Policy!ResetProgramming, Policy!ResetFault,
      Policy!ResetEmergency
<1>3. CASE Policy!Home
  BY <1>3
  DEF Policy!Home, Policy!HomeAfterEmergency, Policy!HomeAfterEmergencyAllowed,
      Policy!HomeFromIdle
<1>4. CASE Policy!Teach \/ Policy!ValidatePreview \/ Policy!StartReplay
  BY <1>4
  DEF Policy!Teach, Policy!ValidatePreview, Policy!PreviewAllowed,
      Policy!StartReplay, Policy!ReplayAllowed
<1> QED
  BY <1>1, <1>2, <1>3, <1>4 DEF Policy!OperatorEvent

\* No result leaves a stopped state.
LEMMA ResultKeepsSafety ==
    ASSUME NEW source, Policy!StateResult(source)
    PROVE  /\ safety' = safety
           /\ activeState \in Policy!StoppedStates =>
                  activeState' \in Policy!StoppedStates
<1> USE DEF Policy!TransitionTo, Policy!stateVars, Policy!Rejected,
            Policy!machineVars, Policy!StaleResult, Policy!StoppedStates
<1>1. CASE Policy!StateComplete(source)
  BY <1>1
  DEF Policy!StateComplete, Policy!PlainComplete, Policy!PlainCompletionAllowed,
      Policy!CompletionTarget, Policy!TeachingComplete,
      Policy!PathValidationComplete, Policy!ExecutionComplete,
      Policy!CompletionRejected
<1>2. CASE Policy!ValidationRejected(source)
  BY <1>2 DEF Policy!ValidationRejected
<1>3. CASE Policy!StateAbortedHome(source) \/ Policy!StateAbortedReset(source)
  BY <1>3 DEF Policy!StateAbortedHome, Policy!StateAbortedReset, Policy!AbortableStates
<1>4. ASSUME NEW severity, Policy!StateFailed(source, severity)
      PROVE  safety' = safety /\ activeState' \in Policy!StoppedStates \cup {activeState}
  BY <1>4 DEF Policy!StateFailed, Policy!StopStateFor
<1> QED
  BY <1>1, <1>2, <1>3, <1>4 DEF Policy!StateResult

\* What taking a message does to the snapshot in force and to a stopped robot.
LEMMA MessageOnInput ==
    ASSUME NEW input \in StopInputs, NEW message \in Messages, PolicyFacts,
           HandleMessage(message)
    PROVE  /\ Clears(input, message) => ~Shows(input, safety')
           /\ Asserts(input, message) =>
                  Shows(input, safety') /\ activeState' \in Policy!StoppedStates
           /\ Raises(input, message) =>
                  Shows(input, safety') /\ activeState' = activeState
           /\ ~Clears(input, message) /\ ~Asserts(input, message)
                  /\ ~Raises(input, message) =>
                  /\ Shows(input, safety') <=> Shows(input, safety)
                  /\ Shows(input, safety') /\ activeState' \notin Policy!StoppedStates
                         => activeState \notin Policy!StoppedStates
<1> DEFINE Same == /\ safety' = safety
                   /\ Shows(input, safety') /\ activeState' \notin Policy!StoppedStates
                         => activeState \notin Policy!StoppedStates
           Goal ==
             /\ Clears(input, message) => ~Shows(input, safety')
             /\ Asserts(input, message) =>
                    Shows(input, safety') /\ activeState' \in Policy!StoppedStates
             /\ Raises(input, message) =>
                    Shows(input, safety') /\ activeState' = activeState
             /\ ~Clears(input, message) /\ ~Asserts(input, message)
                    /\ ~Raises(input, message) =>
                    /\ Shows(input, safety') <=> Shows(input, safety)
                    /\ Shows(input, safety') /\ activeState' \notin Policy!StoppedStates
                           => activeState \notin Policy!StoppedStates
<1> SUFFICES Goal
  OBVIOUS
<1>1. ASSUME Same, message.type \notin {"SAFETY", "EVENT"} PROVE Goal
  BY <1>1 DEF Clears, Asserts, Raises
<1>2. ASSUME Policy!OperatorEvent PROVE Same
  BY <1>2, OperatorKeepsSafety DEF Policy!SafetyReadyForRecovery, Shows, StopInputs
<1>3. ASSUME UNCHANGED policyVars PROVE Same
  BY <1>3 DEF policyVars
<1>4. CASE message.type = "SAFETY" /\ HandleSafety(message.content)
  BY <1>4
  DEF HandleSafety, Policy!UpdateSafety, Policy!stateVars, Clears, Asserts, Raises
<1>5. CASE message.type = "EVENT" /\ HandleEvent(message.content)
  <2> USE DEF Clears, Asserts, Raises, Shows, StopInputs
  <2>1. safety \in Policy!SafetySnapshot
    BY DEF PolicyFacts, Policy!PolicyInv, Policy!TypeOK
  <2>2. PolicyEvent(message.content)
    BY <1>5 DEF HandleEvent, Forward
  <2>3. CASE message.content = "ESTOP_ASSERTED" /\ Policy!EstopAsserted
    BY <1>5, <2>1, <2>3
    DEF Policy!EstopAsserted, Policy!TransitionTo, Policy!StoppedStates,
        Policy!SafetySnapshot
  <2>4. CASE message.content = "ESTOP_RELEASED" /\ Policy!EstopReleased
    BY <1>5, <2>1, <2>4
    DEF Policy!EstopReleased, Policy!stateVars, Policy!SafetySnapshot
  <2>5. CASE /\ message.content = "PROTECTIVE_STOP_ASSERTED"
             /\ Policy!ProtectiveStopAsserted
    BY <1>5, <2>1, <2>5
    DEF Policy!ProtectiveStopAsserted, Policy!TransitionTo, Policy!StoppedStates,
        Policy!SafetySnapshot
  <2>6. CASE /\ message.content = "PROTECTIVE_STOP_CLEARED"
             /\ Policy!ProtectiveStopCleared
    BY <1>5, <2>1, <2>6
    DEF Policy!ProtectiveStopCleared, Policy!stateVars, Policy!SafetySnapshot
  <2>7. CASE /\ message.content = "FAULT_DETECTED"
             /\ Policy!FaultDetected("RECOVERABLE")
    BY <1>5, <2>1, <2>7
    DEF Policy!FaultDetected, Policy!TransitionTo, Policy!StopStateFor,
        Policy!StoppedStates, Policy!SafetySnapshot
  <2> QED
    BY <2>2, <2>3, <2>4, <2>5, <2>6, <2>7 DEF PolicyEvent
<1> HIDE DEF Same, Goal
<1>6. CASE message.type = "APPROACH_CONTROL" /\ HandleApproachControl(message.content)
  BY <1>1, <1>3, <1>6 DEF HandleApproachControl
<1>7. CASE message.type = "PATH_EXECUTION_INPUTS" /\ HandleExecutionInputs
  BY <1>1, <1>3, <1>7 DEF HandleExecutionInputs
<1>8. CASE message.type = "HMI_COMMAND" /\ HandleHmiCommand(message.content)
  <2>1. Policy!OperatorEvent \/ UNCHANGED policyVars
    BY <1>8
    DEF HandleHmiCommand, TeachingCommand, IgnoredCommand, MotionCommand,
        HandleRequest, NoEvent, Forward, Policy!OperatorEvent
  <2> QED
    BY <1>1, <1>2, <1>3, <1>8, <2>1
<1> QED
  BY <1>4, <1>5, <1>6, <1>7, <1>8 DEF HandleMessage

\* What is queued and what the round still has to post.
stream == queue \o outbox

StopStream ==
    \A input \in StopInputs :
        StreamInv(input, stream, safety, activeState, published)

\* The stream is made of messages.
LEMMA StreamOfMessages ==
    ASSUME MessageInv
    PROVE  /\ outbox \in Seq(Messages) /\ stream \in Seq(Messages)
           /\ published \in SUBSET StopInputs /\ inputs \in SUBSET StopInputs
<1>1. outbox \in Seq(Messages)
  BY SeqMonotonic DEF MessageInv, Messages
<1> QED
  BY <1>1, ConcatProperties, SupervisorTaskAssumption DEF MessageInv, stream

\* Taking a message moves it from the stream into force.
LEMMA TakeStream ==
    ASSUME BaseInv, StopStream, TakeMessage
    PROVE  StopStream'
<1>1. queue # << >> /\ queue' = Tail(queue) /\ HandleMessage(Head(queue))
  BY DEF TakeMessage, BatchEnds
<1>2. UNCHANGED <<outbox, published>>
  BY DEF TakeMessage, producerVars
<1>3. /\ queue \in Seq(Messages) /\ outbox \in Seq(Messages)
      /\ stream \in Seq(Messages)
  BY StreamOfMessages DEF BaseInv, MessageInv
<1>4. stream # << >> /\ stream[1] = Head(queue) /\ stream' = Tail(stream)
  <2>1. queue = <<Head(queue)>> \o Tail(queue) /\ <<Head(queue)>> \in Seq(Messages)
        /\ Tail(queue) \in Seq(Messages)
    BY <1>1, <1>3
  <2>2. stream = <<Head(queue)>> \o (Tail(queue) \o outbox)
    BY <1>3, <2>1, ConcatAssociative DEF stream
  <2>3. stream' = Tail(queue) \o outbox /\ stream' \in Seq(Messages)
    BY <1>1, <1>2, <1>3, <2>1, ConcatProperties DEF stream
  <2> QED
    BY <2>1, <2>2, <2>3
<1>5. Head(queue) \in Messages
  BY <1>1, <1>3, HeadTailProperties
<1>6. ASSUME NEW input \in StopInputs
      PROVE  StreamInv(input, Tail(stream), safety', activeState', published)
  <2> DEFINE m == Head(queue)
  <2>1. /\ Clears(input, m) => ~Shows(input, safety')
        /\ Asserts(input, m) =>
               Shows(input, safety') /\ activeState' \in Policy!StoppedStates
        /\ Raises(input, m) =>
               Shows(input, safety') /\ activeState' = activeState
        /\ ~Clears(input, m) /\ ~Asserts(input, m) /\ ~Raises(input, m) =>
               /\ Shows(input, safety') <=> Shows(input, safety)
               /\ Shows(input, safety') /\ activeState' \notin Policy!StoppedStates
                      => activeState \notin Policy!StoppedStates
    BY <1>1, <1>5, MessageOnInput DEF BaseInv
  <2>2. StreamInv(input, stream, safety, activeState, published)
    BY DEF StopStream
  <2>3. m = stream[1]
    BY <1>4
  <2> HIDE DEF m
  <2> QED
    BY <1>3, <1>4, <2>1, <2>2, <2>3, TailStream
<1> QED
  BY <1>2, <1>4, <1>6 DEF StopStream

\* A round is added to the end, and so is a command.
LEMMA RoundStream ==
    ASSUME BaseInv, StopStream, PublishRound
    PROVE  StopStream'
<1>1. /\ publisher = "READY" /\ outbox' = Round(inputs, published)
      /\ published' = inputs /\ UNCHANGED <<queue, safety, activeState>>
  BY DEF PublishRound, policyVars
<1>2. outbox = << >> /\ drivesReady \in BOOLEAN
  BY <1>1 DEF BaseInv, MessageInv
<1>3. stream = queue /\ stream \in Seq(Messages)
  BY <1>2, ConcatEmptySeq DEF stream, BaseInv, MessageInv
<1>4. published \in SUBSET StopInputs /\ inputs \in SUBSET StopInputs
  BY StreamOfMessages DEF BaseInv
<1> DEFINE r == Round(inputs, published)
<1>5. r \in Seq(Messages)
  BY <1>2, <1>4, RoundPosts, SeqMonotonic DEF Messages
<1>6. r # << >>
  <2>1. "ESTOP" \in StopInputs /\ Len(<< >>) = 0
    BY DEF StopInputs
  <2>2. Len(r) >= 1
    BY <1>2, <1>4, <2>1, RoundOfInput
  <2> HIDE DEF r
  <2> QED
    BY <2>1, <2>2
<1>7. stream' = stream \o r
  BY <1>1, <1>3 DEF stream
<1>8. ASSUME NEW input \in StopInputs
      PROVE  StreamInv(input, stream \o r, safety, activeState, inputs)
  <2>1. /\ \A i \in 2 .. Len(r) : ~Raises(input, r[i])
        /\ Raises(input, r[1]) => input \in inputs
        /\ input \in inputs => \A i \in 1 .. Len(r) : ~Clears(input, r[i])
        /\ input \in inputs \ published =>
               \E i \in 2 .. Len(r) : Asserts(input, r[i])
    BY <1>2, <1>4, RoundOfInput
  <2>2. StreamInv(input, stream, safety, activeState, published)
    BY DEF StopStream
  <2> HIDE DEF r
  <2> QED
    BY <1>3, <1>5, <1>6, <2>1, <2>2, GrowStream
<1> HIDE DEF r
<1> QED
  BY <1>1, <1>7, <1>8 DEF StopStream

\* A post moves a message within the stream.
LEMMA PostStream ==
    ASSUME BaseInv, StopStream, PublishPost
    PROVE  StopStream'
<1>1. /\ outbox # << >> /\ queue' = Append(queue, Head(outbox))
      /\ outbox' = Tail(outbox) /\ UNCHANGED <<published, safety, activeState>>
  BY DEF PublishPost, policyVars
<1>2. queue \in Seq(Messages) /\ outbox \in Seq(Messages)
  BY StreamOfMessages DEF BaseInv, MessageInv
<1>3. /\ queue' = queue \o <<Head(outbox)>> /\ <<Head(outbox)>> \in Seq(Messages)
      /\ Tail(outbox) \in Seq(Messages)
      /\ outbox = <<Head(outbox)>> \o Tail(outbox)
  BY <1>1, <1>2
<1>4. stream' = stream
  <2>1. (queue \o <<Head(outbox)>>) \o Tail(outbox)
            = queue \o (<<Head(outbox)>> \o Tail(outbox))
    BY <1>2, <1>3, ConcatAssociative
  <2> QED
    BY <1>1, <1>3, <2>1 DEF stream
<1> QED
  BY <1>1, <1>4 DEF StopStream

\* A command neither raises nor clears an input.
LEMMA HmiStream ==
    ASSUME BaseInv, StopStream, HmiTurn
    PROVE  StopStream'
<1>1. outbox = << >> /\ UNCHANGED <<outbox, published, safety, activeState>>
  BY DEF HmiTurn, HmiMayRun, Rested, policyVars
<1>2. queue \in Seq(Messages) /\ stream = queue
  BY <1>1, ConcatEmptySeq DEF stream, BaseInv, MessageInv
<1>3. CASE UNCHANGED queue
  BY <1>1, <1>3 DEF StopStream, stream
<1>4. ASSUME NEW command \in Commands, queue' = Append(queue, HmiMessage(command))
      PROVE  StopStream'
  <2> DEFINE r == <<HmiMessage(command)>>
  <2>1. /\ r \in Seq(Messages) /\ r # << >> /\ Len(r) = 1
        /\ r[1].type = "HMI_COMMAND"
    BY DEF HmiMessage, Messages
  <2>2. stream' = stream \o r
    <3>1. queue' \in Seq(Messages) /\ queue' = queue \o r
      BY <1>2, <1>4, <2>1
    <3> QED
      BY <1>1, <1>2, <3>1, ConcatEmptySeq DEF stream
  <2> HIDE DEF r
  <2>3. ASSUME NEW input \in StopInputs
        PROVE  StreamInv(input, stream \o r, safety, activeState, published)
    <3>1. ~Raises(input, r[1]) /\ ~Clears(input, r[1])
      BY <2>1 DEF Raises, Clears
    <3>2. /\ \A i \in 2 .. Len(r) : ~Raises(input, r[i])
          /\ \A i \in 1 .. Len(r) : ~Clears(input, r[i])
      BY <2>1, <3>1
    <3>3. StreamInv(input, stream, safety, activeState, published)
      BY DEF StopStream
    <3> QED
      BY <1>2, <2>1, <3>1, <3>2, <3>3, GrowStream
  <2> QED
    BY <1>1, <2>2, <2>3 DEF StopStream
<1> QED
  BY <1>3, <1>4 DEF HmiTurn

\* The stream keeps its invariant in every step.
LEMMA StreamNext ==
    ASSUME BaseInv, StopStream, [Next]_vars
    PROVE  StopStream'
<1>1. CASE Step
  <2>1. UNCHANGED stream /\ UNCHANGED published
    BY <1>1 DEF Step, producerVars, stream
  <2>2. Policy!StateResult(activeState) \/ UNCHANGED policyVars
    BY <1>1, StateStep DEF Step
  <2>3. /\ safety' = safety
        /\ activeState \in Policy!StoppedStates =>
               activeState' \in Policy!StoppedStates
    BY <2>2, ResultKeepsSafety DEF policyVars
  <2> QED
    BY <2>1, <2>3 DEF StopStream, StreamInv
<1>2. CASE Tick \/ UNCHANGED vars
  <2>1. UNCHANGED <<queue, outbox, published, safety, activeState>>
    BY <1>2 DEF Tick, vars, taskVars, producerVars, policyVars
  <2> QED
    BY <2>1 DEF StopStream, stream
<1> QED
  BY <1>1, <1>2, TakeStream, RoundStream, PostStream, HmiStream DEF Next

\* So it holds in every reachable state.
LEMMA StreamInvariant == Spec => []StopStream
<1>1. Init => StopStream
  <2> SUFFICES ASSUME Init, NEW input \in StopInputs
               PROVE  StreamInv(input, stream, safety, activeState, published)
    BY DEF StopStream
  <2>1. stream = << >> /\ published = {} /\ ~Shows(input, safety)
    BY DEF Init, Policy!Init, stream, Shows
  <2> QED
    BY <2>1 DEF StreamInv
<1>2. BaseInv /\ StopStream /\ [Next]_vars => StopStream'
  BY StreamNext
<1> QED
  BY <1>1, <1>2, BaseInvariant, PTL DEF Spec

\* An unsafe snapshot is in force only while the robot is stopped, or while the
\* event that stops it is still to be handled, wherever the supervisor preempts
\* the publisher.
THEOREM StopStaysOnItsWay == Spec => []StopIsOnItsWay
<1>1. BaseInv /\ StopStream => StopIsOnItsWay
  <2> SUFFICES ASSUME BaseInv, StopStream PROVE StopIsOnItsWay
    OBVIOUS
  <2> DEFINE coming(event) ==
                 \/ \E i \in 1 .. Len(queue) : queue[i] = EventMessage(event)
                 \/ \E i \in 1 .. Len(outbox) : outbox[i] = EventMessage(event)
  <2>1. ASSUME NEW event, NEW j \in 1 .. Len(stream),
               stream[j] = EventMessage(event)
        PROVE  coming(event)
    <3>1. /\ Len(queue) \in Nat /\ Len(outbox) \in Nat
          /\ Len(stream) = Len(queue) + Len(outbox)
          /\ \A i \in 1 .. Len(queue) + Len(outbox) :
                 stream[i] = IF i <= Len(queue) THEN queue[i]
                             ELSE outbox[i - Len(queue)]
      <4>1. queue \in Seq(Messages) /\ outbox \in Seq(Messages)
        BY StreamOfMessages DEF BaseInv, MessageInv
      <4> QED
        BY <4>1, LenProperties, ConcatProperties DEF stream
    <3>2. CASE j <= Len(queue)
      <4>1. j \in 1 .. Len(queue) /\ queue[j] = EventMessage(event)
        BY <2>1, <3>1, <3>2
      <4> QED
        BY <4>1
    <3>3. CASE ~(j <= Len(queue))
      <4>1. /\ j - Len(queue) \in 1 .. Len(outbox)
            /\ outbox[j - Len(queue)] = EventMessage(event)
        BY <2>1, <3>1, <3>3
      <4> QED
        BY <4>1
    <3> QED
      BY <3>2, <3>3
  <2>2. ASSUME NEW input \in StopInputs, Shows(input, safety),
               activeState \notin Policy!StoppedStates
        PROVE  \E j \in 1 .. Len(stream) :
                   stream[j] \in Messages /\ Asserts(input, stream[j])
    <3>1. PICK j \in 1 .. Len(stream) : Asserts(input, stream[j])
      BY <2>2 DEF StopStream, StreamInv, Announced
    <3>2. stream[j] \in Messages
      BY <3>1, StreamOfMessages, ElementOfSeq DEF BaseInv
    <3> QED
      BY <3>1, <3>2
  <2>3. ASSUME NEW message \in Messages, message.type = "EVENT"
        PROVE  message = EventMessage(message.content)
    BY <2>3 DEF Messages, Published, EventMessage
  <2> HIDE DEF coming
  <2>4. ASSUME activeState \notin Policy!StoppedStates
        PROVE  /\ safety.estopActive => coming("ESTOP_ASSERTED")
               /\ safety.protectiveStopActive => coming("PROTECTIVE_STOP_ASSERTED")
               /\ safety.globalFaultActive => coming("FAULT_DETECTED")
    <3>1. ASSUME safety.estopActive PROVE coming("ESTOP_ASSERTED")
      BY <2>1, <2>2, <2>3, <2>4, <3>1 DEF StopInputs, Shows, Asserts
    <3>2. ASSUME safety.protectiveStopActive PROVE coming("PROTECTIVE_STOP_ASSERTED")
      BY <2>1, <2>2, <2>3, <2>4, <3>2 DEF StopInputs, Shows, Asserts
    <3>3. ASSUME safety.globalFaultActive PROVE coming("FAULT_DETECTED")
      BY <2>1, <2>2, <2>3, <2>4, <3>3 DEF StopInputs, Shows, Asserts
    <3> QED
      BY <3>1, <3>2, <3>3
  <2> QED
    BY <2>4 DEF StopIsOnItsWay, coming
<1> QED
  BY <1>1, BaseInvariant, StreamInvariant, PTL

-----------------------------------------------------------------------------
(* The types of the wrapper's own variables.                               *)

\* What TaskTypeOK says of them beyond the invariants above.
WrapperInv ==
    /\ stopPhase \in Stop!StopPhases
    /\ pendingTeaching \in {"NONE", "EDIT", "VALIDATE"}
    /\ requests \in [reset : BOOLEAN, home : BOOLEAN]
    /\ artifact \in {"PARTIAL", "COMMITTED"}

\* No request is a pair of requests.
LEMMA NoRequestType == NoRequest \in [reset : BOOLEAN, home : BOOLEAN]
BY DEF NoRequest

\* An entry keeps the types.
LEMMA EntryTypes ==
    ASSUME WrapperInv
    PROVE  /\ EnterStopState \/ UNCHANGED stopPhase => stopPhase' \in Stop!StopPhases
           /\ EnterExecution \/ ClearRequests \/ UNCHANGED requests =>
                  requests' \in [reset : BOOLEAN, home : BOOLEAN]
           /\ EnterValidation \/ UNCHANGED artifact =>
                  artifact' \in {"PARTIAL", "COMMITTED"}
<1>1. EnterStopState \/ UNCHANGED stopPhase => stopPhase' \in Stop!StopPhases
  BY DEF WrapperInv, EnterStopState, Stop!EnterStop, Stop!StopPhases
<1>2. EnterExecution \/ ClearRequests \/ UNCHANGED requests =>
          requests' \in [reset : BOOLEAN, home : BOOLEAN]
  BY NoRequestType DEF WrapperInv, EnterExecution, ClearRequests
<1>3. EnterValidation \/ UNCHANGED artifact => artifact' \in {"PARTIAL", "COMMITTED"}
  BY DEF WrapperInv, EnterValidation
<1> QED
  BY <1>1, <1>2, <1>3

\* A message keeps the types.
LEMMA MessageTypesKept ==
    ASSUME WrapperInv, NEW message, HandleMessage(message)
    PROVE  WrapperInv'
<1> DEFINE Kept == /\ EnterStopState \/ UNCHANGED stopPhase
                   /\ EnterExecution \/ ClearRequests \/ UNCHANGED requests
                   /\ EnterValidation \/ UNCHANGED artifact
<1>1. ASSUME Kept, pendingTeaching' \in {pendingTeaching, "EDIT", "VALIDATE"}
      PROVE  WrapperInv'
  BY <1>1, EntryTypes DEF WrapperInv
<1>2. EnterActiveState \/ NoEvent => Kept
  BY DEF EnterActiveState, NoEvent
<1>3. CASE \/ HandleSafety(message.content) \/ HandleEvent(message.content)
           \/ HandleApproachControl(message.content) \/ HandleExecutionInputs
  <2>1. Kept /\ UNCHANGED pendingTeaching
    BY <1>2, <1>3
    DEF HandleSafety, HandleEvent, Forward, HandleApproachControl,
        HandleExecutionInputs, ClearRequests
  <2> QED
    BY <1>1, <2>1
<1>4. CASE HandleHmiCommand(message.content)
  <2>1. CASE TeachingCommand(message.content)
    <3>1. Kept
      BY <1>2, <2>1 DEF TeachingCommand, Forward
    <3>2. pendingTeaching' \in {"EDIT", "VALIDATE"}
      BY <2>1 DEF TeachingCommand
    <3> QED
      BY <1>1, <3>1, <3>2
  <2>2. CASE IgnoredCommand(message.content)
    BY <1>1, <1>2, <2>2 DEF IgnoredCommand
  <2>3. ASSUME NEW reset \in BOOLEAN, HandleRequest(reset), UNCHANGED pendingTeaching
        PROVE  WrapperInv'
    <3>1. CASE requests' = [reset |-> reset, home |-> ~reset]
               /\ UNCHANGED <<stopPhase, artifact>>
      BY <2>3, <3>1 DEF WrapperInv
    <3>2. CASE EnterActiveState \/ UNCHANGED <<requests, stopPhase, artifact>>
      BY <1>1, <1>2, <2>3, <3>2
    <3> QED
      BY <2>3, <3>1, <3>2 DEF HandleRequest, Forward
  <2>4. CASE MotionCommand(message.content)
    BY <1>1, <1>2, <2>3, <2>4 DEF MotionCommand, Forward
  <2> QED
    BY <1>4, <2>1, <2>2, <2>4 DEF HandleHmiCommand
<1> QED
  BY <1>3, <1>4 DEF HandleMessage

\* A step keeps the types.
LEMMA StepTypesKept ==
    ASSUME WrapperInv, RunActiveState
    PROVE  WrapperInv'
<1> DEFINE Kept == /\ EnterStopState \/ UNCHANGED stopPhase
                   /\ EnterExecution \/ ClearRequests \/ UNCHANGED requests
                   /\ EnterValidation \/ UNCHANGED artifact
<1>1. ASSUME Kept, pendingTeaching' \in {pendingTeaching, "NONE"}
      PROVE  WrapperInv'
  BY <1>1, EntryTypes DEF WrapperInv
<1>2. EnterActiveState \/ NoEvent => Kept
  BY DEF EnterActiveState, NoEvent
<1>3. CASE RunBoot \/ RunHoming \/ RunIdle \/ RunTeaching
  BY <1>1, <1>2, <1>3 DEF RunBoot, RunHoming, RunIdle, RunTeaching, Forward
<1>4. CASE RunPathValidation
  <2>1. CASE NoEvent
    BY <1>1, <1>2, <1>4, <2>1 DEF RunPathValidation
  <2>2. CASE EnterExecution /\ EnterStopState
             /\ artifact' \in {artifact, "COMMITTED"}
    BY <1>4, <2>2, EntryTypes DEF RunPathValidation, WrapperInv
  <2> QED
    BY <1>4, <2>1, <2>2 DEF RunPathValidation
<1>5. CASE RunApproach \/ RunPathExecution
  BY <1>1, <1>5 DEF RunApproach, RunPathExecution
<1>6. CASE RunPaused \/ RunStopState
  <2>1. stopPhase' \in Stop!StopPhases
    BY <1>6, EntryTypes
    DEF RunPaused, RunStopState, WrapperInv, Stop!PausedRuns, Stop!FaultStep,
        Stop!EmergencyStopStep, Stop!EmergencyPhase, Stop!StopPhases, Stop!stopVars
  <2> QED
    BY <1>6, <2>1 DEF RunPaused, RunStopState, WrapperInv
<1> QED
  BY <1>3, <1>4, <1>5, <1>6 DEF RunActiveState

\* So the types hold in every reachable state.
LEMMA WrapperInvariant == Spec => []WrapperInv
<1>1. Init => WrapperInv
  BY NoRequestType DEF Init, WrapperInv, Stop!Init, Stop!StopPhases
<1>2. WrapperInv /\ [Next]_vars => WrapperInv'
  <2> SUFFICES ASSUME WrapperInv, [Next]_vars PROVE WrapperInv'
    OBVIOUS
  <2>1. CASE TakeMessage
    BY <2>1, MessageTypesKept DEF TakeMessage
  <2>2. CASE Step
    BY <2>2, StepTypesKept DEF Step
  <2>3. CASE Tick \/ PublishRound \/ PublishPost \/ HmiTurn \/ UNCHANGED vars
    BY <2>3
    DEF Tick, PublishRound, PublishPost, HmiTurn, vars, contextVars, controlVars,
        assetVars, WrapperInv
  <2> QED
    BY <2>1, <2>2, <2>3 DEF Next
<1> QED
  BY <1>1, <1>2, PTL DEF Spec

-----------------------------------------------------------------------------
(* Events of inputs that have been published.                              *)

\* The messages that assert no other input than these.
Known(active) ==
    {message \in Messages :
         \A input \in StopInputs : Asserts(input, message) => input \in active}

\* A round begins with an empty queue, and whatever is queued or still to be
\* posted asserts only inputs that the last round saw active.
PublishedInv ==
    /\ supervisor = "BLOCKED" /\ publisher = "READY" => queue = << >>
    /\ queue \in Seq(Known(published)) /\ outbox \in Seq(Known(published))

\* A round asserts the inputs that are active.
LEMMA RoundIsKnown ==
    ASSUME drivesReady \in BOOLEAN,
           NEW active \in SUBSET StopInputs, NEW before \in SUBSET StopInputs
    PROVE  Round(active, before) \in Seq(Known(active))
<1> DEFINE K == Known(active)
           e1 == Edge("ESTOP", <<EventMessage("ESTOP_ASSERTED")>>,
                      <<EventMessage("ESTOP_RELEASED")>>, active, before)
           e2 == Edge("PROTECTIVE_STOP", <<EventMessage("PROTECTIVE_STOP_ASSERTED")>>,
                      <<EventMessage("PROTECTIVE_STOP_CLEARED")>>, active, before)
           e3 == Edge("FAULT", <<EventMessage("FAULT_DETECTED")>>, << >>,
                      active, before)
           controls == <<ApproachMessage(active), ExecutionMessage>>
<1>1. <<SafetyMessage(active)>> \in Seq(K)
  <2>1. SafetyMessage(active) \in K
    BY DEF SafetyMessage, Known, Messages, Published, Snapshots, Asserts
  <2> QED
    BY <2>1
<1>2. e1 \in Seq(K)
  <2>1. "ESTOP" \in active => EventMessage("ESTOP_ASSERTED") \in K
    BY DEF EventMessage, Known, Messages, Published, StopEvents, Asserts
  <2>2. EventMessage("ESTOP_RELEASED") \in K
    BY DEF EventMessage, Known, Messages, Published, StopEvents, Asserts
  <2> QED
    BY <2>1, <2>2 DEF Edge
<1>3. e2 \in Seq(K)
  <2>1. "PROTECTIVE_STOP" \in active =>
            EventMessage("PROTECTIVE_STOP_ASSERTED") \in K
    BY DEF EventMessage, Known, Messages, Published, StopEvents, Asserts
  <2>2. EventMessage("PROTECTIVE_STOP_CLEARED") \in K
    BY DEF EventMessage, Known, Messages, Published, StopEvents, Asserts
  <2> QED
    BY <2>1, <2>2 DEF Edge
<1>4. e3 \in Seq(K)
  <2>1. "FAULT" \in active => EventMessage("FAULT_DETECTED") \in K
    BY DEF EventMessage, Known, Messages, Published, StopEvents, Asserts
  <2> QED
    BY <2>1 DEF Edge
<1>5. controls \in Seq(K)
  <2>1. ApproachMessage(active) \in K /\ ExecutionMessage \in K
    BY DEF ApproachMessage, ExecutionMessage, Known, Messages, Published, Asserts
  <2> QED
    BY <2>1
<1>6. Round(active, before)
          = (((<<SafetyMessage(active)>> \o e1) \o e2) \o e3) \o controls
  BY DEF Round
<1> HIDE DEF K, e1, e2, e3, controls
<1>7. ASSUME NEW s \in Seq(K), NEW t \in Seq(K) PROVE s \o t \in Seq(K)
  BY ConcatProperties
<1> QED
  BY <1>1, <1>2, <1>3, <1>4, <1>5, <1>6, <1>7 DEF K

\* So it is in every reachable state.
LEMMA PublishedNext ==
    ASSUME Sizes, BaseInv, QueueInv, PublishedInv, [Next]_vars
    PROVE  PublishedInv'
<1>1. CASE TakeMessage
  <2>1. queue # << >> /\ queue' = Tail(queue) /\ supervisor' = "RUNNING"
        /\ UNCHANGED <<outbox, published>>
    BY <1>1 DEF TakeMessage, BatchEnds, producerVars
  <2>2. Tail(queue) \in Seq(Known(published))
    BY <2>1, HeadTailProperties DEF PublishedInv
  <2> QED
    BY <2>1, <2>2 DEF PublishedInv
<1>2. CASE Step
  <2>1. queue = << >>
    BY <1>2, BatchTakesAll DEF Step
  <2> QED
    BY <1>2, <2>1 DEF Step, producerVars, PublishedInv
<1>3. CASE Tick
  BY <1>3 DEF Tick, PublishedInv
<1>4. CASE PublishRound
  <2>1. queue = << >> /\ UNCHANGED queue /\ publisher' = "WAITING"
    BY <1>4 DEF PublishRound, PublishedInv
  <2>2. outbox' = Round(inputs, published) /\ published' = inputs
    BY <1>4 DEF PublishRound
  <2>3. Round(inputs, published) \in Seq(Known(inputs))
    BY RoundIsKnown, StreamOfMessages DEF BaseInv, MessageInv
  <2>4. queue' \in Seq(Known(published'))
    BY <2>1
  <2> QED
    BY <2>1, <2>2, <2>3, <2>4 DEF PublishedInv
<1>5. CASE PublishPost
  <2>1. /\ outbox # << >> /\ queue' = Append(queue, Head(outbox))
        /\ outbox' = Tail(outbox) /\ UNCHANGED <<published, publisher>>
    BY <1>5 DEF PublishPost
  <2>2. publisher # "READY"
    BY <2>1 DEF BaseInv, MessageInv
  <2>3. Head(outbox) \in Known(published) /\ Tail(outbox) \in Seq(Known(published))
    BY <2>1, HeadTailProperties DEF PublishedInv
  <2>4. Append(queue, Head(outbox)) \in Seq(Known(published))
    BY <2>3, AppendProperties DEF PublishedInv
  <2> QED
    BY <2>1, <2>2, <2>3, <2>4 DEF PublishedInv
<1>6. CASE HmiTurn
  <2>1. publisher = "WAITING" /\ UNCHANGED <<outbox, published, publisher>>
    BY <1>6 DEF HmiTurn, HmiMayRun, Rested
  <2>2. ASSUME NEW command \in Commands
        PROVE  Append(queue, HmiMessage(command)) \in Seq(Known(published))
    <3>1. HmiMessage(command) \in Known(published)
      BY DEF HmiMessage, Known, Messages, Asserts
    <3> QED
      BY <3>1, AppendProperties DEF PublishedInv
  <2>3. queue' \in Seq(Known(published))
    BY <1>6, <2>2 DEF HmiTurn, PublishedInv
  <2> QED
    BY <2>1, <2>3 DEF PublishedInv
<1>7. CASE UNCHANGED vars
  BY <1>7 DEF vars, taskVars, producerVars, PublishedInv
<1> QED
  BY <1>1, <1>2, <1>3, <1>4, <1>5, <1>6, <1>7 DEF Next

\* So it holds in every reachable state.
LEMMA PublishedInvariant ==
    ASSUME Sizes
    PROVE  Spec => []PublishedInv
<1>1. Init => PublishedInv
  BY DEF Init, PublishedInv
<1>2. BaseInv /\ QueueInv /\ PublishedInv /\ [Next]_vars => PublishedInv'
  BY PublishedNext
<1> QED
  BY <1>1, <1>2, BaseInvariant, QueueInvariant, PTL DEF Spec

-----------------------------------------------------------------------------
(* The relay.                                                              *)

\* The relay is closed in a Production run that follows its trajectory.  A pause
\* leaves it closed for the step of PAUSED that ends the same batch; so does a
\* stop, whose input is still active and keeps the robot stopped for that long.
RelayInv ==
    relay =>
        /\ phase \in {"FOLLOW_TRAJECTORY", "DISABLE_WIRE_FEED"}
        /\ \/ activeState = "PATH_EXECUTION" /\ executionMode = "PRODUCTION"
           \/ /\ activeState = "PAUSED" /\ stopPhase = "ENTER"
              /\ supervisor = "RUNNING" /\ queue = << >> /\ outbox = << >>
           \/ /\ activeState \in Policy!StoppedStates
              /\ activeState = "FAULT" => stopPhase = "ENTER"
              /\ supervisor = "RUNNING" /\ published # {}

\* A message enters a stop state afresh, and moves a run only by an entry or the
\* clock of its controlled stop.
LEMMA MessageEntries ==
    ASSUME NEW message, HandleMessage(message)
    PROVE  /\ EnterStopState
           /\ UNCHANGED phase \/ Entered("PATH_EXECUTION") \/ phase = "CONTROLLED_STOP"
<1> DEFINE Goal == /\ EnterStopState
                   /\ \/ UNCHANGED phase \/ Entered("PATH_EXECUTION")
                      \/ phase = "CONTROLLED_STOP"
<1> SUFFICES Goal
  OBVIOUS
<1>1. EnterActiveState => Goal
  BY DEF EnterActiveState, EnterExecution, executionContext
<1>2. ASSUME UNCHANGED activeState, UNCHANGED stopPhase,
             UNCHANGED phase \/ phase = "CONTROLLED_STOP"
      PROVE  Goal
  BY <1>2 DEF EnterStopState, Entered
<1> HIDE DEF Goal
<1>3. NoEvent => Goal
  BY <1>2 DEF NoEvent, policyVars, executionContext
<1>4. CASE HandleSafety(message.content) \/ HandleApproachControl(message.content)
  BY <1>2, <1>4
  DEF HandleSafety, HandleApproachControl, Policy!UpdateSafety, Policy!stateVars,
      policyVars, executionContext
<1>5. CASE HandleEvent(message.content)
  BY <1>1, <1>5 DEF HandleEvent, Forward
<1>6. CASE HandleExecutionInputs
  BY <1>2, <1>6
  DEF HandleExecutionInputs, Execution!StopClockTicks, policyVars, executionContext
<1>7. CASE HandleHmiCommand(message.content)
  <2>1. CASE TeachingCommand(message.content) \/ IgnoredCommand(message.content)
    BY <1>1, <1>3, <2>1 DEF TeachingCommand, IgnoredCommand, Forward
  <2>2. ASSUME NEW reset \in BOOLEAN, HandleRequest(reset) PROVE Goal
    BY <1>1, <1>2, <2>2 DEF HandleRequest, Forward, policyVars, executionContext
  <2>3. CASE MotionCommand(message.content)
    BY <1>1, <2>2, <2>3 DEF MotionCommand, Forward
  <2> QED
    BY <1>7, <2>1, <2>3 DEF HandleHmiCommand
<1> QED
  BY <1>4, <1>5, <1>6, <1>7 DEF HandleMessage

\* Where a message may take a run: nowhere, into a pause by a command, or into a
\* stop by the event of an input.
LEMMA MessageOnRun ==
    ASSUME PolicyFacts, activeState = "PATH_EXECUTION",
           NEW message \in Messages, HandleMessage(message)
    PROVE  \/ UNCHANGED <<activeState, executionMode>>
           \/ activeState' = "PAUSED" /\ IsCommand(message)
           \/ /\ activeState' \in Policy!StoppedStates
              /\ \E input \in StopInputs : Asserts(input, message)
<1> DEFINE Stays == UNCHANGED <<activeState, executionMode>>
<1>1. CASE message.type = "SAFETY" /\ HandleSafety(message.content)
  BY <1>1 DEF HandleSafety, Policy!UpdateSafety, Policy!stateVars
<1>2. CASE message.type = "EVENT" /\ HandleEvent(message.content)
  <2> USE DEF Policy!TransitionTo, Policy!StoppedStates, Asserts, StopInputs
  <2>1. PolicyEvent(message.content)
    BY <1>2 DEF HandleEvent, Forward
  <2>2. CASE message.content = "ESTOP_ASSERTED" /\ Policy!EstopAsserted
    BY <1>2, <2>2 DEF Policy!EstopAsserted
  <2>3. CASE Policy!EstopReleased \/ Policy!ProtectiveStopCleared
    BY <2>3 DEF Policy!EstopReleased, Policy!ProtectiveStopCleared, Policy!stateVars
  <2>4. CASE message.content = "PROTECTIVE_STOP_ASSERTED"
             /\ Policy!ProtectiveStopAsserted
    BY <1>2, <2>4 DEF Policy!ProtectiveStopAsserted
  <2>5. CASE message.content = "FAULT_DETECTED" /\ Policy!FaultDetected("RECOVERABLE")
    BY <1>2, <2>5 DEF Policy!FaultDetected, Policy!StopStateFor
  <2> QED
    BY <2>1, <2>2, <2>3, <2>4, <2>5 DEF PolicyEvent
<1>3. CASE HandleApproachControl(message.content) \/ HandleExecutionInputs
  BY <1>3 DEF HandleApproachControl, HandleExecutionInputs, policyVars
<1>4. CASE message.type = "HMI_COMMAND" /\ HandleHmiCommand(message.content)
  <2>1. CASE TeachingCommand(message.content) \/ IgnoredCommand(message.content)
    BY <2>1 DEF TeachingCommand, IgnoredCommand, NoEvent, policyVars
  <2>2. CASE Policy!PauseResume
    BY <1>4, <2>2
    DEF Policy!PauseResume, Policy!Pause, Policy!Resume, Policy!TransitionTo,
        Policy!PausableStates, Policy!LegacyExecutionStates, IsCommand
  <2>3. CASE Policy!ValidatePreview \/ Policy!StartReplay
    BY <2>3
    DEF Policy!ValidatePreview, Policy!StartReplay, Policy!PreviewAllowed,
        Policy!ReplayAllowed, Policy!Rejected, Policy!machineVars, Policy!stateVars
  <2>4. ASSUME NEW reset, HandleRequest(reset) PROVE Stays
    BY <2>4 DEF HandleRequest, policyVars
  <2>5. CASE MotionCommand(message.content)
    BY <2>2, <2>3, <2>4, <2>5 DEF MotionCommand, Forward
  <2> QED
    BY <1>4, <2>1, <2>5 DEF HandleHmiCommand
<1> QED
  BY <1>1, <1>2, <1>3, <1>4 DEF HandleMessage

\* A message takes a stopped robot out of the stop only by a command, and only
\* when no input is active.
LEMMA MessageOnStop ==
    ASSUME PolicyFacts, activeState \in Policy!StoppedStates,
           NEW message \in Messages, HandleMessage(message)
    PROVE  \/ activeState' \in Policy!StoppedStates
           \/ IsCommand(message) /\ Policy!SafetyReadyForRecovery
<1>1. CASE message.type = "SAFETY" /\ HandleSafety(message.content)
  BY <1>1 DEF HandleSafety, Policy!UpdateSafety, Policy!stateVars
<1>2. CASE HandleEvent(message.content)
  BY <1>2
  DEF HandleEvent, Forward, PolicyEvent, Policy!EstopAsserted, Policy!EstopReleased,
      Policy!ProtectiveStopAsserted, Policy!ProtectiveStopCleared,
      Policy!FaultDetected, Policy!StopStateFor, Policy!TransitionTo,
      Policy!stateVars, Policy!StoppedStates
<1>3. CASE HandleApproachControl(message.content) \/ HandleExecutionInputs
  BY <1>3 DEF HandleApproachControl, HandleExecutionInputs, policyVars
<1>4. CASE message.type = "HMI_COMMAND" /\ HandleHmiCommand(message.content)
  <2>1. Policy!OperatorEvent \/ UNCHANGED policyVars
    BY <1>4
    DEF HandleHmiCommand, TeachingCommand, IgnoredCommand, MotionCommand,
        HandleRequest, NoEvent, Forward, Policy!OperatorEvent
  <2>2. CASE Policy!OperatorEvent
    BY <1>4, <2>2, OperatorKeepsSafety DEF IsCommand
  <2> QED
    BY <2>1, <2>2 DEF policyVars
<1> QED
  BY <1>1, <1>2, <1>3, <1>4 DEF HandleMessage

\* With one turn of HMI a command is the last message of what is queued and still
\* to be posted.
LEMMA CommandIsLast ==
    ASSUME HmiTurns <= 1, BaseInv, QueueInv, queue # << >>, IsCommand(Head(queue))
    PROVE  Len(queue) = 1 /\ Tail(queue) = << >> /\ outbox = << >>
<1>1. Len(queue) \in Nat \ {0} /\ Head(queue) = queue[1]
  BY LenProperties, EmptySeq, HeadTailProperties DEF BaseInv, MessageInv
<1>2. Len(queue) = 1 /\ outbox = << >>
  <2>1. 1 \in 1 .. Len(queue)
    BY <1>1
  <2> QED
    BY <1>1, <2>1 DEF QueueInv, CommandsComeLast
<1>3. Tail(queue) \in Seq(Messages) /\ Len(Tail(queue)) = 0
  BY <1>2, HeadTailProperties DEF BaseInv, MessageInv
<1> QED
  BY <1>2, <1>3, EmptySeq

\* While a command is all that is left and an input is still published as active,
\* the snapshot in force shows it.
LEMMA ActiveInputIsShown ==
    ASSUME BaseInv, StopStream, published # {}, Len(queue) = 1, outbox = << >>,
           IsCommand(Head(queue))
    PROVE  ~Policy!SafetyReadyForRecovery
<1>1. stream = queue /\ queue[1] = Head(queue)
  <2>1. queue \in Seq(Messages)
    BY DEF BaseInv, MessageInv
  <2>2. queue # << >>
    BY <2>1, EmptySeq
  <2> QED
    BY <2>1, <2>2, ConcatEmptySeq, HeadTailProperties DEF stream
<1>2. PICK input \in published : TRUE
  OBVIOUS
<1>3. input \in StopInputs
  BY StreamOfMessages DEF BaseInv
<1>4. Backed(input, queue, safety, 2)
  <2>1. StreamInv(input, stream, safety, activeState, published)
    BY <1>3 DEF StopStream
  <2>2. StreamInv(input, queue, safety, activeState, published)
    BY <1>1, <2>1, Zenon
  <2>3. Backed(input, queue, safety, Len(queue) + 1)
    BY <1>2, <2>2 DEF StreamInv
  <2>4. Len(queue) + 1 = 2
    OBVIOUS
  <2> QED
    BY <2>3, <2>4, Zenon
<1>5. Shows(input, safety)
  <2>1. ~Asserts(input, queue[1])
    BY <1>1 DEF IsCommand, Asserts
  <2> QED
    BY <1>4, <2>1 DEF Backed
<1> QED
  BY <1>5 DEF Shows, Policy!SafetyReadyForRecovery

\* Taking a message never closes the relay, and keeps the reason it is closed for.
LEMMA TakeRelay ==
    ASSUME HmiTurns <= 1, BaseInv, QueueInv, StopStream, PublishedInv, RelayInv,
           TakeMessage
    PROVE  RelayInv'
<1> SUFFICES ASSUME relay' PROVE RelayInv'
  BY DEF RelayInv
<1>1. /\ queue # << >> /\ queue' = Tail(queue) /\ HandleMessage(Head(queue))
      /\ supervisor' = "RUNNING" /\ UNCHANGED <<outbox, published>>
  BY DEF TakeMessage, BatchEnds, producerVars
<1>2. relay /\ Head(queue) \in Known(published) /\ Head(queue) \in Messages
  BY <1>1, HeadTailProperties
  DEF HandleMessage, PublishedInv, BaseInv, MessageInv
<1>3. phase \in {"FOLLOW_TRAJECTORY", "DISABLE_WIRE_FEED"}
  BY <1>2 DEF RelayInv
<1>4. /\ EnterStopState
      /\ UNCHANGED phase \/ Entered("PATH_EXECUTION")
  BY <1>1, <1>3, MessageEntries
<1>5. activeState' \in {"PAUSED", "FAULT"} =>
          stopPhase' = "ENTER" \/ UNCHANGED <<activeState, stopPhase>>
  BY <1>4 DEF EnterStopState, Entered, Stop!EnterStop
<1>6. \/ activeState = "PATH_EXECUTION" /\ executionMode = "PRODUCTION"
      \/ /\ activeState \in Policy!StoppedStates
         /\ activeState = "FAULT" => stopPhase = "ENTER"
         /\ published # {}
  BY <1>1, <1>2 DEF RelayInv
<1>7. CASE activeState = "PATH_EXECUTION" /\ executionMode = "PRODUCTION"
  <2>1. UNCHANGED phase
    BY <1>4, <1>7 DEF Entered
  <2>2. CASE UNCHANGED <<activeState, executionMode>>
    BY <1>3, <1>7, <2>1, <2>2 DEF RelayInv
  <2>3. CASE activeState' = "PAUSED" /\ IsCommand(Head(queue))
    <3>1. queue' = << >> /\ outbox' = << >>
      BY <1>1, <2>3, CommandIsLast
    <3>2. stopPhase' = "ENTER"
      BY <1>5, <1>7, <2>3
    <3> QED
      BY <1>1, <1>3, <2>1, <2>3, <3>1, <3>2 DEF RelayInv
  <2>4. CASE /\ activeState' \in Policy!StoppedStates
             /\ \E input \in StopInputs : Asserts(input, Head(queue))
    <3>1. published' # {}
      BY <1>1, <1>2, <2>4 DEF Known
    <3>2. activeState' = "FAULT" => stopPhase' = "ENTER"
      BY <1>5, <1>7
    <3> QED
      BY <1>1, <1>3, <2>1, <2>4, <3>1, <3>2 DEF RelayInv
  <2> QED
    BY <1>1, <1>2, <1>7, <2>2, <2>3, <2>4, MessageOnRun DEF BaseInv
<1>8. CASE /\ activeState \in Policy!StoppedStates
           /\ activeState = "FAULT" => stopPhase = "ENTER"
           /\ published # {}
  <2>1. ~(IsCommand(Head(queue)) /\ Policy!SafetyReadyForRecovery)
    BY <1>1, <1>8, CommandIsLast, ActiveInputIsShown
  <2>2. activeState' \in Policy!StoppedStates
    BY <1>1, <1>2, <1>8, <2>1, MessageOnStop DEF BaseInv
  <2>3. UNCHANGED phase
    BY <1>4, <2>2 DEF Entered, Policy!StoppedStates
  <2>4. activeState' = "FAULT" => stopPhase' = "ENTER"
    BY <1>5, <1>8
  <2> QED
    BY <1>1, <1>3, <1>8, <2>2, <2>3, <2>4 DEF RelayInv
<1> QED
  BY <1>6, <1>7, <1>8

\* One step of PATH_EXECUTION leaves the relay closed only while it goes on with a
\* Production run.
LEMMA ExecutionRelay ==
    ASSUME RelayReplies = {TRUE}, RunContextIsCurrent, RelayInv, RunPathExecution,
           relay'
    PROVE  /\ phase' \in {"FOLLOW_TRAJECTORY", "DISABLE_WIRE_FEED"}
           /\ activeState' = "PATH_EXECUTION" /\ executionMode' = "PRODUCTION"
<1>1. /\ activeState = "PATH_EXECUTION" /\ mode = executionMode
      /\ relay => phase \in {"FOLLOW_TRAJECTORY", "DISABLE_WIRE_FEED"}
      /\ relay => executionMode = "PRODUCTION"
  BY DEF RunPathExecution, RunContextIsCurrent, RelayInv, Policy!StoppedStates
<1> DEFINE in == ExecutionInputs
<1> HIDE DEF in
<1>2. ASSUME Execution!StepFails(in) PROVE ~relay'
  BY <1>2
  DEF Execution!StepFails, Execution!FailOnStopInput, Execution!PhaseFails,
      Execution!Fail, Execution!SetWireFeed
<1>3. CASE Execution!StepCompletes(in)
  BY <1>1, <1>3
  DEF Execution!StepCompletes, Execution!executionVars, Execution!feedVars
<1>4. CASE Execution!StepRuns(in) /\ UNCHANGED policyVars
  <2>1. ~Execution!StartAbort(in)
    BY DEF Execution!StartAbort, Execution!BeginAbort, Execution!SetWireFeed
  <2>2. CASE Execution!CheckPrerequisites(in) \/ Execution!AdvanceRetraction
    BY <1>1, <2>2
    DEF Execution!CheckPrerequisites, Execution!AdvanceRetraction, Execution!feedVars
  <2>3. CASE Execution!ConfigureWireFeed
    BY <1>1, <1>4, <2>3
    DEF Execution!ConfigureWireFeed, Execution!SetWireFeed, policyVars
  <2>4. CASE Execution!FollowTrajectory(in)
    BY <1>1, <1>4, <2>4
    DEF Execution!FollowTrajectory, Execution!feedVars, policyVars
  <2>5. ~Execution!DisableWireFeed
    BY DEF Execution!DisableWireFeed, Execution!SetWireFeed
  <2>6. ASSUME NEW clear, Execution!VerifyClearance(clear) PROVE FALSE
    BY <1>1, <2>6 DEF Execution!VerifyClearance, Execution!feedVars
  <2>7. ~Execution!ControlledStopEnds /\ ~Execution!ControlledStopWaits
    BY <1>1
    DEF Execution!ControlledStopEnds, Execution!ControlledStopWaits,
        Execution!executionVars, Execution!feedVars
  <2> QED
    BY <1>4, <2>1, <2>2, <2>3, <2>4, <2>5, <2>6, <2>7 DEF Execution!StepRuns
<1> QED
  BY <1>2, <1>3, <1>4 DEF RunPathExecution, in

\* The step of PAUSED that follows the pause opens the relay.
LEMMA PausedRelay ==
    ASSUME RelayReplies = {TRUE}, StopIsOnItsWay, RelayInv, RunPaused, relay
    PROVE  ~relay'
<1>1. /\ activeState = "PAUSED" /\ stopPhase = "ENTER"
      /\ queue = << >> /\ outbox = << >>
  BY DEF RunPaused, RelayInv, Policy!StoppedStates
<1>2. ~PausedStopInput
  BY <1>1 DEF StopIsOnItsWay, PausedStopInput, Policy!StoppedStates
<1>3. ~Stop!PausedFails(PausedStopInput)
  BY <1>1, <1>2 DEF Stop!PausedFails
<1> QED
  BY <1>1, <1>3 DEF RunPaused, Stop!PausedRuns, Stop!OpenRelay

\* So does the step of a stop state.
LEMMA StopStateRelay ==
    ASSUME RelayReplies = {TRUE}, RelayInv, RunStopState, relay
    PROVE  ~relay'
BY DEF RunStopState, RelayInv, Stop!FaultStep, Stop!EmergencyStopStep, Stop!OpenRelay

\* After a step the relay is closed for a Production run only.
LEMMA StepRelay ==
    ASSUME RelayReplies = {TRUE}, RunContextIsCurrent, StopIsOnItsWay, RelayInv,
           RunActiveState
    PROVE  RelayInv'
<1> SUFFICES ASSUME relay' PROVE RelayInv'
  BY DEF RelayInv
<1>1. CASE RunPathExecution
  BY <1>1, ExecutionRelay DEF RelayInv
<1>2. CASE RunPaused \/ RunStopState
  <2>1. relay
    BY <1>2
    DEF RunPaused, RunStopState, Stop!PausedRuns, Stop!PausedFails, Stop!stopVars,
        Stop!FaultStep, Stop!EmergencyStopStep, Stop!OpenRelay
  <2> QED
    BY <1>2, <2>1, PausedRelay, StopStateRelay
<1>3. CASE RunBoot \/ RunHoming \/ RunIdle \/ RunTeaching \/ RunPathValidation
           \/ RunApproach
  BY <1>3
  DEF RunBoot, RunHoming, RunIdle, RunTeaching, RunPathValidation, RunApproach,
      RelayInv, Policy!StoppedStates
<1> QED
  BY <1>1, <1>2, <1>3 DEF RunActiveState

\* The relay keeps its invariant in every step.
LEMMA RelayNext ==
    ASSUME HmiTurns <= 1, RelayReplies = {TRUE}, BaseInv, QueueInv, StopStream,
           PublishedInv, RunContextIsCurrent, StopIsOnItsWay, RelayInv, [Next]_vars
    PROVE  RelayInv'
<1>1. CASE Step
  BY <1>1, StepRelay DEF Step
<1>2. CASE Tick \/ PublishRound \/ PublishPost \/ HmiTurn
  <2> SUFFICES ASSUME relay' PROVE RelayInv'
    BY DEF RelayInv
  <2>1. supervisor = "BLOCKED"
    BY <1>2 DEF Tick, PublishRound, PublishPost, HmiTurn, HmiMayRun
  <2>2. UNCHANGED <<phase, activeState, executionMode>>
    BY <1>2
    DEF Tick, PublishRound, PublishPost, HmiTurn, policyVars, contextVars,
        executionContext
  <2>3. relay
    BY <1>2
    DEF Tick, PublishRound, PublishPost, HmiTurn, contextVars, Stop!OpenRelay
  <2> QED
    BY <2>1, <2>2, <2>3 DEF RelayInv
<1>3. CASE UNCHANGED vars
  BY <1>3
  DEF vars, policyVars, contextVars, executionContext, taskVars, producerVars,
      RelayInv
<1> QED
  BY <1>1, <1>2, <1>3, TakeRelay DEF Next

\* Between two cycles nothing of a cycle is left over: no request of the operator,
\* and no closed relay but that of a Production run that follows its trajectory.
\* It takes one turn of HMI per tick, and a relay that obeys the command to open.
THEOREM NothingIsLeftOver ==
    ASSUME Sizes, HmiTurns <= 1, RelayReplies = {TRUE}
    PROVE  Spec => []TaskInv
<1>1. Init => RelayInv
  BY DEF Init, Execution!Init, RelayInv
<1>2. BaseInv /\ QueueInv /\ StopStream /\ PublishedInv /\ RunContextIsCurrent
      /\ StopIsOnItsWay /\ RelayInv /\ [Next]_vars => RelayInv'
  BY RelayNext
<1>3. RelayInv => RelayOnlyInProduction
  BY DEF RelayInv, RelayOnlyInProduction
<1>4. RequestInv => RequestIsCurrent
  BY DEF RequestInv, RequestIsCurrent
<1>5. BaseInv /\ QueueInv /\ RequestInv /\ WrapperInv => TaskTypeOK
  <2> SUFFICES ASSUME BaseInv, QueueInv, RequestInv, WrapperInv PROVE TaskTypeOK
    OBVIOUS
  <2>1. taken \in 0 .. MaxMessagesPerCycle
    <3>1. Len(queue) \in Nat /\ Len(outbox) \in Nat /\ hmiTurns \in Nat /\ taken \in Nat
      BY LenProperties, SupervisorTaskAssumption DEF BaseInv, MessageInv
    <3> QED
      BY <3>1, SupervisorTaskAssumption, RoundSizeType
      DEF BaseInv, MessageInv, QueueInv, RoomInv, Sizes
  <2>2. ASSUME NEW i \in 1 .. Len(queue) PROVE queue[i].type \in MessageTypes
    <3>1. queue[i] \in Messages
      BY <2>2, ElementOfSeq DEF BaseInv, MessageInv
    <3> QED
      BY <3>1 DEF Messages, Published, MessageTypes
  <2>3. Policy!TypeOK
    BY DEF BaseInv, PolicyFacts, Policy!PolicyInv
  <2> QED
    BY <2>1, <2>2, <2>3
    DEF BaseInv, MessageInv, RequestInv, WrapperInv, TaskTypeOK
<1>6. BaseInv /\ QueueInv /\ RequestInv /\ WrapperInv /\ RelayInv => TaskInv
  BY <1>3, <1>4, <1>5 DEF TaskInv
<1> QED
  BY <1>1, <1>2, <1>6, BaseInvariant, QueueInvariant, RequestInvariant,
     StreamInvariant, PublishedInvariant, WrapperInvariant,
     RunContextStaysCurrent, StopStaysOnItsWay, PTL DEF Spec
=============================================================================
