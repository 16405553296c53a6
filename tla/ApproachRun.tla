------------------------------ MODULE ApproachRun ------------------------------
(***************************************************************************)
(* Approach under the dispatch of StateMachine/supervisor_task.c: the      *)
(* state is entered with a request, stepped once per cycle with the        *)
(* control inputs that were published last, and interrupted by PAUSED,     *)
(* which holds the robot without telling it, or by a stop.                 *)
(***************************************************************************)
EXTENDS Approach

CONSTANT RouteLegs      \* the lengths of the routes that are requested

ASSUME ApproachRunAssumption == RouteLegs \subseteq 1 .. MaxLegs

VARIABLES
    dispatched,     \* what run_active_state() does with the state
    granted         \* the permission in approach_control

runVars == <<approachVars, dispatched, granted>>

(***************************************************************************)
(* STEPPED: APPROACH is active.  PAUSED: PAUSED is active and will resume  *)
(* it.  INACTIVE: any other state.                                         *)
(***************************************************************************)
Dispatches == {"INACTIVE", "STEPPED", "PAUSED"}

RunInit == Init /\ dispatched = "INACTIVE" /\ granted = FALSE

\* enter_active_state() on the way from IDLE, which has held the robot.
Start ==
    /\ dispatched = "INACTIVE"
    /\ \E valid \in BOOLEAN, legs \in RouteLegs : Enter(valid, legs)
    /\ dispatched' = "STEPPED"
    /\ granted' = FALSE

\* One cycle of the active state; its result ends the dispatch.
Cycle ==
    /\ dispatched = "STEPPED"
    /\ \E in \in Inputs :
           /\ in.granted = granted
           /\ \/ StepRuns(in) /\ UNCHANGED dispatched
              \/ StepFails(in) /\ dispatched' = "INACTIVE"
              \/ StepCompletes(in) /\ dispatched' = "INACTIVE"
    /\ UNCHANGED granted

\* The next APPROACH_CONTROL message.
PublishControl ==
    /\ dispatched # "INACTIVE"
    /\ granted' = ~granted
    /\ UNCHANGED <<approachVars, dispatched>>

PauseRun ==
    /\ dispatched = "STEPPED"
    /\ dispatched' = "PAUSED"
    /\ UNCHANGED <<approachVars, granted>>

\* command_hold() of state_paused_step()
PausedStep ==
    /\ dispatched = "PAUSED"
    /\ target' = "HELD"
    /\ UNCHANGED <<outcomeVars, request, routeVars, activeLeg, sampleIndex,
                   validationIndex, verificationVars, pausedDuringVerification,
                   historyVars, dispatched, granted>>

\* Mutant: a resumed APPROACH starts its leg again without a new plan.
BugResumeRestartsLeg ==
    /\ dispatched = "PAUSED"
    /\ dispatched' = "STEPPED"
    /\ sampleIndex' = 0
    /\ activeLeg' = IF phase = "EXECUTE_LEG" THEN 0 ELSE activeLeg
    /\ sent' = {}
    /\ UNCHANGED <<outcomeVars, request, routeVars, validationIndex,
                   verificationVars, pausedDuringVerification, target, checked,
                   granted>>

\* enter_active_state() leaves a paused APPROACH as it was.
ResumeRun ==
    /\ dispatched = "PAUSED"
    /\ dispatched' = "STEPPED"
    /\ UNCHANGED <<approachVars, granted>>

\* A stop event; FAULT and EMERGENCY_STOP hold the robot.
Interrupt ==
    /\ dispatched # "INACTIVE"
    /\ dispatched' = "INACTIVE"
    /\ UNCHANGED <<approachVars, granted>>

RunNext ==
    \/ Start
    \/ Cycle
    \/ PublishControl
    \/ PauseRun
    \/ PausedStep
    \/ ResumeRun
    \/ Interrupt

RunSpec == RunInit /\ [][RunNext]_runVars

\* The supervisor task runs every period.
FairRunSpec == RunSpec /\ WF_runVars(Cycle)

-----------------------------------------------------------------------------
(* Properties.                                                             *)

\* Every field holds a value of its C type, and no counter passes its bound.
RunTypeOK ==
    /\ phase \in Phases
    /\ result \in Results
    /\ error \in Errors
    /\ request \in [valid : BOOLEAN, legs : 1 .. MaxLegs]
    /\ totalLegs \in 0 .. MaxLegs
    /\ activeLeg \in 0 .. totalLegs
    /\ legSamples \in [Legs -> LegSamples \cup {0}]
    /\ sampleIndex \in 0 .. MaxLegSamples - 1
    /\ validationIndex \in 0 .. MaxLegSamples
    /\ stableCycles \in 0 .. RequiredStableCycles
    /\ verificationCycles \in 0 .. MaximumVerificationCycles
    /\ pausedDuringVerification \in BOOLEAN
    /\ target \in Targets
    /\ checked \in SUBSET (Legs \X (0 .. MaxLegSamples - 1))
    /\ sent \in SUBSET (Legs \X (0 .. MaxLegSamples - 1))
    /\ dispatched \in Dispatches
    /\ granted \in BOOLEAN

\* "PREVALIDATE ENTIRE ROUTE BEFORE FIRST MOTION COMMAND": the robot moves
\* only along a route whose every sample was checked since it was planned, for
\* a valid request, and after every pause that changed where it starts.
RouteCheckedBeforeMotion ==
    sent # {} => request.valid /\ checked = RouteSamples

\* The samples of a route are sent in order and none is left out, over the
\* boundaries of its legs and over pauses.
RouteWithoutGaps ==
    \A place \in sent, before \in RouteSamples :
        \/ before[1] < place[1]
        \/ before[1] = place[1] /\ before[2] < place[2]
        => before \in sent

\* The target is verified after the whole route was sent, and an APPROACH that
\* completes leaves the drives at the exact units PATH_EXECUTION starts with.
CompletionAtTarget ==
    /\ phase \in {"VERIFY_TARGET", "COMPLETE"} => sent = RouteSamples
    /\ phase = "COMPLETE" => target = "FINAL"

\* The first sample of a route is sent to a robot that stands or is held: no
\* route is planned while the drives follow an earlier one.
RouteStartsFromRest ==
    [][sent = {} /\ sent' # {} => target \in {"STANDING", "HELD"}]_runVars

\* An APPROACH that is stepped with a standing permission ends: at its target,
\* or with a failure.
ApproachEnds == []<>(dispatched # "STEPPED" \/ ~granted)

\* The samples of the route before sample `index' of leg `last'.
Before(last, index) ==
    {place \in RouteSamples :
        place[1] < last \/ (place[1] = last /\ place[2] < index)}

Following ==
    \/ phase = "EXECUTE_LEG"
    \/ phase = "PAUSED" /\ ~pausedDuringVerification
Verifying ==
    \/ phase = "VERIFY_TARGET"
    \/ phase = "PAUSED" /\ pausedDuringVerification

PlanningPhases == {"CHECK_REQUEST", "LOAD_TARGET", "READ_START", "PREPARE_LEG"}
MotionPhases == {"WAIT_PERMISSION", "EXECUTE_LEG", "PAUSED", "VERIFY_TARGET"}

PhaseRuns ==
    result = "RUNNING" => phase \in PlanningPhases \cup {"VALIDATE_LEG"} \cup MotionPhases

CountsWithinLimits ==
    phase # "COMPLETE" =>
        /\ stableCycles < RequiredStableCycles
        /\ verificationCycles < MaximumVerificationCycles

NothingDoneBeforePlan == phase \in PlanningPhases => checked = {} /\ sent = {}

RequestAccepted ==
    phase \in {"READ_START", "PREPARE_LEG", "VALIDATE_LEG"} \cup MotionPhases =>
        request.valid

RouteHasLegs ==
    phase \in {"PREPARE_LEG", "VALIDATE_LEG", "WAIT_PERMISSION"} => totalLegs > 0

PlannedTo(legs) == \A leg \in Legs : leg < legs => legSamples[leg] \in LegSamples

LegsPlanned ==
    /\ phase = "PREPARE_LEG" => PlannedTo(activeLeg)
    /\ phase \in {"VALIDATE_LEG"} \cup MotionPhases => PlannedTo(totalLegs)

ValidationReach ==
    phase = "VALIDATE_LEG" =>
        /\ sent = {}
        /\ checked = Before(activeLeg, validationIndex)
        /\ activeLeg < totalLegs => validationIndex <= legSamples[activeLeg]
        /\ activeLeg = totalLegs => validationIndex = 0

RouteIsChecked == phase \in MotionPhases => checked = RouteSamples

NothingSentBeforePermission ==
    phase = "WAIT_PERMISSION" => sent = {} /\ activeLeg = 0 /\ sampleIndex = 0

FollowingReach ==
    Following =>
        /\ activeLeg < totalLegs
        /\ sampleIndex < legSamples[activeLeg]
        /\ sent = Before(activeLeg, sampleIndex)

VerifyingReach == Verifying => sent = RouteSamples /\ sent # {}

AtRestBeforeRoute == result = "RUNNING" /\ sent = {} => target \in {"STANDING", "HELD"}

\* How far the plan and both histories reach, phase by phase: the legs are
\* planned before they are validated, validated before they are followed, and
\* what was checked and sent is told by the indices of the state.
PhaseInv ==
    /\ PhaseRuns
    /\ CountsWithinLimits
    /\ NothingDoneBeforePlan
    /\ RequestAccepted
    /\ RouteHasLegs
    /\ LegsPlanned
    /\ ValidationReach
    /\ RouteIsChecked
    /\ NothingSentBeforePermission
    /\ FollowingReach
    /\ VerifyingReach
    /\ AtRestBeforeRoute

RouteInv ==
    /\ RunTypeOK
    /\ PhaseInv
    /\ RouteCheckedBeforeMotion
    /\ RouteWithoutGaps
    /\ CompletionAtTarget

\* The supervisor leaves the state as soon as it reports its result.
DispatchedRuns == dispatched # "INACTIVE" => result = "RUNNING"

\* What every step preserves, as one inductive invariant.
RunInv == RouteInv /\ DispatchedRuns
=============================================================================
