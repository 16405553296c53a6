------------------------------- MODULE Approach -------------------------------
(***************************************************************************)
(* StateMachine/States/state_approach.c: the state that moves the robot    *)
(* from where it stands to sample 0 of the validated trajectory, over a    *)
(* route of one leg for each clearance pose and one to the target.         *)
(*                                                                         *)
(* Positions are abstracted to places on the route: a leg, and a sample of *)
(* its joint trajectory.  Every reading of the drives, every write to them *)
(* and every check of a pose may fail.                                     *)
(***************************************************************************)
EXTENDS Naturals

CONSTANTS
    MaxLegs,                    \* APPROACH_MAX_LEGS
    MaxLegSamples,              \* the longest leg, in samples
    ValidationSamplesPerStep,
    RequiredStableCycles,
    MaximumVerificationCycles

ASSUME ApproachAssumption ==
    /\ MaxLegs \in Nat \ {0}
    /\ MaxLegSamples \in Nat \ {0, 1}
    /\ ValidationSamplesPerStep \in Nat \ {0}
    /\ RequiredStableCycles \in Nat \ {0}
    /\ MaximumVerificationCycles \in Nat \ {0}

VARIABLES
    phase, result, error,
    request,                    \* what the state was entered with
    totalLegs, activeLeg,
    legSamples,                 \* the length of each prepared leg
    sampleIndex, validationIndex,
    stableCycles, verificationCycles,
    pausedDuringVerification,
    target,                     \* where the drives have been told to be
    \* history, of the route as it was last planned
    checked,                    \* the samples whose pose was checked
    sent                        \* the samples written to the drives

outcomeVars == <<phase, result, error>>
routeVars == <<totalLegs, legSamples>>
verificationVars == <<stableCycles, verificationCycles>>
historyVars == <<checked, sent>>
approachVars ==
    <<outcomeVars, request, routeVars, activeLeg, sampleIndex, validationIndex,
      verificationVars, pausedDuringVerification, target, historyVars>>

-----------------------------------------------------------------------------
Phases ==
    {"IDLE", "CHECK_REQUEST", "LOAD_TARGET", "READ_START", "PREPARE_LEG",
     "VALIDATE_LEG", "WAIT_PERMISSION", "EXECUTE_LEG", "PAUSED",
     "VERIFY_TARGET", "COMPLETE", "ABORTED", "FAILED"}

Results == {"NONE", "RUNNING", "COMPLETE", "ABORTED", "FAILED"}

\* Only the two reasons of an abort are told apart by the supervisor.
Errors == {"NONE", "RESET_REQUESTED", "HOME_REQUESTED", "OTHER"}

(***************************************************************************)
(* ApproachControlInputs.  `stop' is estop_active or external_fault_active,*)
(* `granted' is motion_permission without pause_requested and without      *)
(* protective_stop_active: the step never separates them.                  *)
(***************************************************************************)
Inputs == [stop : BOOLEAN, reset : BOOLEAN, home : BOOLEAN, granted : BOOLEAN]

(***************************************************************************)
(* STANDING is where the drives were told to be before the state was       *)
(* entered, HELD the measured position, ROUTE a sample of a leg, and FINAL *)
(* the exact position units of sample 0 of the trajectory.                 *)
(***************************************************************************)
Targets == {"STANDING", "HELD", "ROUTE", "FINAL"}

Legs == 0 .. MaxLegs - 1
LegSamples == 2 .. MaxLegSamples
RouteSamples ==
    {place \in Legs \X (0 .. MaxLegSamples - 1) :
        place[1] < totalLegs /\ place[2] < legSamples[place[1]]}

Init ==
    /\ phase = "IDLE"
    /\ result = "NONE"
    /\ error = "NONE"
    /\ request = [valid |-> FALSE, legs |-> 1]
    /\ totalLegs = 0
    /\ activeLeg = 0
    /\ legSamples = [leg \in Legs |-> 0]
    /\ sampleIndex = 0
    /\ validationIndex = 0
    /\ stableCycles = 0
    /\ verificationCycles = 0
    /\ pausedDuringVerification = FALSE
    /\ target = "STANDING"
    /\ checked = {}
    /\ sent = {}

\* state_approach_enter(): everything starts afresh, nothing is commanded.
Enter(valid, legs) ==
    /\ phase' = "CHECK_REQUEST"
    /\ result' = "RUNNING"
    /\ error' = "NONE"
    /\ request' = [valid |-> valid, legs |-> legs]
    /\ totalLegs' = 0
    /\ activeLeg' = 0
    /\ legSamples' = [leg \in Legs |-> 0]
    /\ sampleIndex' = 0
    /\ validationIndex' = 0
    /\ stableCycles' = 0
    /\ verificationCycles' = 0
    /\ pausedDuringVerification' = FALSE
    /\ target' = "STANDING"
    /\ checked' = {}
    /\ sent' = {}

-----------------------------------------------------------------------------
(* The checks every step makes before it looks at its phase.               *)

\* approach_fail()
Fail ==
    /\ phase' = "FAILED"
    /\ result' = "FAILED"
    /\ error' = "OTHER"
    /\ UNCHANGED <<request, routeVars, activeLeg, sampleIndex, validationIndex,
                   verificationVars, pausedDuringVerification, historyVars>>

\* approach_abort(): at once, whatever the robot is doing.
Abort(reason) ==
    /\ phase' = "ABORTED"
    /\ result' = "ABORTED"
    /\ error' = reason
    /\ UNCHANGED <<request, routeVars, activeLeg, sampleIndex, validationIndex,
                   verificationVars, pausedDuringVerification, target,
                   historyVars>>

StopInput(in) == result = "RUNNING" /\ in.stop

\* RESET wins over HOME when both are pending.
Requested(in) == result = "RUNNING" /\ ~in.stop /\ (in.reset \/ in.home)

AbortOnRequest(in) ==
    /\ Requested(in)
    /\ Abort(IF in.reset THEN "RESET_REQUESTED" ELSE "HOME_REQUESTED")

Proceeds(in) == result = "RUNNING" /\ ~in.stop /\ ~in.reset /\ ~in.home

-----------------------------------------------------------------------------
(* Planning the route.                                                     *)

CheckRequest ==
    /\ phase = "CHECK_REQUEST"
    /\ phase' = "LOAD_TARGET"
    /\ UNCHANGED <<result, error, request, routeVars, activeLeg, sampleIndex,
                   validationIndex, verificationVars, pausedDuringVerification,
                   target, historyVars>>

\* The trajectory is ready, is the one asked for, and its sample 0 is read.
LoadTarget ==
    /\ phase = "LOAD_TARGET"
    /\ request.valid
    /\ phase' = "READ_START"
    /\ UNCHANGED <<result, error, request, routeVars, activeLeg, sampleIndex,
                   validationIndex, verificationVars, pausedDuringVerification,
                   target, historyVars>>

\* The route starts at the measured position: build_route_from_request().
ReadStart ==
    /\ phase = "READ_START"
    /\ phase' = "PREPARE_LEG"
    /\ totalLegs' = request.legs
    /\ activeLeg' = 0
    /\ UNCHANGED <<result, error, request, legSamples, sampleIndex,
                   validationIndex, verificationVars, pausedDuringVerification,
                   target, historyVars>>

\* prepare_leg() plans one leg per step, with the duration its limits ask for.
PrepareLeg ==
    /\ phase = "PREPARE_LEG"
    /\ \/ /\ activeLeg < totalLegs
          /\ \E samples \in LegSamples :
                 legSamples' = [legSamples EXCEPT ![activeLeg] = samples]
          /\ activeLeg' = activeLeg + 1
          /\ UNCHANGED <<phase, validationIndex>>
       \/ /\ activeLeg >= totalLegs
          /\ activeLeg' = 0
          /\ validationIndex' = 0
          /\ phase' = "VALIDATE_LEG"
          /\ UNCHANGED legSamples
    /\ UNCHANGED <<result, error, request, totalLegs, sampleIndex,
                   verificationVars, pausedDuringVerification, target,
                   historyVars>>

\* The samples of the active leg that the budget of one step reaches.
ChecksOfStep ==
    {activeLeg} \X {i \in 0 .. MaxLegSamples - 1 :
                        /\ validationIndex <= i
                        /\ i < validationIndex + ValidationSamplesPerStep
                        /\ i < legSamples[activeLeg]}

\* Limits and collisions are checked in steps of a fixed budget; the leg is
\* left when the budget reaches beyond its end.
ValidateLeg ==
    /\ phase = "VALIDATE_LEG"
    /\ activeLeg < totalLegs
    /\ checked' = checked \cup ChecksOfStep
    /\ IF validationIndex + ValidationSamplesPerStep > legSamples[activeLeg]
       THEN activeLeg' = activeLeg + 1 /\ validationIndex' = 0
       ELSE /\ validationIndex' = validationIndex + ValidationSamplesPerStep
            /\ UNCHANGED activeLeg
    /\ UNCHANGED <<outcomeVars, request, routeVars, sampleIndex, verificationVars,
                   pausedDuringVerification, target, sent>>

RouteValidated ==
    /\ phase = "VALIDATE_LEG"
    /\ activeLeg >= totalLegs
    /\ activeLeg' = 0
    /\ sampleIndex' = 0
    /\ phase' = "WAIT_PERMISSION"
    /\ UNCHANGED <<result, error, request, routeVars, validationIndex,
                   verificationVars, pausedDuringVerification, target,
                   historyVars>>

-----------------------------------------------------------------------------
(* Moving along the route.                                                 *)

WaitPermission(in) ==
    /\ phase = "WAIT_PERMISSION"
    /\ IF in.granted
       THEN phase' = "EXECUTE_LEG" /\ UNCHANGED target
       ELSE target' = "HELD" /\ UNCHANGED phase
    /\ UNCHANGED <<result, error, request, routeVars, activeLeg, sampleIndex,
                   validationIndex, verificationVars, pausedDuringVerification,
                   historyVars>>

LastSampleOfLeg == sampleIndex = legSamples[activeLeg] - 1

\* The last sample of the route is written in the units of the trajectory.
NextTarget ==
    IF LastSampleOfLeg /\ activeLeg + 1 = totalLegs THEN "FINAL" ELSE "ROUTE"

\* One sample is written to the drives.
ExecuteLeg(in) ==
    /\ phase = "EXECUTE_LEG"
    /\ in.granted
    /\ target' = NextTarget
    /\ sent' = sent \cup {<<activeLeg, sampleIndex>>}
    /\ IF LastSampleOfLeg
       THEN /\ activeLeg' = activeLeg + 1
            /\ phase' = IF activeLeg' >= totalLegs
                        THEN "VERIFY_TARGET" ELSE "EXECUTE_LEG"
            /\ sampleIndex' = 0
       ELSE /\ sampleIndex' = sampleIndex + 1
            /\ UNCHANGED <<activeLeg, phase>>
    /\ UNCHANGED <<result, error, request, routeVars, validationIndex,
                   verificationVars, pausedDuringVerification, checked>>

\* A permission that is withdrawn holds the robot where it is.
HoldMotion(in) ==
    /\ phase \in {"EXECUTE_LEG", "VERIFY_TARGET"}
    /\ ~in.granted
    /\ target' = "HELD"
    /\ phase' = "PAUSED"
    /\ pausedDuringVerification' = (phase = "VERIFY_TARGET")
    /\ UNCHANGED <<result, error, request, routeVars, activeLeg, sampleIndex,
                   validationIndex, verificationVars, historyVars>>

StayPaused(in) ==
    /\ phase = "PAUSED"
    /\ ~in.granted
    /\ target' = "HELD"
    /\ UNCHANGED <<outcomeVars, request, routeVars, activeLeg, sampleIndex,
                   validationIndex, verificationVars, pausedDuringVerification,
                   historyVars>>

ResumeVerification(in) ==
    /\ phase = "PAUSED"
    /\ in.granted
    /\ pausedDuringVerification
    /\ target' = "HELD"
    /\ pausedDuringVerification' = FALSE
    /\ phase' = "VERIFY_TARGET"
    /\ UNCHANGED <<result, error, request, routeVars, activeLeg, sampleIndex,
                   validationIndex, verificationVars, historyVars>>

\* Mutant: the motion goes on with a route that no longer starts where the
\* robot stands.
BugReplanKeepsRoute(in) ==
    /\ phase = "PAUSED"
    /\ in.granted
    /\ ~pausedDuringVerification
    /\ target' = "HELD"
    /\ totalLegs' = totalLegs - activeLeg
    /\ activeLeg' = 0
    /\ sampleIndex' = 0
    /\ phase' = "WAIT_PERMISSION"
    /\ checked' = {}
    /\ sent' = {}
    /\ UNCHANGED <<result, error, request, legSamples, validationIndex,
                   verificationVars, pausedDuringVerification>>

\* replan_from_actual(): the legs that are left, from the measured position.
Replan(in) ==
    /\ phase = "PAUSED"
    /\ in.granted
    /\ ~pausedDuringVerification
    /\ target' = "HELD"
    /\ totalLegs' = totalLegs - activeLeg
    /\ activeLeg' = 0
    /\ sampleIndex' = 0
    /\ validationIndex' = 0
    /\ phase' = "PREPARE_LEG"
    /\ checked' = {}
    /\ sent' = {}
    /\ UNCHANGED <<result, error, request, legSamples, verificationVars,
                   pausedDuringVerification>>

-----------------------------------------------------------------------------
(* Verifying the target.                                                   *)

\* Mutant: only the cycles off the target are counted against the limit, and a
\* stable one starts that count again.
BugVerifyWithoutLimit(in, within) ==
    /\ phase = "VERIFY_TARGET"
    /\ in.granted
    /\ target' = "FINAL"
    /\ verificationCycles' = IF within THEN 0 ELSE verificationCycles + 1
    /\ stableCycles' = IF within THEN stableCycles + 1 ELSE 0
    /\ stableCycles' < RequiredStableCycles
    /\ verificationCycles' < MaximumVerificationCycles
    /\ UNCHANGED <<outcomeVars, request, routeVars, activeLeg, sampleIndex,
                   validationIndex, pausedDuringVerification, historyVars>>

\* Sample 0 is commanded again in every cycle.
VerifyTarget(in, within) ==
    /\ phase = "VERIFY_TARGET"
    /\ in.granted
    /\ target' = "FINAL"
    /\ verificationCycles' = verificationCycles + 1
    /\ stableCycles' = IF within THEN stableCycles + 1 ELSE 0
    /\ stableCycles' < RequiredStableCycles
    /\ verificationCycles' < MaximumVerificationCycles
    /\ UNCHANGED <<outcomeVars, request, routeVars, activeLeg, sampleIndex,
                   validationIndex, pausedDuringVerification, historyVars>>

TargetReached(in) ==
    /\ phase = "VERIFY_TARGET"
    /\ in.granted
    /\ target' = "FINAL"
    /\ verificationCycles' = verificationCycles + 1
    /\ stableCycles' = stableCycles + 1
    /\ stableCycles' >= RequiredStableCycles
    /\ phase' = "COMPLETE"
    /\ result' = "COMPLETE"
    /\ UNCHANGED <<error, request, routeVars, activeLeg, sampleIndex,
                   validationIndex, pausedDuringVerification, historyVars>>

(***************************************************************************)
(* A phase fails: the request is not valid, a leg exceeds a limit, a pose  *)
(* collides, a drive cannot be read or written, the robot does not follow, *)
(* or the verification takes too long.  A failed write may have reached    *)
(* the drives.                                                             *)
(***************************************************************************)
PhaseFails(in) ==
    /\ Fail
    /\ \/ UNCHANGED target
       \/ phase = "EXECUTE_LEG" /\ in.granted /\ target' = NextTarget
       \/ phase = "VERIFY_TARGET" /\ in.granted /\ target' = "FINAL"
       \/ /\ \/ phase = "PAUSED"
             \/ phase \in {"WAIT_PERMISSION", "EXECUTE_LEG", "VERIFY_TARGET"}
                    /\ ~in.granted
          /\ target' = "HELD"

-----------------------------------------------------------------------------
(* One call of state_approach_step(): by its return value.                 *)

StepRuns(in) ==
    /\ Proceeds(in)
    /\ \/ CheckRequest
       \/ LoadTarget
       \/ ReadStart
       \/ PrepareLeg
       \/ ValidateLeg
       \/ RouteValidated
       \/ WaitPermission(in)
       \/ ExecuteLeg(in)
       \/ HoldMotion(in)
       \/ StayPaused(in)
       \/ ResumeVerification(in)
       \/ Replan(in)
       \/ \E within \in BOOLEAN : VerifyTarget(in, within)

StepFails(in) ==
    \/ StopInput(in) /\ Fail /\ UNCHANGED target
    \/ Proceeds(in) /\ PhaseFails(in)

\* An abort is reported by the step that takes the request, a completion by
\* the step that reads the last stable position.
StepCompletes(in) ==
    \/ AbortOnRequest(in)
    \/ Proceeds(in) /\ TargetReached(in)
=============================================================================
