-------------------------------- MODULE Homing --------------------------------
(***************************************************************************)
(* StateMachine/States/state_homing.c: a joint trajectory of               *)
(* ControlCore/Trajectory/joint_trajectory.c from where the robot is to    *)
(* its home position, and the verification that it has got there.          *)
(*                                                                         *)
(* The trajectory is sampled at 0 .. HomingSamples; a position is one of   *)
(* its samples, and the tolerance of the verification is exact.            *)
(***************************************************************************)
EXTENDS Bus

CONSTANTS
    HomingSamples,      \* index of the last sample
    RequiredStable,     \* requiredStableCycles
    MaxVerification     \* maxVerificationCycles

ASSUME HomingAssumption ==
    /\ HomingSamples \in Nat \ {0}
    /\ RequiredStable \in Nat \ {0}
    /\ MaxVerification \in Nat \ {0}

VARIABLES
    homingPhase,
    qStart,             \* where the trajectory starts
    nextSample,         \* nextSampleIndex of the trajectory
    homingStable, verificationCycles

homingVars ==
    <<homingPhase, qStart, nextSample, homingStable, verificationCycles>>

HomingPhases ==
    {"INIT", "READ_POSITION", "PREPARE_TRAJECTORY", "EXECUTE_TRAJECTORY",
     "VERIFY_HOME", "COMPLETE", "FAILED"}

HomingInit ==
    /\ homingPhase = "FAILED"
    /\ qStart = [a \in Axes |-> Home]
    /\ nextSample = 0
    /\ homingStable = 0
    /\ verificationCycles = 0

\* state_homing_enter().  The trajectory of the last homing is dropped with it:
\* READ_POSITION and PREPARE_TRAJECTORY write it before it is read.
EnterHoming ==
    /\ homingPhase' = "INIT"
    /\ qStart' = [a \in Axes |-> Home]
    /\ nextSample' = 0
    /\ homingStable' = 0
    /\ verificationCycles' = 0

\* homing_advance().
AdvanceHoming(next) == homingPhase' = next

\* homing_fail().  Nothing else is read before the next entry.
FailHoming ==
    /\ homingPhase' = "FAILED"
    /\ qStart' = [a \in Axes |-> Home]
    /\ nextSample' = 0
    /\ homingStable' = 0
    /\ verificationCycles' = 0

-----------------------------------------------------------------------------
(* Before the motion: nothing is exchanged, so the inputs are those of the *)
(* last state that exchanged any.                                          *)

\* INIT: the configuration, the home position and its limits.
CheckHoming ==
    /\ homingPhase = "INIT"
    /\ \/ /\ AdvanceHoming("READ_POSITION")
          /\ UNCHANGED <<qStart, nextSample, homingStable, verificationCycles>>
       \/ FailHoming
    /\ UNCHANGED busVars

\* READ_POSITION: every drive must be mapped and enabled; the trajectory will
\* start where they are.
ReadPosition ==
    /\ homingPhase = "READ_POSITION"
    /\ IF \A a \in Axes : a \in withInputs /\ IsEnabled(a)
       THEN /\ qStart' = [a \in Axes |-> inputs[a].position]
            /\ AdvanceHoming("PREPARE_TRAJECTORY")
            /\ UNCHANGED <<nextSample, homingStable, verificationCycles>>
       ELSE FailHoming
    /\ UNCHANGED busVars

\* joint_trajectory_init() and the comparison of its peaks with the limits.
PrepareTrajectory ==
    /\ homingPhase = "PREPARE_TRAJECTORY"
    /\ \/ /\ nextSample' = 0
          /\ AdvanceHoming("EXECUTE_TRAJECTORY")
          /\ UNCHANGED <<qStart, homingStable, verificationCycles>>
       \/ FailHoming
    /\ UNCHANGED busVars

-----------------------------------------------------------------------------
(* Motion.                                                                 *)

\* The distance an axis has to go, and its sample k.  Both ends are exact.
Sample(k, a) ==
    qStart[a] + ((Home - qStart[a]) * k) \div HomingSamples

Command(target) == [controlword |-> "ENABLE_OPERATION", target |-> target]

\* The outputs are written slave by slave, up to the first that is not enabled.
NotEnabled == {a \in Axes : ~IsEnabled(a)}

WriteTargets(target) ==
    [a \in Axes |-> IF \A b \in NotEnabled : a < b
                    THEN Command(target[a]) ELSE outputs[a]]

\* One cycle of a motion to the targets: refused because of a drive, failed by
\* its working counter, or done.  `Done' says what the phase makes of it.
DriveTo(target, Done) ==
    \/ /\ NotEnabled # {}
       /\ outputs' = WriteTargets(target)
       /\ FailHoming
       /\ UNCHANGED <<hardwareVars, inputs, counterVars>>
    \/ /\ NotEnabled = {}
       /\ UNCHANGED <<al, healthyCycles>>
       /\ \E returned \in BOOLEAN :
              /\ Exchange(WriteTargets(target), returned)
              /\ IF expectedWkc <= 0 \/ Wkc(returned) < expectedWkc
                 THEN FailHoming ELSE Done

\* EXECUTE_TRAJECTORY: the next sample.
ExecuteTrajectory ==
    /\ homingPhase = "EXECUTE_TRAJECTORY"
    /\ DriveTo([a \in Axes |-> Sample(nextSample, a)],
               /\ nextSample' = nextSample + 1
               /\ AdvanceHoming(IF nextSample = HomingSamples THEN "VERIFY_HOME"
                                ELSE homingPhase)
               /\ UNCHANGED <<qStart, homingStable, verificationCycles>>)

\* Mutant: one axis at home is enough.
BugAtHome == \E a \in Axes : inputs[a].position = Home

\* VERIFY_HOME: the home position is commanded until the positions read before
\* each exchange have been there in a row, or for too long.
AtHome == \A a \in Axes : inputs[a].position = Home

VerifyHome ==
    /\ homingPhase = "VERIFY_HOME"
    /\ DriveTo([a \in Axes |-> Home],
               LET stable == IF AtHome THEN homingStable + 1 ELSE 0
               IN  IF stable < RequiredStable /\ verificationCycles + 1 >= MaxVerification
                   THEN FailHoming
                   ELSE /\ verificationCycles' = verificationCycles + 1
                        /\ homingStable' = stable
                        /\ AdvanceHoming(IF stable >= RequiredStable THEN "COMPLETE"
                                         ELSE homingPhase)
                        /\ UNCHANGED <<qStart, nextSample>>)

\* state_homing_step() as long as it reports RUNNING or the failure of a phase.
HomingStep ==
    \/ CheckHoming \/ ReadPosition \/ PrepareTrajectory
    \/ ExecuteTrajectory \/ VerifyHome
=============================================================================
