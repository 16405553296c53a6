------------------------------- MODULE Startup -------------------------------
(***************************************************************************)
(* BOOT, HOMING and IDLE on one bus, under the dispatch of the supervisor: *)
(* from power-on to a robot that is homed and held, with slaves that drop, *)
(* frames that are lost and drives that trip at any time.                  *)
(*                                                                         *)
(* StateMachine models the events in full.  Here AWAY stands for the       *)
(* states of a program between IDLE and the next IDLE or HOMING, FAULT     *)
(* for every stop state.                                                   *)
(***************************************************************************)
EXTENDS Boot, Homing, Idle

VARIABLE activeState

startupVars == <<activeState, busVars, bootVars, homingVars, idleVars>>

Init ==
    /\ activeState = "BOOT"
    /\ BusInit
    /\ EnterBoot
    /\ HomingInit
    /\ IdleInit

-----------------------------------------------------------------------------
(* One cycle of the supervisor, by its active state.  A failure leads to   *)
(* FAULT, a completion to the next state, which is entered at once.        *)

StepOfBoot ==
    /\ activeState = "BOOT"
    /\ BootStep
    /\ activeState' = IF bootPhase' = "FAILED" THEN "FAULT" ELSE activeState
    /\ UNCHANGED <<homingVars, idleVars>>

BootCompletes ==
    /\ activeState = "BOOT" /\ bootPhase = "COMPLETE"
    /\ activeState' = "HOMING"
    /\ EnterHoming
    /\ UNCHANGED <<busVars, bootVars, idleVars>>

StepOfHoming ==
    /\ activeState = "HOMING"
    /\ HomingStep
    /\ activeState' = IF homingPhase' = "FAILED" THEN "FAULT" ELSE activeState
    /\ UNCHANGED <<bootVars, idleVars>>

HomingCompletes ==
    /\ activeState = "HOMING" /\ homingPhase = "COMPLETE"
    /\ activeState' = "IDLE"
    /\ EnterIdle
    /\ FailHoming
    /\ UNCHANGED <<busVars, bootVars>>

StepOfIdle(returned) ==
    /\ activeState = "IDLE"
    /\ IdleStep(returned)
    /\ activeState' = IF idlePhase' = "FAILED" THEN "FAULT" ELSE activeState
    /\ UNCHANGED <<bootVars, homingVars>>

Cycle ==
    \/ StepOfBoot \/ BootCompletes
    \/ StepOfHoming \/ HomingCompletes
    \/ \E returned \in BOOLEAN : StepOfIdle(returned)

-----------------------------------------------------------------------------
(* Stops and recovery.                                                     *)

\* mock_backend_hold(), which FAULT and a stop input call: each target becomes
\* the position that was read last.  It is not exchanged.
HoldWhereRead ==
    outputs' = [a \in Axes |-> [outputs[a] EXCEPT !.target = inputs[a].position]]

\* A stop input or a reported fault, at any time.  The context of the state it
\* interrupts is not read before that state is entered afresh, and that of BOOT
\* is not read any more: it is dropped as after a failure.
Stop ==
    /\ activeState # "FAULT"
    /\ activeState' = "FAULT"
    /\ HoldWhereRead
    /\ IF activeState = "BOOT" THEN FailBoot ELSE UNCHANGED bootVars
    /\ IF activeState = "HOMING" THEN FailHoming ELSE UNCHANGED homingVars
    /\ IF activeState = "IDLE" THEN FailIdle ELSE UNCHANGED idleVars
    /\ UNCHANGED <<hardwareVars, inputs, counterVars>>

\* The outputs that state_fault_step() forces safe.
FaultStep ==
    /\ activeState = "FAULT"
    /\ HoldWhereRead
    /\ UNCHANGED <<activeState, hardwareVars, inputs, counterVars, bootVars,
                   homingVars, idleVars>>

\* mock_backend_ready(): the state of the bus, and the inputs as last read.
DrivesReady == AllOperational(al) /\ \A a \in Axes : IsEnabled(a)

\* RESET, from FAULT and from whatever state was interrupted by it.
Reset ==
    /\ activeState = "FAULT"
    /\ DrivesReady
    /\ activeState' = "HOMING"
    /\ EnterHoming
    /\ UNCHANGED <<busVars, bootVars, idleVars>>

-----------------------------------------------------------------------------
(* A program between two visits of IDLE.                                   *)

LeaveIdle ==
    /\ activeState = "IDLE"
    /\ activeState' = "AWAY"
    /\ FailIdle
    /\ UNCHANGED <<busVars, bootVars, homingVars>>

\* A motion that has come to its end, with the process data that show it.
MoveAway ==
    /\ activeState = "AWAY"
    /\ DrivesReady
    /\ \A a \in Axes : drive[a] = "OPERATION_ENABLED" /\ mode[a] = "CSP"
    /\ \E a \in Axes, p \in Positions :
           /\ position' = [position EXCEPT ![a] = p]
           /\ outputs' = [outputs EXCEPT ![a].target = p]
           /\ inputs' = [inputs EXCEPT ![a].position = p]
    /\ UNCHANGED <<activeState, al, drive, mode, counterVars, bootVars,
                   homingVars, idleVars>>

\* A rejected or reset program leads to IDLE, a finished one or Home to HOMING.
ProgramEnds ==
    /\ activeState = "AWAY"
    /\ \/ activeState' = "IDLE" /\ EnterIdle /\ UNCHANGED homingVars
       \/ activeState' = "HOMING" /\ EnterHoming /\ UNCHANGED idleVars
    /\ UNCHANGED <<busVars, bootVars>>

\* A FAULT that RESET cannot leave looks at nothing any more.
Environment ==
    /\ activeState # "FAULT" \/ DrivesReady
    /\ SlaveDrops \/ DriveTrips
    /\ UNCHANGED <<activeState, bootVars, homingVars, idleVars>>

Next ==
    \/ Cycle
    \/ Stop \/ FaultStep \/ Reset
    \/ LeaveIdle \/ MoveAway \/ ProgramEnds
    \/ Environment

Spec == Init /\ [][Next]_startupVars

\* The supervisor task is stepped every period.  A cycle of IDLE that goes well
\* changes nothing, and no frame has to be lost: fairness is that of the cycles
\* whose frame returns.
FairSpec ==
    /\ Spec
    /\ WF_startupVars(\/ StepOfBoot \/ BootCompletes
                      \/ StepOfHoming \/ HomingCompletes \/ StepOfIdle(TRUE))

-----------------------------------------------------------------------------
(* Properties.                                                             *)

\* Every variable holds a value of its type.  A target is wherever the samples of
\* a trajectory lead.
StartupTypeOK ==
    /\ activeState \in {"BOOT", "HOMING", "IDLE", "AWAY", "FAULT"}
    /\ al \in [Axes -> AlStates]
    /\ drive \in [Axes -> CiaStates]
    /\ mode \in [Axes -> {"CSP", "OTHER"}]
    /\ position \in [Axes -> Int]
    /\ outputs \in [Axes -> Commands]
    /\ inputs \in [Axes -> Feedbacks]
    /\ withInputs \subseteq Axes
    /\ healthyCycles \in 0 .. StabilityCycles
    /\ bootPhase \in BootPhases
    /\ stableCycles \in Nat
    /\ recoveryAttempts \in 0 .. RecoveryAttempts
    /\ homingPhase \in HomingPhases
    /\ nextSample \in Nat
    /\ idlePhase \in IdlePhases

\* The robot moves in HOMING and in a program only: not while BOOT enables its
\* drives, each of which is commanded to hold where it is (state_boot.c:1146),
\* whatever was lost, stale or recovered before, provided every slave has inputs,
\* which BOOT checks only afterwards; not while IDLE holds it where it found it
\* (state_idle.c:181), from wherever it was entered; and not in FAULT.
MovesOnlyInMotion ==
    [][/\ activeState \in {"BOOT", "IDLE", "FAULT"}
       /\ activeState = "BOOT" => withInputs = Axes
       => position' = position]_startupVars

\* state_boot.c:20: the drives are enabled only over a bus that has just been
\* complete for StabilityCycles exchanges in a row, with no failure in between.
EnabledOverStableBus ==
    [][bootPhase # "ENABLE_DRIVES" /\ bootPhase' = "ENABLE_DRIVES" =>
           healthyCycles' = StabilityCycles]_startupVars

\* HOMING reports its end only with the robot at home, also after a BOOT that
\* was cut short before it verified the mode of the drives.
HomingEndsAtHome ==
    [][activeState = "HOMING" /\ activeState' = "IDLE" =>
           \A a \in Axes : position[a] = Home]_startupVars

\* BOOT ends, whatever the bus does: the attempts of recovery are limited, and
\* so are the cycles of a drive that does not come up.
BootEnds == activeState = "BOOT" ~> activeState # "BOOT"

\* A slave that leaves OPERATIONAL while the robot is homed or held is noticed,
\* although neither reads its state: the working counter falls short.
LostSlaveStopsRobot ==
    (activeState \in {"HOMING", "IDLE"} /\ ~AllOperational(al))
        ~> activeState \in {"FAULT", "AWAY"}
=============================================================================
