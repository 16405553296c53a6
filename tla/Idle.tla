--------------------------------- MODULE Idle ---------------------------------
(***************************************************************************)
(* StateMachine/States/state_idle.c: the robot is held where it was when   *)
(* IDLE was entered.                                                       *)
(*                                                                         *)
(* run_active_state() always passes IDLE_COMMAND_NONE: the state ends by   *)
(* a failure or by an event of the policy, and its phase COMPLETE is only  *)
(* for the bridge of an earlier program.                                   *)
(***************************************************************************)
EXTENDS Bus

VARIABLES
    idlePhase,
    holdPosition    \* holdPositionUnits

idleVars == <<idlePhase, holdPosition>>

IdlePhases == {"INIT", "HOLDING", "FAILED"}

IdleInit ==
    /\ idlePhase = "FAILED"
    /\ holdPosition = [a \in Axes |-> 0]

\* state_idle_enter().
EnterIdle ==
    /\ idlePhase' = "INIT"
    /\ holdPosition' = [a \in Axes |-> 0]

\* idle_fail().
FailIdle ==
    /\ idlePhase' = "FAILED"
    /\ holdPosition' = [a \in Axes |-> 0]

\* A slave without process data, or a drive that is not enabled.
Unfit == {a \in Axes : a \notin withInputs \/ ~IsEnabled(a)}

\* INIT: the positions to hold are taken from the inputs, slave by slave.
CaptureHold ==
    /\ idlePhase = "INIT"
    /\ holdPosition' = [a \in Axes |-> IF \A b \in Unfit : a < b
                                       THEN inputs[a].position
                                       ELSE holdPosition[a]]
    /\ idlePhase' = IF Unfit = {} /\ expectedWkc > 0 THEN "HOLDING" ELSE "FAILED"
    /\ UNCHANGED busVars

\* HOLDING: they are commanded again in every cycle.
HoldOutputs ==
    [a \in Axes |-> IF \A b \in Unfit : a < b
                    THEN [controlword |-> "ENABLE_OPERATION",
                          target |-> holdPosition[a]]
                    ELSE outputs[a]]

\* Mutant: any working counter will do.
BugHoldAnyCounter(returned) ==
    /\ idlePhase = "HOLDING"
    /\ \/ /\ Unfit # {}
          /\ outputs' = HoldOutputs
          /\ FailIdle
          /\ UNCHANGED <<hardwareVars, inputs, counterVars>>
       \/ /\ Unfit = {}
          /\ UNCHANGED <<al, healthyCycles>>
          /\ Exchange(HoldOutputs, returned)
          /\ IF expectedWkc <= 0 \/ Wkc(returned) <= 0
             THEN FailIdle
             ELSE UNCHANGED idleVars

\* One cycle of HOLDING: a drive that is not enabled ends it, and a counter that
\* falls short.
Hold(returned) ==
    /\ idlePhase = "HOLDING"
    /\ \/ /\ Unfit # {}
          /\ outputs' = HoldOutputs
          /\ FailIdle
          /\ UNCHANGED <<hardwareVars, inputs, counterVars>>
       \/ /\ Unfit = {}
          /\ UNCHANGED <<al, healthyCycles>>
          /\ Exchange(HoldOutputs, returned)
          /\ IF expectedWkc <= 0 \/ Wkc(returned) < expectedWkc
             THEN FailIdle
             ELSE UNCHANGED idleVars

\* state_idle_step() under the supervisor.
IdleStep(returned) == CaptureHold \/ Hold(returned)
=============================================================================
