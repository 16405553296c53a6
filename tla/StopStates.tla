------------------------------ MODULE StopStates ------------------------------
(***************************************************************************)
(* The three states that keep the robot still: States/state_paused.c,      *)
(* States/state_fault.c and States/state_emergency_stop.c.                 *)
(*                                                                         *)
(* Each context is entered afresh whenever its state becomes active and is *)
(* read only while it is active, so one phase serves all three.  The       *)
(* services drive the wire-feed relay and the hold of the drives.          *)
(***************************************************************************)

CONSTANTS
    RelayReplies,   \* what the relay command inside a service may return
    HoldReplies     \* what command_hold() may report: STOPPED, MOVING, FAILED

VARIABLES
    stopPhase,  \* the phase of the stop state entered last
    relay       \* the wire-feed relay

stopVars == <<stopPhase, relay>>

\* ESTOP_PHASE_ACTIVE is called ENTER here, as in the other two; the phase of a
\* failed PAUSED is left in the step that sets it, for FAULT.
StopPhases ==
    {"ENTER", "HOLD", "READY",
     "WAIT_CAUSE_CLEAR", "WAIT_RELEASE", "WAIT_RESET", "WAIT_HOME"}

Init == stopPhase = "ENTER"

EnterStop == stopPhase' = "ENTER"

\* A command that opens the relay; a reply of FALSE means it was not issued.
OpenRelay(issued) == relay' = IF issued THEN FALSE ELSE relay

-----------------------------------------------------------------------------
(* One operator per result of each step.                                   *)

\* state_paused_step(): relay first, then the hold until it is established.
PausedRuns(stopInput) ==
    /\ ~stopInput
    /\ \/ /\ stopPhase = "ENTER"
          /\ TRUE \in RelayReplies
          /\ OpenRelay(TRUE)
          /\ stopPhase' = "HOLD"
       \/ /\ stopPhase = "HOLD"
          /\ \/ "STOPPED" \in HoldReplies /\ stopPhase' = "READY"
             \/ "MOVING" \in HoldReplies /\ UNCHANGED stopPhase
          /\ UNCHANGED relay
       \/ stopPhase = "READY" /\ UNCHANGED stopVars

\* It fails on an E-stop or a fault, or when a service does.
PausedFails(stopInput) ==
    /\ \/ stopInput
       \/ stopPhase = "ENTER" /\ FALSE \in RelayReplies
       \/ stopPhase = "HOLD" /\ "FAILED" \in HoldReplies
    /\ UNCHANGED relay

\* state_fault_step(): safe outputs are repeated until they succeed.  The
\* supervisor ignores its result.
FaultStep(healthy) ==
    \/ /\ stopPhase = "ENTER"
       /\ \E issued \in RelayReplies :
              /\ OpenRelay(issued)
              /\ stopPhase' = IF issued THEN "WAIT_CAUSE_CLEAR" ELSE "ENTER"
    \/ /\ stopPhase = "WAIT_CAUSE_CLEAR"
       /\ stopPhase' = IF healthy THEN "WAIT_RESET" ELSE "WAIT_CAUSE_CLEAR"
       /\ UNCHANGED relay
    \/ stopPhase = "WAIT_RESET" /\ UNCHANGED stopVars

\* The phase after safe outputs; a new assertion waits for its release again.
EmergencyPhase(estop, acknowledged, healthy) ==
    CASE estop -> "WAIT_RELEASE"
      [] ~estop /\ stopPhase # "WAIT_HOME" ->
             IF acknowledged /\ healthy THEN "WAIT_HOME" ELSE "WAIT_RESET"
      [] OTHER -> "WAIT_HOME"

\* state_emergency_stop_step(): safe outputs are forced in every cycle, and the
\* phase only advances when they succeed.
EmergencyStopStep(estop, acknowledged, healthy) ==
    \E issued \in RelayReplies :
        /\ OpenRelay(issued)
        /\ stopPhase' = IF issued THEN EmergencyPhase(estop, acknowledged, healthy)
                        ELSE stopPhase
=============================================================================
