---------------------------- MODULE PathExecution ----------------------------
(***************************************************************************)
(* StateMachine/States/state_path_execution.c: the state that follows the  *)
(* validated trajectory, switches the wire-feed relay and retracts.        *)
(*                                                                         *)
(* state_path_execution_step() is one step of the 1 ms supervisor cycle.   *)
(* It advances one phase, or fails, or reports its end; each service it    *)
(* calls may succeed or fail.  The relay itself is kept as a variable of   *)
(* its own, beside the software's belief wireFeedCommanded.                *)
(***************************************************************************)
EXTENDS Naturals

CONSTANTS
    SampleCount,            \* samples of the validated trajectory
    ClearanceStableCycles,  \* consecutive clear readings that end a retraction
    StopTimeout,            \* controlled_stop_timeout_ms, in clock ticks
    RelayReplies            \* what set_wire_feed_enabled() may return

ASSUME PathExecutionAssumption ==
    /\ SampleCount \in Nat \ {0}
    /\ ClearanceStableCycles \in Nat \ {0}
    /\ StopTimeout \in Nat \ {0}
    /\ RelayReplies \subseteq BOOLEAN

VARIABLES
    phase, result, abortReason,
    mode, requestValid,     \* the request the state was entered with
    sampleIndex, stableCycles,
    stopElapsed,            \* now_ms - phase_started_ms of a controlled stop
    wireFeedCommanded,
    relay                   \* the wire-feed relay

requestVars == <<mode, requestValid>>
progressVars == <<sampleIndex, stableCycles>>
feedVars == <<wireFeedCommanded, relay>>
executionVars ==
    <<phase, result, abortReason, requestVars, progressVars, stopElapsed, feedVars>>

-----------------------------------------------------------------------------
Phases ==
    {"IDLE", "CHECK_PREREQUISITES", "CONFIGURE_WIRE_FEED", "FOLLOW_TRAJECTORY",
     "DISABLE_WIRE_FEED", "PREPARE_RETRACTION", "EXECUTE_RETRACTION",
     "VERIFY_CLEARANCE", "CONTROLLED_STOP", "COMPLETE", "ABORTED", "FAILED"}

Results == {"NONE", "RUNNING", "COMPLETE", "ABORTED", "FAILED"}

(***************************************************************************)
(* PathExecutionInputs.  `stopped' is protective_stop_active or            *)
(* external_fault_active, `ready' the conjunction of motion_permission,    *)
(* drives_ready and ethercat_healthy: the step never separates them.       *)
(***************************************************************************)
Inputs ==
    [estop : BOOLEAN, stopped : BOOLEAN, reset : BOOLEAN, home : BOOLEAN,
     ready : BOOLEAN, followingError : BOOLEAN]

\* The zeroed context before the state is first entered.
Init ==
    /\ phase = "IDLE"
    /\ result = "NONE"
    /\ abortReason = "NONE"
    /\ mode = "NONE"
    /\ requestValid = FALSE
    /\ sampleIndex = 0
    /\ stableCycles = 0
    /\ stopElapsed = 0
    /\ wireFeedCommanded = FALSE
    /\ relay = FALSE

\* set_wire_feed_enabled(): TRUE confirms that the command was issued.
SetWireFeed(enable, issued) == relay' = IF issued THEN enable ELSE relay

\* state_path_execution_enter(): everything but the relay starts afresh.
Enter(newMode, valid) ==
    /\ phase' = "CHECK_PREREQUISITES"
    /\ result' = "RUNNING"
    /\ abortReason' = "NONE"
    /\ mode' = newMode
    /\ requestValid' = valid
    /\ sampleIndex' = 0
    /\ stableCycles' = 0
    /\ stopElapsed' = 0
    /\ wireFeedCommanded' = FALSE
    /\ UNCHANGED relay

\* fail(): the relay command is given, its reply is ignored.
Fail ==
    /\ \E issued \in RelayReplies : SetWireFeed(FALSE, issued)
    /\ wireFeedCommanded' = FALSE
    /\ result' = "FAILED"
    /\ phase' = "FAILED"
    /\ UNCHANGED <<abortReason, requestVars, progressVars, stopElapsed>>

\* begin_abort(): the relay command is given, its reply is ignored.
BeginAbort(reason) ==
    /\ \E issued \in RelayReplies : SetWireFeed(FALSE, issued)
    /\ wireFeedCommanded' = FALSE
    /\ abortReason' = reason
    /\ phase' = "CONTROLLED_STOP"
    /\ stopElapsed' = 0
    /\ UNCHANGED <<result, requestVars, progressVars>>

-----------------------------------------------------------------------------
(* The checks every step makes before it looks at its phase.               *)

StopInput(in) == in.estop \/ in.stopped

FailOnStopInput(in) == StopInput(in) /\ Fail

\* Mutant: a second request restarts the controlled stop and its clock.
BugAbortRestarts(in) == ~StopInput(in) /\ (in.reset \/ in.home)

AbortRequested(in) ==
    /\ ~StopInput(in)
    /\ in.reset \/ in.home
    /\ phase # "CONTROLLED_STOP"

\* RESET wins over HOME when both are pending.
StartAbort(in) ==
    /\ AbortRequested(in)
    /\ BeginAbort(IF in.reset THEN "RESET" ELSE "HOME")

Proceeds(in) == ~StopInput(in) /\ ~AbortRequested(in)

-----------------------------------------------------------------------------
(* The phases.                                                             *)

CheckPrerequisites(in) ==
    /\ phase = "CHECK_PREREQUISITES"
    /\ requestValid
    /\ in.ready
    /\ phase' = "CONFIGURE_WIRE_FEED"
    /\ UNCHANGED <<result, abortReason, requestVars, progressVars, stopElapsed,
                   feedVars>>

ConfigureWireFeed ==
    /\ phase = "CONFIGURE_WIRE_FEED"
    /\ TRUE \in RelayReplies
    /\ SetWireFeed(mode = "PRODUCTION", TRUE)
    /\ wireFeedCommanded' = (mode = "PRODUCTION")
    /\ phase' = "FOLLOW_TRAJECTORY"
    /\ UNCHANGED <<result, abortReason, requestVars, progressVars, stopElapsed>>

\* Mutant: the end of the trajectory is noticed one sample late.
BugFollowOneTooMany(in) ==
    /\ phase = "FOLLOW_TRAJECTORY"
    /\ in.ready /\ ~in.followingError
    /\ sampleIndex' = sampleIndex + 1
    /\ phase' = IF sampleIndex' > SampleCount
                THEN "DISABLE_WIRE_FEED" ELSE "FOLLOW_TRAJECTORY"
    /\ UNCHANGED <<result, abortReason, requestVars, stableCycles, stopElapsed,
                   feedVars>>

\* One sample is read and written to the drives.
FollowTrajectory(in) ==
    /\ phase = "FOLLOW_TRAJECTORY"
    /\ in.ready /\ ~in.followingError
    /\ sampleIndex' = sampleIndex + 1
    /\ phase' = IF sampleIndex' >= SampleCount
                THEN "DISABLE_WIRE_FEED" ELSE "FOLLOW_TRAJECTORY"
    /\ UNCHANGED <<result, abortReason, requestVars, stableCycles, stopElapsed,
                   feedVars>>

DisableWireFeed ==
    /\ phase = "DISABLE_WIRE_FEED"
    /\ TRUE \in RelayReplies
    /\ SetWireFeed(FALSE, TRUE)
    /\ wireFeedCommanded' = FALSE
    /\ phase' = "PREPARE_RETRACTION"
    /\ UNCHANGED <<result, abortReason, requestVars, progressVars, stopElapsed>>

\* PREPARE_RETRACTION succeeds, or the retraction reports COMPLETE.
AdvanceRetraction ==
    /\ \/ phase = "PREPARE_RETRACTION" /\ phase' = "EXECUTE_RETRACTION"
       \/ phase = "EXECUTE_RETRACTION"
              /\ phase' \in {"EXECUTE_RETRACTION", "VERIFY_CLEARANCE"}
    /\ UNCHANGED <<result, abortReason, requestVars, progressVars, stopElapsed,
                   feedVars>>

\* There is no timeout: an unclear reading starts the count again.
VerifyClearance(clear) ==
    /\ phase = "VERIFY_CLEARANCE"
    /\ stableCycles' = IF clear THEN stableCycles + 1 ELSE 0
    /\ IF clear /\ stableCycles' >= ClearanceStableCycles
       THEN phase' = "COMPLETE" /\ result' = "COMPLETE"
       ELSE UNCHANGED <<phase, result>>
    /\ UNCHANGED <<abortReason, requestVars, sampleIndex, stopElapsed, feedVars>>

ControlledStopEnds ==
    /\ phase = "CONTROLLED_STOP"
    /\ phase' = "ABORTED"
    /\ result' = "ABORTED"
    /\ UNCHANGED <<abortReason, requestVars, progressVars, stopElapsed, feedVars>>

ControlledStopWaits ==
    /\ phase = "CONTROLLED_STOP"
    /\ stopElapsed < StopTimeout
    /\ UNCHANGED executionVars

\* The ways a phase fails: a prerequisite or a permission is missing, a service
\* reports failure, or the controlled stop exceeds its time.
PhaseFails(in) ==
    /\ \/ phase = "CHECK_PREREQUISITES" /\ (~requestValid \/ ~in.ready)
       \/ phase \in {"CONFIGURE_WIRE_FEED", "DISABLE_WIRE_FEED"}
              /\ FALSE \in RelayReplies
       \/ phase \in {"FOLLOW_TRAJECTORY", "PREPARE_RETRACTION",
                     "EXECUTE_RETRACTION", "CONTROLLED_STOP"}
    /\ Fail

-----------------------------------------------------------------------------
(* One call of state_path_execution_step(): by its return value.           *)

StepRuns(in) ==
    \/ StartAbort(in)
    \/ /\ Proceeds(in)
       /\ \/ CheckPrerequisites(in)
          \/ ConfigureWireFeed
          \/ FollowTrajectory(in)
          \/ DisableWireFeed
          \/ AdvanceRetraction
          \/ \E clear \in BOOLEAN : VerifyClearance(clear)
          \/ ControlledStopEnds
          \/ ControlledStopWaits

StepFails(in) ==
    \/ FailOnStopInput(in)
    \/ Proceeds(in) /\ PhaseFails(in)

\* The end is reported one step after it was reached.
StepCompletes(in) ==
    /\ Proceeds(in)
    /\ phase \in {"COMPLETE", "ABORTED"}
    /\ UNCHANGED executionVars

\* Mutant: Production resumes where it was, with the relay as Pause left it.
BugResumeWithoutWireFeed == UNCHANGED executionVars

\* state_path_execution_resume()
ResumeExecution ==
    IF /\ result = "RUNNING"
       /\ mode = "PRODUCTION"
       /\ phase = "FOLLOW_TRAJECTORY"
    THEN /\ wireFeedCommanded' = FALSE
         /\ phase' = "CONFIGURE_WIRE_FEED"
         /\ UNCHANGED <<result, abortReason, requestVars, progressVars,
                        stopElapsed, relay>>
    ELSE UNCHANGED executionVars

\* The millisecond clock that the input publisher puts into now_ms, counted
\* from the start of a controlled stop and no further than its timeout.  It may
\* advance by any amount between two cycles: enter_active_state() zeroes now_ms,
\* so an abort before the next publication counts from zero.
StopClockTicks ==
    /\ phase = "CONTROLLED_STOP"
    /\ stopElapsed' \in (stopElapsed + 1) .. StopTimeout
    /\ UNCHANGED <<phase, result, abortReason, requestVars, progressVars, feedVars>>
=============================================================================
