--------------------------- MODULE PathExecutionRun ---------------------------
(***************************************************************************)
(* PathExecution under the dispatch of StateMachine/supervisor_task.c: the *)
(* state is entered with a request, stepped once per cycle with the safety *)
(* inputs and the one-shot operator requests, paused and resumed, and cut  *)
(* short by FAULT or EMERGENCY_STOP at any step.  SupervisorTask composes  *)
(* the same operations with the real policy and its message queue; here    *)
(* the services may fail and the trajectory is longer.                     *)
(***************************************************************************)
EXTENDS PathExecution

VARIABLE dispatched     \* what run_active_state() does with the state

runVars == <<executionVars, dispatched>>

(***************************************************************************)
(* STEPPED: PATH_EXECUTION is active.  PAUSING, PAUSED: PAUSED is active,  *)
(* before and after its ENTER phase opened the relay.  STOPPING: FAULT or  *)
(* EMERGENCY_STOP is active and has not yet forced its outputs safe.       *)
(* INACTIVE: any other state, and a stop state whose outputs are safe.     *)
(***************************************************************************)
Dispatches == {"INACTIVE", "STEPPED", "PAUSING", "PAUSED", "STOPPING"}

RunInit == Init /\ dispatched = "INACTIVE"

\* enter_active_state() on the way from APPROACH.
Start ==
    /\ dispatched = "INACTIVE"
    /\ \E newMode \in {"PREVIEW", "PRODUCTION"}, valid \in BOOLEAN :
           Enter(newMode, valid)
    /\ dispatched' = "STEPPED"

\* One cycle of the active state; its result ends the dispatch.
Cycle ==
    /\ dispatched = "STEPPED"
    /\ \E in \in Inputs :
           \/ StepRuns(in) /\ UNCHANGED dispatched
           \/ StepFails(in) /\ dispatched' = "STOPPING"
           \/ StepCompletes(in) /\ dispatched' = "INACTIVE"

\* A relay command that is not given by PATH_EXECUTION.
RelayOff(issued) ==
    /\ SetWireFeed(FALSE, issued)
    /\ UNCHANGED <<phase, result, abortReason, requestVars, progressVars,
                   stopElapsed, wireFeedCommanded>>

PauseRun ==
    /\ dispatched = "STEPPED"
    /\ dispatched' = "PAUSING"
    /\ UNCHANGED executionVars

\* The ENTER phase of state_paused_step(); its failure is a STATE_FAILED.
PausedStep ==
    /\ dispatched = "PAUSING"
    /\ \E issued \in RelayReplies :
           /\ RelayOff(issued)
           /\ dispatched' = IF issued THEN "PAUSED" ELSE "STOPPING"

\* A Resume handled in the same batch of messages as the Pause comes before
\* the ENTER phase of PAUSED.
ResumeRun ==
    /\ dispatched \in {"PAUSING", "PAUSED"}
    /\ dispatched' = "STEPPED"
    /\ ResumeExecution

\* FAULT_DETECTED, PROTECTIVE_STOP_ASSERTED, ESTOP_ASSERTED or a failed hold.
Interrupt ==
    /\ dispatched \in {"STEPPED", "PAUSING", "PAUSED"}
    /\ dispatched' = "STOPPING"
    /\ UNCHANGED executionVars

\* state_fault_step() and state_emergency_stop_step() repeat
\* force_safe_outputs() until it succeeds.
StopStep ==
    /\ dispatched = "STOPPING"
    /\ \E issued \in RelayReplies :
           /\ RelayOff(issued)
           /\ dispatched' = IF issued THEN "INACTIVE" ELSE "STOPPING"

ClockTicks == StopClockTicks /\ UNCHANGED dispatched

RunNext ==
    \/ Start
    \/ Cycle
    \/ PauseRun
    \/ PausedStep
    \/ ResumeRun
    \/ Interrupt
    \/ StopStep
    \/ ClockTicks

RunSpec == RunInit /\ [][RunNext]_runVars

\* A cycle that finds the controlled stop out of time.
OverdueCycle ==
    Cycle /\ phase = "CONTROLLED_STOP" /\ stopElapsed >= StopTimeout

\* The supervisor task runs every period and the publisher's clock advances.
\* Nothing is assumed of the services: fairness of a whole Cycle would make the
\* robot stop, so it is asked only of the cycle that follows the timeout.
FairRunSpec == RunSpec /\ WF_runVars(OverdueCycle) /\ WF_runVars(ClockTicks)

-----------------------------------------------------------------------------
(* Properties.                                                             *)

\* Every field holds a value of its C type, and no counter passes its bound.
RunTypeOK ==
    /\ phase \in Phases
    /\ result \in Results
    /\ abortReason \in {"NONE", "RESET", "HOME"}
    /\ mode \in {"NONE", "PREVIEW", "PRODUCTION"}
    /\ requestValid \in BOOLEAN
    /\ sampleIndex \in 0 .. SampleCount
    /\ stableCycles \in 0 .. ClearanceStableCycles
    /\ stopElapsed \in 0 .. StopTimeout
    /\ wireFeedCommanded \in BOOLEAN
    /\ relay \in BOOLEAN
    /\ dispatched \in Dispatches

\* The relay is closed only while Production follows the trajectory, or while
\* the one step that opens it is still due: never in a Preview, in an abort, in
\* a retraction, while PAUSED holds, or after the run ended or was stopped.
RelayOnlyWhileWelding ==
    relay => /\ dispatched \in {"STEPPED", "PAUSING", "STOPPING"}
             /\ mode = "PRODUCTION"
             /\ phase \in {"CONFIGURE_WIRE_FEED", "FOLLOW_TRAJECTORY",
                           "DISABLE_WIRE_FEED"}

\* Every sample of a Production run is written with the relay closed and every
\* sample of a Preview with the relay open, however often the run was paused.
SamplesMatchRelay ==
    [][sampleIndex' = sampleIndex + 1 => relay = (mode = "PRODUCTION")]_runVars

\* A sample is only read inside the trajectory, also after a resume; once the
\* relay has been opened for the retraction the whole trajectory was followed.
WholePathBeforeRetraction ==
    /\ phase \in {"CONFIGURE_WIRE_FEED", "FOLLOW_TRAJECTORY"} =>
           sampleIndex < SampleCount
    /\ phase \in {"DISABLE_WIRE_FEED", "PREPARE_RETRACTION",
                  "EXECUTE_RETRACTION", "VERIFY_CLEARANCE", "COMPLETE"} =>
           sampleIndex = SampleCount

\* What the supervisor reads after STATE_STEP_COMPLETE is unambiguous: either
\* the run completed and nothing was aborted, or it was aborted for a reason.
EndIsUnambiguous ==
    /\ phase = "COMPLETE" => result = "COMPLETE" /\ abortReason = "NONE"
    /\ phase = "ABORTED" => result = "ABORTED" /\ abortReason # "NONE"
    /\ phase = "CONTROLLED_STOP" => abortReason # "NONE"

\* The phases in which the run is still under way and has not been aborted.
UnderWay == phase \notin {"CONTROLLED_STOP", "COMPLETE", "ABORTED", "FAILED"}

\* What every step preserves, as one inductive invariant: the counters stay
\* below their limits until the phase that reads them has ended, nothing is
\* aborted before an abort, and the relay matches the mode while samples are
\* followed.
RunInv ==
    /\ RunTypeOK
    /\ WholePathBeforeRetraction
    /\ EndIsUnambiguous
    /\ phase = "CHECK_PREREQUISITES" => sampleIndex = 0
    /\ UnderWay => stableCycles < ClearanceStableCycles
    /\ UnderWay \/ phase = "COMPLETE" => abortReason = "NONE"
    /\ UnderWay /\ phase # "IDLE" => result = "RUNNING"
    /\ phase = "FOLLOW_TRAJECTORY" /\ dispatched = "STEPPED" =>
           relay = (mode = "PRODUCTION")
    /\ phase = "FOLLOW_TRAJECTORY" /\ dispatched \in {"PAUSING", "PAUSED"} =>
           mode = "PRODUCTION" \/ ~relay

\* An abort ends: with a stopped robot, with a failure after the timeout, or by
\* being cut short; it never waits for good while the state is stepped.
AbortEnds ==
    (phase = "CONTROLLED_STOP" /\ dispatched = "STEPPED")
        ~> (phase # "CONTROLLED_STOP" \/ dispatched # "STEPPED")
=============================================================================
