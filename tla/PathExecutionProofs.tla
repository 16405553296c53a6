------------------------- MODULE PathExecutionProofs -------------------------
(***************************************************************************)
(* Proofs about PathExecutionRun, for every trajectory length, stability   *)
(* count and stop timeout.                                                 *)
(*                                                                         *)
(* None of the properties is inductive alone.  That the relay matches the  *)
(* mode whenever a sample is written needs to know that a resumed run is   *)
(* still RUNNING (or state_path_execution_resume() would not go back to    *)
(* CONFIGURE_WIRE_FEED), that the counters stay in range needs the phase   *)
(* they are counted in; RunInv joins them.                                 *)
(***************************************************************************)
EXTENDS PathExecutionRun, TLAPS

\* The finite types and the variable groups are expanded everywhere.
USE DEF Phases, Results, Dispatches, requestVars, progressVars, feedVars,
        UnderWay

\* Counters that start at zero start below their bounds.
LEMMA ZeroInRange ==
    /\ 0 \in 0 .. SampleCount /\ 0 < SampleCount
    /\ 0 \in 0 .. ClearanceStableCycles /\ 0 < ClearanceStableCycles
    /\ 0 \in 0 .. StopTimeout
BY PathExecutionAssumption

-----------------------------------------------------------------------------
(* Entering, failing and aborting.                                         *)

\* A failed step leaves the run in FAILED, with its counters as they were.
LEMMA FailPreserves ==
    ASSUME RunInv, Fail, dispatched' \in Dispatches
    PROVE  RunInv'
<1>1. relay' \in BOOLEAN
  BY PathExecutionAssumption DEF RunInv, RunTypeOK, Fail, SetWireFeed
<1>2. RunTypeOK'
  BY <1>1 DEF RunInv, RunTypeOK, Fail
<1> QED
  BY <1>2 DEF RunInv, WholePathBeforeRetraction, EndIsUnambiguous, Fail

\* An abort starts the controlled stop with its reason recorded.
LEMMA BeginAbortPreserves ==
    ASSUME RunInv, NEW reason \in {"RESET", "HOME"}, BeginAbort(reason),
           UNCHANGED dispatched
    PROVE  RunInv'
<1>1. relay' \in BOOLEAN
  BY PathExecutionAssumption DEF RunInv, RunTypeOK, BeginAbort, SetWireFeed
<1>2. RunTypeOK'
  BY <1>1, ZeroInRange DEF RunInv, RunTypeOK, BeginAbort
<1> QED
  BY <1>2 DEF RunInv, WholePathBeforeRetraction, EndIsUnambiguous, BeginAbort

\* A run is entered with everything but the relay afresh.
LEMMA StartPreserves ==
    ASSUME RunInv, Start
    PROVE  RunInv'
<1>1. PICK newMode \in {"PREVIEW", "PRODUCTION"}, valid \in BOOLEAN :
          Enter(newMode, valid)
  BY DEF Start
<1>2. dispatched' = "STEPPED"
  BY DEF Start
<1>3. RunTypeOK'
  BY <1>1, <1>2, ZeroInRange DEF RunInv, RunTypeOK, Enter
<1> QED
  BY <1>1, <1>2, <1>3, ZeroInRange
  DEF RunInv, WholePathBeforeRetraction, EndIsUnambiguous, Enter

-----------------------------------------------------------------------------
(* One cycle of the active state.                                          *)

\* Each phase of state_path_execution_step() keeps the run in order.
LEMMA PhasePreserves ==
    ASSUME RunInv, dispatched = "STEPPED", UNCHANGED dispatched,
           NEW in \in Inputs,
           \/ CheckPrerequisites(in)
           \/ ConfigureWireFeed
           \/ FollowTrajectory(in)
           \/ DisableWireFeed
           \/ AdvanceRetraction
           \/ \E clear \in BOOLEAN : VerifyClearance(clear)
           \/ ControlledStopEnds
           \/ ControlledStopWaits
    PROVE  RunInv'
<1> USE PathExecutionAssumption
    DEF RunInv, RunTypeOK, WholePathBeforeRetraction, EndIsUnambiguous
<1>1. CASE CheckPrerequisites(in)
  BY <1>1 DEF CheckPrerequisites
<1>2. CASE ConfigureWireFeed
  <2>1. relay' = (mode = "PRODUCTION") /\ relay' \in BOOLEAN
    BY <1>2 DEF ConfigureWireFeed, SetWireFeed
  <2>2. wireFeedCommanded' \in BOOLEAN
    BY <1>2 DEF ConfigureWireFeed
  <2> QED
    BY <1>2, <2>1, <2>2 DEF ConfigureWireFeed
<1>3. CASE FollowTrajectory(in)
  <2>1. sampleIndex < SampleCount /\ sampleIndex' = sampleIndex + 1
    BY <1>3 DEF FollowTrajectory
  <2>2. CASE sampleIndex' >= SampleCount
    BY <1>3, <2>1, <2>2 DEF FollowTrajectory
  <2>3. CASE ~(sampleIndex' >= SampleCount)
    BY <1>3, <2>1, <2>3 DEF FollowTrajectory
  <2> QED
    BY <2>2, <2>3
<1>4. CASE DisableWireFeed
  BY <1>4 DEF DisableWireFeed, SetWireFeed
<1>5. CASE AdvanceRetraction
  BY <1>5 DEF AdvanceRetraction
<1>6. ASSUME NEW clear \in BOOLEAN, VerifyClearance(clear)
      PROVE  RunInv'
  <2>1. stableCycles' \in 0 .. ClearanceStableCycles
    BY <1>6 DEF VerifyClearance
  <2>2. CASE clear /\ stableCycles' >= ClearanceStableCycles
    BY <1>6, <2>1, <2>2 DEF VerifyClearance
  <2>3. CASE ~(clear /\ stableCycles' >= ClearanceStableCycles)
    <3>1. stableCycles' < ClearanceStableCycles
      BY <1>6, <2>1, <2>3 DEF VerifyClearance
    <3> QED
      BY <1>6, <2>1, <2>3, <3>1 DEF VerifyClearance
  <2> QED
    BY <2>2, <2>3
<1>7. CASE ControlledStopEnds
  BY <1>7 DEF ControlledStopEnds
<1>8. CASE ControlledStopWaits
  BY <1>8 DEF ControlledStopWaits, executionVars
<1> QED
  BY <1>1, <1>2, <1>3, <1>4, <1>5, <1>6, <1>7, <1>8

\* A cycle runs on, fails or completes.
LEMMA CyclePreserves ==
    ASSUME RunInv, Cycle
    PROVE  RunInv'
<1>1. PICK in \in Inputs :
          \/ StepRuns(in) /\ UNCHANGED dispatched
          \/ StepFails(in) /\ dispatched' = "STOPPING"
          \/ StepCompletes(in) /\ dispatched' = "INACTIVE"
  BY DEF Cycle
<1>2. CASE StepRuns(in) /\ UNCHANGED dispatched
  <2>1. CASE StartAbort(in)
    BY <1>2, <2>1, BeginAbortPreserves DEF StartAbort
  <2>2. CASE ~StartAbort(in)
    BY <1>2, <2>2, PhasePreserves DEF Cycle, StepRuns
  <2> QED
    BY <2>1, <2>2
<1>3. CASE StepFails(in) /\ dispatched' = "STOPPING"
  BY <1>3, FailPreserves DEF StepFails, FailOnStopInput, PhaseFails
<1>4. CASE StepCompletes(in) /\ dispatched' = "INACTIVE"
  BY <1>4
  DEF StepCompletes, executionVars, RunInv, RunTypeOK,
      WholePathBeforeRetraction, EndIsUnambiguous
<1> QED
  BY <1>1, <1>2, <1>3, <1>4

-----------------------------------------------------------------------------
(* Pauses, stops and the clock.                                            *)

\* A relay command from outside leaves only a run that is not stepped behind.
LEMMA OutsidePreserves ==
    ASSUME RunInv, PauseRun \/ PausedStep \/ Interrupt \/ StopStep
    PROVE  RunInv'
<1> USE PathExecutionAssumption
    DEF RunInv, RunTypeOK, WholePathBeforeRetraction, EndIsUnambiguous
<1>1. CASE PauseRun
  BY <1>1 DEF PauseRun, executionVars
<1>2. CASE PausedStep
  <2>1. PICK issued \in RelayReplies :
            RelayOff(issued)
            /\ dispatched' = IF issued THEN "PAUSED" ELSE "STOPPING"
    BY <1>2 DEF PausedStep
  <2>2. relay' \in BOOLEAN /\ (relay' => relay)
    BY <2>1 DEF RelayOff, SetWireFeed
  <2>3. dispatched = "PAUSING"
    BY <1>2 DEF PausedStep
  <2> QED
    BY <2>1, <2>2, <2>3 DEF RelayOff
<1>3. CASE Interrupt
  BY <1>3 DEF Interrupt, executionVars
<1>4. CASE StopStep
  <2>1. PICK issued \in RelayReplies :
            RelayOff(issued)
            /\ dispatched' = IF issued THEN "INACTIVE" ELSE "STOPPING"
    BY <1>4 DEF StopStep
  <2>2. relay' \in BOOLEAN
    BY <2>1 DEF RelayOff, SetWireFeed
  <2> QED
    BY <2>1, <2>2 DEF RelayOff
<1> QED
  BY <1>1, <1>2, <1>3, <1>4

\* A resumed Production configures the relay again, a Preview never needs it.
LEMMA ResumePreserves ==
    ASSUME RunInv, ResumeRun
    PROVE  RunInv'
<1> USE DEF RunInv, RunTypeOK, WholePathBeforeRetraction, EndIsUnambiguous
<1>1. dispatched \in {"PAUSING", "PAUSED"} /\ dispatched' = "STEPPED"
  BY DEF ResumeRun
<1>2. CASE phase = "FOLLOW_TRAJECTORY" /\ mode = "PRODUCTION"
  BY <1>1, <1>2 DEF ResumeRun, ResumeExecution
<1>3. CASE ~(phase = "FOLLOW_TRAJECTORY" /\ mode = "PRODUCTION")
  <2>1. UNCHANGED executionVars
    BY <1>3 DEF ResumeRun, ResumeExecution
  <2>2. phase = "FOLLOW_TRAJECTORY" => relay = (mode = "PRODUCTION")
    BY <1>1, <1>3
  <2> QED
    BY <1>1, <2>1, <2>2 DEF executionVars
<1> QED
  BY <1>2, <1>3

\* The clock only moves the time of a controlled stop.
LEMMA ClockPreserves ==
    ASSUME RunInv, ClockTicks
    PROVE  RunInv'
<1>1. stopElapsed' \in 0 .. StopTimeout
  BY PathExecutionAssumption
  DEF RunInv, RunTypeOK, ClockTicks, StopClockTicks
<1> QED
  BY <1>1
  DEF RunInv, RunTypeOK, WholePathBeforeRetraction, EndIsUnambiguous,
      ClockTicks, StopClockTicks

-----------------------------------------------------------------------------
\* Every step of a run, whatever its services answer and however it is paused,
\* aborted or stopped, keeps RunInv.
THEOREM RunInvariant == RunSpec => []RunInv
<1>1. RunInit => RunInv
  BY ZeroInRange
  DEF RunInit, Init, RunInv, RunTypeOK, WholePathBeforeRetraction,
      EndIsUnambiguous
<1>2. RunInv /\ [RunNext]_runVars => RunInv'
  <2> SUFFICES ASSUME RunInv, [RunNext]_runVars PROVE RunInv'
    OBVIOUS
  <2>1. CASE RunNext
    BY <2>1, StartPreserves, CyclePreserves, OutsidePreserves,
       ResumePreserves, ClockPreserves DEF RunNext
  <2>2. CASE UNCHANGED runVars
    BY <2>2
    DEF runVars, executionVars, RunInv, RunTypeOK, WholePathBeforeRetraction,
        EndIsUnambiguous
  <2> QED
    BY <2>1, <2>2
<1> QED
  BY <1>1, <1>2, PTL DEF RunSpec

\* The sample index, the stable readings and the clocks of a run stay inside their
\* bounds, and its requests, results and relay have the values of their types.
THEOREM RunTypes == RunSpec => []RunTypeOK
BY RunInvariant, PTL DEF RunInv

\* A sample is only read inside the trajectory, and the retraction only starts
\* when all of it was followed.
THEOREM WholePathFollowed == RunSpec => []WholePathBeforeRetraction
BY RunInvariant, PTL DEF RunInv

\* What the supervisor reads at the end of a run is unambiguous.
THEOREM EndUnambiguous == RunSpec => []EndIsUnambiguous
BY RunInvariant, PTL DEF RunInv

-----------------------------------------------------------------------------
(* The relay.                                                              *)

\* Only FOLLOW_TRAJECTORY advances the sample index.
LEMMA OnlyFollowAdvances ==
    ASSUME RunInv, RunNext, sampleIndex' = sampleIndex + 1
    PROVE  phase = "FOLLOW_TRAJECTORY" /\ dispatched = "STEPPED"
<1>1. sampleIndex \in Nat
  BY PathExecutionAssumption DEF RunInv, RunTypeOK
<1>2. sampleIndex' # sampleIndex /\ sampleIndex' # 0
  BY <1>1
<1>3. Cycle
  BY <1>2
  DEF RunNext, Start, Enter, PauseRun, PausedStep, ResumeRun, ResumeExecution,
      Interrupt, StopStep, RelayOff, ClockTicks, StopClockTicks, executionVars
<1>4. PICK in \in Inputs : StepRuns(in) \/ StepFails(in) \/ StepCompletes(in)
  BY <1>3 DEF Cycle
<1>5. StepRuns(in) /\ ~StartAbort(in)
  BY <1>2, <1>4
  DEF StepFails, FailOnStopInput, PhaseFails, Fail, StepCompletes,
      executionVars, StartAbort, BeginAbort
<1>6. FollowTrajectory(in)
  BY <1>2, <1>5
  DEF StepRuns, CheckPrerequisites, ConfigureWireFeed, DisableWireFeed,
      AdvanceRetraction, VerifyClearance, ControlledStopEnds,
      ControlledStopWaits, executionVars
<1> QED
  BY <1>3, <1>6 DEF FollowTrajectory, Cycle

\* Every sample of a Production run is written with the relay closed, every
\* sample of a Preview with the relay open, also after any number of pauses.
THEOREM SamplesWrittenWithRelay == RunSpec => SamplesMatchRelay
<1>1. RunInv /\ [RunNext]_runVars =>
          [sampleIndex' = sampleIndex + 1 =>
               relay = (mode = "PRODUCTION")]_runVars
  BY OnlyFollowAdvances DEF RunInv
<1> QED
  BY <1>1, RunInvariant, PTL DEF RunSpec, SamplesMatchRelay

\* If every relay command is issued, no step closes the relay outside a
\* Production run that follows its trajectory, or leaves it closed after one.
LEMMA RelayStep ==
    ASSUME FALSE \notin RelayReplies, RunInv,
           RelayOnlyWhileWelding, [RunNext]_runVars
    PROVE  RelayOnlyWhileWelding'
<1> USE DEF RelayOnlyWhileWelding
<1>1. ASSUME NEW issued \in RelayReplies, SetWireFeed(FALSE, issued)
      PROVE  relay' = FALSE
  BY <1>1, PathExecutionAssumption DEF SetWireFeed
<1>2. CASE Start
  BY <1>2 DEF Start, Enter
<1>3. CASE Cycle
  <2>1. dispatched = "STEPPED"
    BY <1>3 DEF Cycle
  <2>2. PICK in \in Inputs :
            \/ StepRuns(in) /\ UNCHANGED dispatched
            \/ StepFails(in)
            \/ StepCompletes(in)
    BY <1>3 DEF Cycle
  <2>3. CASE StepFails(in)
    BY <1>1, <2>3 DEF StepFails, FailOnStopInput, PhaseFails, Fail
  <2>4. CASE StepCompletes(in)
    BY <2>4 DEF StepCompletes, executionVars
  <2>5. CASE StartAbort(in)
    BY <1>1, <2>5 DEF StartAbort, BeginAbort
  <2>6. CASE StepRuns(in) /\ UNCHANGED dispatched /\ ~StartAbort(in)
    <3>1. CASE ConfigureWireFeed
      BY <2>1, <2>6, <3>1 DEF ConfigureWireFeed, SetWireFeed
    <3>2. CASE DisableWireFeed
      BY <3>2 DEF DisableWireFeed, SetWireFeed
    <3>3. CASE FollowTrajectory(in)
      BY <2>1, <2>6, <3>3 DEF FollowTrajectory
    <3> QED
      BY <2>1, <2>6, <3>1, <3>2, <3>3
      DEF StepRuns, CheckPrerequisites, AdvanceRetraction, VerifyClearance,
          ControlledStopEnds, ControlledStopWaits, executionVars
  <2> QED
    BY <2>2, <2>3, <2>4, <2>5, <2>6
<1>4. CASE PausedStep \/ StopStep
  BY <1>1, <1>4 DEF PausedStep, StopStep, RelayOff
<1>5. CASE PauseRun \/ Interrupt
  BY <1>5 DEF PauseRun, Interrupt, executionVars
<1>6. CASE ResumeRun
  BY <1>6 DEF ResumeRun, ResumeExecution, executionVars
<1>7. CASE ClockTicks
  BY <1>7 DEF ClockTicks, StopClockTicks
<1>8. CASE UNCHANGED runVars
  BY <1>8 DEF runVars, executionVars
<1> QED
  BY <1>2, <1>3, <1>4, <1>5, <1>6, <1>7, <1>8 DEF RunNext

\* Provided every relay command is issued when it is given, the relay is closed
\* only while a Production run follows its trajectory.
THEOREM RelayOnlyForWelding ==
    ASSUME FALSE \notin RelayReplies
    PROVE  RunSpec => []RelayOnlyWhileWelding
<1>1. RunInit => RelayOnlyWhileWelding
  BY DEF RunInit, Init, RelayOnlyWhileWelding
<1>2. RunInv /\ RelayOnlyWhileWelding /\ [RunNext]_runVars
          => RelayOnlyWhileWelding'
  BY RelayStep
<1> QED
  BY <1>1, <1>2, RunInvariant, PTL DEF RunSpec
=============================================================================
