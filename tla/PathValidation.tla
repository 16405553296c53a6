--------------------------- MODULE PathValidation ---------------------------
(***************************************************************************)
(* The PATH_VALIDATION state and the storage it writes to:                 *)
(* src/StateMachine/States/state_path_validation.c and the RAM storage of  *)
(* src/Simulation/supervisor_mock_main.c.                                  *)
(*                                                                         *)
(* The submitted program is sampled segment by segment.  A stream gives    *)
(* the samples of one segment, sample 0 at its start and the last one at   *)
(* its end; after the first segment, sample 0 is left out because the      *)
(* segment before it ended there.  A sample is the place it commands: the  *)
(* end point of a segment, or a point inside it.  Inverse kinematics, the  *)
(* limits and the other checks of a sample are one outcome, passed or not. *)
(***************************************************************************)
EXTENDS Teaching

CONSTANTS
    MaxStream,          \* bound on the samples of a segment
    StorageCapacity,    \* SIM_PV_STORAGE_CAPACITY
    SampleBudget        \* validation_sample_budget: samples of one step

ValidationAssumption ==
    /\ MaxStream \in Nat \ {0, 1}
    /\ StorageCapacity \in Nat \ {0}
    /\ SampleBudget \in Nat \ {0}

ASSUME ValidationAssumption

VARIABLES
    submitted,          \* submitted_program, which nothing changes while it is checked
    validationPhase,
    validationError,
    segmentIndex,       \* the segment in work, from 1
    streamLength,       \* the samples of its stream
    nextSample,         \* nextSampleIndex of the stream
    counts,             \* artifact->segments[].sample_count
    sampleIndex,
    samplesUsed,        \* samples_used of the step that is running
    storage             \* RamValidatedStorage: its flags, samples and metadata

validationVars ==
    <<submitted, validationPhase, validationError, segmentIndex, streamLength,
      nextSample, counts, sampleIndex, samplesUsed>>

\* The two phases in which a validation has a result.
EndedPhases == {"VALID", "INVALID"}
ValidationPhases ==
    {"IDLE", "SNAPSHOT_CHECK", "STRUCTURAL_CHECK", "PREPARE_SEGMENT",
     "GENERATE_AND_VALIDATE_SAMPLE", "FINALIZE"} \cup EndedPhases

NoMetadata == << >>
Metadata ==
    [id |-> submitted.id, revision |-> submitted.revision,
     checksum |-> submitted.checksum, counts |-> counts, samples |-> sampleIndex]

ValidationInit ==
    /\ submitted = EmptyDraft(0, 0)
    /\ validationPhase = "IDLE"
    /\ validationError = "NONE"
    /\ segmentIndex = 1
    /\ streamLength = 0
    /\ nextSample = 0
    /\ counts = << >>
    /\ sampleIndex = 0
    /\ samplesUsed = 0
    /\ storage = [writing |-> FALSE, committed |-> FALSE, samples |-> << >>,
                  metadata |-> NoMetadata]

-----------------------------------------------------------------------------
(* The storage.                                                            *)

\* Mutant: a new validation writes behind the samples of the last one.
BugBeginKeepsSamples ==
    storage' = [storage EXCEPT !.writing = TRUE, !.committed = FALSE]

Begin ==
    storage' = [writing |-> TRUE, committed |-> FALSE, samples |-> << >>,
                metadata |-> NoMetadata]

\* A sample is written at its index, over what is there.
Write(sample) ==
    storage' = [storage EXCEPT !.samples =
                    IF sampleIndex < Len(@) THEN [@ EXCEPT ![sampleIndex + 1] = sample]
                    ELSE Append(@, sample)]

Commit ==
    storage' = [storage EXCEPT !.writing = FALSE, !.committed = TRUE,
                               !.metadata = Metadata]

AbortStorage ==
    storage' = [storage EXCEPT !.writing = FALSE, !.committed = FALSE,
                               !.samples = << >>]

-----------------------------------------------------------------------------
(* The validation.                                                         *)

\* What a memset() at the start of a validation leaves of the program.
EnterValidation(program) ==
    /\ submitted' = program
    /\ validationPhase' = "SNAPSHOT_CHECK"
    /\ validationError' = "NONE"
    /\ segmentIndex' = 1
    /\ streamLength' = 0
    /\ nextSample' = 0
    /\ counts' = << >>
    /\ sampleIndex' = 0
    /\ samplesUsed' = 0
    /\ Begin

Invalid(error) ==
    /\ validationPhase' = "INVALID"
    /\ validationError' = error
    /\ AbortStorage
    /\ UNCHANGED <<submitted, segmentIndex, streamLength, nextSample, counts,
                   sampleIndex, samplesUsed>>

Proceed(phase) ==
    /\ validationPhase' = phase
    /\ UNCHANGED <<submitted, validationError, segmentIndex, streamLength, nextSample,
                   counts, sampleIndex, samplesUsed, storage>>

\* The program must be the one that was submitted, checksum and all.
SnapshotCheck ==
    /\ validationPhase = "SNAPSHOT_CHECK"
    /\ IF submitted.checksum # Contents(submitted) THEN Invalid("DRAFT_CRC_MISMATCH")
       ELSE IF submitted.segments = << >> THEN Invalid("EMPTY_PROGRAM")
       ELSE Proceed("STRUCTURAL_CHECK")

CompleteSegment(segment) == Len(segment.points) = RequiredPoints[segment.type]

SetupsOf(segment) == {segment.points[p].setup : p \in 1 .. Len(segment.points)}

OneSetup(program) ==
    \A i, j \in 1 .. Len(program.segments) :
        \A x \in SetupsOf(program.segments[i]), y \in SetupsOf(program.segments[j]) :
            x = y

StructuralCheck ==
    /\ validationPhase = "STRUCTURAL_CHECK"
    /\ IF \E i \in 1 .. Len(submitted.segments) :
              ~CompleteSegment(submitted.segments[i])
       THEN Invalid("INCOMPLETE_SEGMENT")
       ELSE IF ~OneSetup(submitted) THEN Invalid("SETUP_MISMATCH")
       ELSE Proceed("PREPARE_SEGMENT")

Segment == submitted.segments[segmentIndex]

\* 0.100F, the largest speed TEACHING sets, as the double it is compared with,
\* and max_tcp_speed_mps, in nanometres per second.
FastestTaught == 100000001
FastestValidated == 100000000

TooFast == Segment.speed = MaxSpeed /\ FastestTaught > FastestValidated

\* The stream of a later segment starts at its second sample.
FirstSample == IF segmentIndex = 1 THEN 0 ELSE 1

\* The stream has a geometry and a profile, or its initialisation fails.  A
\* segment that is long enough takes more than one period.
PrepareSegment ==
    /\ validationPhase = "PREPARE_SEGMENT"
    /\ \/ TooFast /\ Invalid("INVALID_PARAMETER")
       \/ ~TooFast /\ Invalid("GEOMETRY")
       \/ /\ ~TooFast
          /\ streamLength' \in 2 .. MaxStream
          /\ nextSample' = FirstSample
          /\ counts' = Append(counts, 0)
          /\ validationPhase' = "GENERATE_AND_VALIDATE_SAMPLE"
          /\ UNCHANGED <<submitted, validationError, segmentIndex, sampleIndex,
                         samplesUsed, storage>>

\* Where sample n of the stream commands the robot to.
PlaceOf(n) ==
    IF n = 0 THEN Segment.points[1].place
    ELSE IF n = streamLength - 1 THEN EndPoint(Segment).place
    ELSE <<segmentIndex, n>>

PhaseAfterSample ==
    IF nextSample + 1 < streamLength THEN "GENERATE_AND_VALIDATE_SAMPLE"
    ELSE IF segmentIndex < Len(submitted.segments) THEN "PREPARE_SEGMENT"
    ELSE "FINALIZE"

\* Mutant: a rejected sample is left out and the validation goes on.
BugSkipRejectedSample ==
    /\ validationPhase = "GENERATE_AND_VALIDATE_SAMPLE"
    /\ validationPhase' = PhaseAfterSample
    /\ segmentIndex' = IF nextSample + 1 < streamLength THEN segmentIndex
                       ELSE segmentIndex + 1
    /\ nextSample' = nextSample + 1
    /\ samplesUsed' = samplesUsed + 1
    /\ UNCHANGED <<submitted, validationError, streamLength, counts, sampleIndex,
                   storage>>

\* The sample fails a check, or does not fit into the storage.
RejectSample ==
    /\ validationPhase = "GENERATE_AND_VALIDATE_SAMPLE"
    /\ Invalid("SAMPLE")

\* The sample passed every check and is stored.
StoreSample ==
    /\ validationPhase = "GENERATE_AND_VALIDATE_SAMPLE"
    /\ sampleIndex < StorageCapacity
    /\ storage.writing
    /\ Write(PlaceOf(nextSample))
    /\ counts' = [counts EXCEPT ![segmentIndex] = @ + 1]
    /\ sampleIndex' = sampleIndex + 1
    /\ nextSample' = nextSample + 1
    /\ samplesUsed' = samplesUsed + 1
    /\ validationPhase' = PhaseAfterSample
    /\ segmentIndex' = IF nextSample + 1 < streamLength THEN segmentIndex
                       ELSE segmentIndex + 1
    /\ UNCHANGED <<submitted, validationError, streamLength>>

Finalize ==
    /\ validationPhase = "FINALIZE"
    /\ IF ~storage.writing \/ sampleIndex > Len(storage.samples) THEN Invalid("STORAGE")
       ELSE /\ validationPhase' = "VALID"
            /\ Commit
            /\ UNCHANGED <<submitted, validationError, segmentIndex, streamLength,
                           nextSample, counts, sampleIndex, samplesUsed>>

\* One turn of the loop of state_path_validation_step().
ValidationTurn ==
    /\ samplesUsed < SampleBudget
    /\ \/ SnapshotCheck
       \/ StructuralCheck
       \/ PrepareSegment
       \/ RejectSample
       \/ StoreSample
       \/ Finalize

\* Mutant: only the budget ends the step.
BugStepEndsWithBudget == samplesUsed = SampleBudget

\* The loop ends with a result or with the budget of the step.
StepEnds == validationPhase \in EndedPhases \/ samplesUsed = SampleBudget

\* The step that has no result yet leaves everything to the next one.
NextStep ==
    /\ samplesUsed' = 0
    /\ UNCHANGED <<submitted, validationPhase, validationError, segmentIndex,
                   streamLength, nextSample, counts, sampleIndex, storage>>

\* With a result, the indices are for the report only, and are dropped here.
DropIndices ==
    /\ segmentIndex' = 1
    /\ streamLength' = 0
    /\ nextSample' = 0
    /\ counts' = << >>
    /\ sampleIndex' = 0
    /\ samplesUsed' = 0
    /\ UNCHANGED <<submitted, validationPhase, validationError, storage>>
=============================================================================
