----------------------------- MODULE Authoring -----------------------------
(***************************************************************************)
(* From taught points to a trajectory that may be followed: TEACHING and   *)
(* PATH_VALIDATION under the supervisor.                                   *)
(*                                                                         *)
(* This is what src/StateMachine/supervisor_task.c and state_machine.c do  *)
(* with the two states, and the part of the policy that concerns the       *)
(* program.  MOTION stands for a run or a homing that begins in IDLE,      *)
(* STOPPED for FAULT and EMERGENCY_STOP with the recovery from them.       *)
(***************************************************************************)
EXTENDS PathValidation

CONSTANTS
    MaxEdits,       \* bound on the edits of all drafts together
    MaxPrograms     \* bound on the programs that are begun

AuthoringAssumption == MaxEdits \in Nat /\ MaxPrograms \in Nat

ASSUME AuthoringAssumption

VARIABLES
    location,       \* activeState, as far as it matters here
    recorded,       \* recordedProgramAvailable
    validated,      \* validatedTrajectoryAvailable
    pending,        \* pending_teaching_event
    validating,     \* a step of PATH_VALIDATION is running
    nextProgram,    \* next_program_id
    edits           \* the edits so far

supervisorVars ==
    <<location, recorded, validated, pending, validating, nextProgram, edits>>
vars == <<teachingVars, validationVars, storage, supervisorVars>>

Locations == {"IDLE", "TEACHING", "PATH_VALIDATION", "MOTION", "STOPPED"}

AuthoringInit ==
    /\ Init
    /\ ValidationInit
    /\ location = "IDLE"
    /\ recorded = FALSE
    /\ validated = FALSE
    /\ pending = "NONE"
    /\ validating = FALSE
    /\ nextProgram = 1
    /\ edits = 0

\* LINE, ARC or CIRCLE in IDLE begins a new program, and is its first event.
BeginProgram ==
    /\ location = "IDLE"
    /\ nextProgram <= MaxPrograms
    /\ EnterTeaching(nextProgram)
    /\ pending' \in SegmentTypes
    /\ location' = "TEACHING"
    /\ validated' = FALSE
    /\ nextProgram' = nextProgram + 1
    /\ UNCHANGED <<validationVars, storage, recorded, validating, edits>>

\* A batch ends with a command for TEACHING, so no command replaces another.
Command ==
    /\ location = "TEACHING"
    /\ pending = "NONE"
    /\ pending' \in TeachingEvents
    /\ \/ edits < MaxEdits
       \/ pending' \in SegmentTypes \cup {"VALIDATE_PATH"}
       \/ pending' = "RECORD_POINT" /\ Len(draft.segments) = MaxSegments
    /\ UNCHANGED <<teachingVars, validationVars, storage, location, recorded,
                   validated, validating, nextProgram, edits>>

Edit ==
    /\ location = "TEACHING"
    /\ EditStep(pending)
    /\ edits' = edits + (draft'.revision - draft.revision)
    /\ pending' = "NONE"
    /\ UNCHANGED <<validationVars, storage, location, recorded, validated,
                   validating, nextProgram>>

\* The step that submits the draft ends TEACHING and enters PATH_VALIDATION
\* with a copy of it.
Submit ==
    /\ location = "TEACHING"
    /\ pending = "VALIDATE_PATH"
    /\ SubmitDraft
    /\ EnterValidation(draft')
    /\ location' = "PATH_VALIDATION"
    /\ recorded' = TRUE
    /\ validated' = FALSE
    /\ pending' = "NONE"
    /\ UNCHANGED <<validating, nextProgram, edits>>

BeginValidationStep ==
    /\ location = "PATH_VALIDATION"
    /\ ~validating
    /\ validating' = TRUE
    /\ UNCHANGED <<teachingVars, validationVars, storage, location, recorded,
                   validated, pending, nextProgram, edits>>

ContinueValidationStep ==
    /\ validating
    /\ ValidationTurn
    /\ UNCHANGED <<teachingVars, supervisorVars>>

EndValidationStep ==
    /\ validating
    /\ StepEnds
    /\ validating' = FALSE
    /\ IF validationPhase \in EndedPhases
       THEN /\ DropIndices
            /\ location' = "IDLE"
            /\ recorded' = TRUE
            /\ validated' = (validationPhase = "VALID")
       ELSE /\ NextStep
            /\ UNCHANGED <<location, recorded, validated>>
    /\ UNCHANGED <<teachingVars, pending, nextProgram, edits>>

\* RESET in IDLE and in PATH_VALIDATION, between two steps.
ResetProgram ==
    /\ location \in {"IDLE", "PATH_VALIDATION"}
    /\ ~validating
    /\ location' = "IDLE"
    /\ recorded' = FALSE
    /\ validated' = FALSE
    /\ UNCHANGED <<teachingVars, validationVars, storage, pending, validating,
                   nextProgram, edits>>

BeginMotion ==
    /\ location = "IDLE"
    /\ location' = "MOTION"
    /\ UNCHANGED <<teachingVars, validationVars, storage, recorded, validated,
                   pending, validating, nextProgram, edits>>

\* A RESET during the motion drops the program.
EndMotion ==
    /\ location = "MOTION"
    /\ location' = "IDLE"
    /\ \/ UNCHANGED <<recorded, validated>>
       \/ validated /\ recorded' = FALSE /\ validated' = FALSE
    /\ UNCHANGED <<teachingVars, validationVars, storage, pending, validating,
                   nextProgram, edits>>

StopInput ==
    /\ location # "STOPPED"
    /\ ~validating
    /\ location' = "STOPPED"
    /\ UNCHANGED <<teachingVars, validationVars, storage, recorded, validated,
                   pending, validating, nextProgram, edits>>

\* The recovery drops the program.
Recover ==
    /\ location = "STOPPED"
    /\ location' = "IDLE"
    /\ recorded' = FALSE
    /\ validated' = FALSE
    /\ UNCHANGED <<teachingVars, validationVars, storage, pending, validating,
                   nextProgram, edits>>

\* After a write past the segment nothing more is followed.
Lost == teachingPhase = "OVERRUN" /\ UNCHANGED vars

Next ==
    \/ /\ teachingPhase # "OVERRUN"
       /\ \/ BeginProgram
          \/ Command
          \/ Edit
          \/ Submit
          \/ BeginValidationStep
          \/ ContinueValidationStep
          \/ EndValidationStep
          \/ ResetProgram
          \/ BeginMotion
          \/ EndMotion
          \/ StopInput
          \/ Recover
    \/ Lost

Spec == AuthoringInit /\ [][Next]_vars

\* The supervisor runs every period, and a step once begun is finished.
FairSpec ==
    /\ Spec
    /\ WF_vars(BeginValidationStep \/ ContinueValidationStep \/ EndValidationStep)

-----------------------------------------------------------------------------
(* Properties.                                                             *)

SegmentTypeOK(segment) ==
    /\ segment.type \in SegmentTypes
    /\ segment.speed \in 1 .. MaxSpeed
    /\ Len(segment.points) = RequiredPoints[segment.type]
    /\ \A p \in 1 .. Len(segment.points) : segment.points[p] \in Points

\* No draft is longer than its array, no counter of the validation passes its
\* bound, and every field holds a value of its kind.
AuthoringTypeOK ==
    /\ teachingPhase \in TeachingPhases
    /\ draft.status \in DraftStatuses
    /\ draft.revision \in 0 .. MaxEdits
    /\ Len(draft.segments) \in 0 .. MaxSegments
    /\ \A i \in 1 .. Len(draft.segments) : SegmentTypeOK(draft.segments[i])
    /\ selected \in SegmentTypes \cup {"NONE"}
    /\ Len(working) \in 0 .. MaxPointsPerSegment
    /\ speed \in 0 .. MaxSpeed
    /\ workingSpeed \in 0 .. MaxSpeed
    /\ validationPhase \in ValidationPhases
    /\ segmentIndex \in 1 .. MaxSegments + 1
    /\ nextSample \in 0 .. MaxStream
    /\ sampleIndex \in 0 .. StorageCapacity
    /\ samplesUsed \in 0 .. SampleBudget
    /\ location \in Locations

Chained(segments) ==
    \A i \in 1 .. Len(segments) - 1 : segments[i + 1].points[1] = EndPoint(segments[i])

\* Every segment starts exactly where the one before it ends, whatever was
\* rejected, dropped or reset in between.  The validation leaves out the first
\* sample of a segment and relies on it.
SegmentsAreChained == Chained(draft.segments)

\* A stored segment has an extent: no two points in a row are the same place,
\* and the points of an arc or circle span a plane.
SegmentsHaveExtent ==
    \A i \in 1 .. Len(draft.segments) :
        LET points == draft.segments[i].points
        IN /\ \A p \in 1 .. Len(points) - 1 : points[p].place # points[p + 1].place
           /\ Len(points) = 3 =>
                  <<points[1].place, points[2].place, points[3].place>>
                      \notin CollinearTriples

\* One operator-selected speed for the whole draft: the segments that are
\* stored, the one in work and the one the operator sees agree.
OneSpeedPerDraft ==
    location = "TEACHING" =>
        /\ \A i \in 1 .. Len(draft.segments) : draft.segments[i].speed = speed
        /\ teachingPhase = "WAIT_POINT" => workingSpeed = speed

\* A draft is a chain of segments that have an extent, at one speed, across every
\* rejected, dropped or repeated point, every change of speed and every reset
\* (state_teaching.c:678, :820, :1136).
DraftIsSound ==
    /\ AuthoringTypeOK
    /\ SegmentsAreChained
    /\ SegmentsHaveExtent
    /\ OneSpeedPerDraft

\* What TEACHING submits passes the checks of the snapshot and of its structure:
\* a rejection is always about the motion.
SubmissionIsWellFormed ==
    validationError \notin
        {"DRAFT_CRC_MISMATCH", "EMPTY_PROGRAM", "INCOMPLETE_SEGMENT", "SETUP_MISMATCH",
         "STORAGE"}

\* The samples of the first n segments together.
SamplesOfFirst[n \in 0 .. MaxSegments] ==
    IF n = 0 THEN 0 ELSE SamplesOfFirst[n - 1] + storage.metadata.counts[n]

\* The trajectory that may be followed is whole: it starts at the first taught
\* point, no sample of it is missing, and it passes through the end of every
\* segment, where the next one starts.
TrajectoryIsWhole ==
    validated =>
        LET segments == submitted.segments
            samples == storage.samples
            Commands(n, place) == n \in 1 .. Len(samples) /\ samples[n] = place
        IN /\ Commands(1, segments[1].points[1].place)
           /\ \A i \in 1 .. Len(segments) :
                  Commands(SamplesOfFirst[i], EndPoint(segments[i]).place)
           /\ \A i \in 2 .. Len(segments) :
                  Commands(SamplesOfFirst[i - 1], segments[i].points[1].place)

\* The trajectory that may be followed is committed, holds as many samples as it
\* says, and names the program, revision and contents that were submitted.
TrajectoryIsOfSubmission ==
    validated =>
        /\ storage.committed
        /\ storage.metadata.samples = Len(storage.samples)
        /\ storage.metadata.checksum = Contents(submitted)
        /\ storage.metadata.id = submitted.id
        /\ storage.metadata.revision = submitted.revision

\* A program number and a revision stand for one contents only.
RevisionIdentifiesDraft ==
    [][draft'.id = draft.id /\ draft'.segments # draft.segments =>
           draft'.revision > draft.revision]_vars

\* A validation that is left alone comes to a result.
ValidationEnds ==
    location = "PATH_VALIDATION" ~> location # "PATH_VALIDATION"

\* A point is recorded into the segment in work, never behind it.
PointsFitSegment == teachingPhase # "OVERRUN"
=============================================================================
