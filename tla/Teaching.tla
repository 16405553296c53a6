------------------------------ MODULE Teaching ------------------------------
(***************************************************************************)
(* The TEACHING state: src/StateMachine/States/state_teaching.c.           *)
(*                                                                         *)
(* The operator builds a draft of segments point by point: a line has two  *)
(* points, an arc and a circle three, and every segment after the first    *)
(* starts where the one before it ends.                                    *)
(*                                                                         *)
(* A point is the place the robot was recorded at and the setup it was     *)
(* recorded with (frame, tool and calibration).  Two different places are  *)
(* further apart than minimum_point_separation_m.  A speed is a multiple   *)
(* of speed_step_mps.  The checksum of a draft is its contents: two drafts *)
(* that differ have different checksums.  The outputs for the panel are    *)
(* left out; an input that is rejected changes nothing else.               *)
(***************************************************************************)
EXTENDS Naturals, Sequences

CONSTANTS
    Positions,          \* where the robot can be when a point is recorded
    Setups,             \* frame, tool and calibration in force
    FirstPoints,        \* where a draft may begin: one of each kind is enough
    CollinearTriples,   \* the triples of places that give no circle
    MaxSegments,        \* TEACHING_MAX_SEGMENTS
    MaxSpeed,           \* maximum_speed_mps, in speed steps
    DefaultSpeed

SegmentTypes == {"LINE", "ARC", "CIRCLE"}
MaxPointsPerSegment == 3

\* A triple that comes back to its first place is one of them: its points span
\* no area.
Points == [place : Positions, setup : Setups]

TeachingAssumption ==
    /\ FirstPoints \subseteq Points
    /\ MaxSegments \in Nat \ {0}
    /\ MaxSpeed \in Nat \ {0}
    /\ DefaultSpeed \in 1 .. MaxSpeed
    /\ CollinearTriples \subseteq Positions \X Positions \X Positions
    /\ \A p, q \in Positions : <<p, q, p>> \in CollinearTriples

ASSUME TeachingAssumption

VARIABLES
    teachingPhase,
    draft,          \* TaughtProgram: its number, revision, checksum, segments
    selected,       \* selected_segment_type
    working,        \* the points captured for the segment in work
    workingSpeed,   \* working_segment.speed_mps
    speed           \* teaching_speed_mps

teachingVars == <<teachingPhase, draft, selected, working, workingSpeed, speed>>

\* OVERRUN stands for what follows a point that is written past the array of
\* the segment in work: the fields behind it are overwritten, and nothing more
\* is said of the program.
TeachingPhases ==
    {"WAIT_SEGMENT_SELECTION", "WAIT_POINT", "SEGMENT_COMPLETE",
     "SUBMITTING_DRAFT", "OVERRUN"}

DraftStatuses == {"EMPTY", "EDITING", "COMPLETE", "SUBMITTED"}

RequiredPoints == [LINE |-> 2, ARC |-> 3, CIRCLE |-> 3]

\* A full circle ends at its first point.
EndPoint(segment) ==
    segment.points[CASE segment.type = "LINE" -> 2
                     [] segment.type = "ARC" -> 3
                     [] segment.type = "CIRCLE" -> 1]

Contents(program) == <<program.id, program.revision, program.segments>>
NoChecksum == << >>

EmptyDraft(id, revision) ==
    [id |-> id, revision |-> revision, checksum |-> NoChecksum,
     segments |-> << >>, status |-> "EMPTY"]

\* The draft after an edit: a new revision, without a checksum.
Edited(segments, status) ==
    [draft EXCEPT !.revision = @ + 1, !.checksum = NoChecksum,
                  !.segments = segments, !.status = status]

\* The context of the supervisor is zeroed before its first cycle.
Init ==
    /\ teachingPhase = "WAIT_SEGMENT_SELECTION"
    /\ draft = EmptyDraft(0, 0)
    /\ selected = "NONE"
    /\ working = << >>
    /\ workingSpeed = 0
    /\ speed = 0

\* Whatever was taught before is gone.
EnterTeaching(id) ==
    /\ teachingPhase' = "WAIT_SEGMENT_SELECTION"
    /\ draft' = EmptyDraft(id, 0)
    /\ selected' = "NONE"
    /\ working' = << >>
    /\ workingSpeed' = 0
    /\ speed' = DefaultSpeed

\* The speed outlives a reset.
ResetDraft ==
    /\ teachingPhase' = "WAIT_SEGMENT_SELECTION"
    /\ draft' = EmptyDraft(draft.id, draft.revision + 1)
    /\ selected' = "NONE"
    /\ working' = << >>
    /\ workingSpeed' = 0
    /\ UNCHANGED speed

-----------------------------------------------------------------------------
(* Selecting a segment.                                                    *)

SegmentOpen == teachingPhase = "WAIT_POINT" /\ working # << >>

LastSegment == draft.segments[Len(draft.segments)]

\* Mutant: every segment starts at the last point of the one before it.
BugInheritLastPoint ==
    IF draft.segments = << >> THEN << >>
    ELSE <<LastSegment.points[Len(LastSegment.points)]>>

\* The points a new segment starts with.
InheritedPoints ==
    IF draft.segments = << >> THEN << >> ELSE <<EndPoint(LastSegment)>>

SelectSegment(type) ==
    /\ ~SegmentOpen
    /\ selected' = type
    /\ working' = InheritedPoints
    /\ workingSpeed' = speed
    /\ teachingPhase' = "WAIT_POINT"
    /\ draft' = [draft EXCEPT !.status = "EDITING"]
    /\ UNCHANGED speed

-----------------------------------------------------------------------------
(* Recording a point.                                                      *)

\* Mutant: the points of the first segment are not compared with each other.
BugCompareWithDraftOnly(setup) ==
    draft.segments # << >> => setup = draft.segments[1].points[1].setup

\* check_program_identity(): one setup for the whole draft.
SameSetup(setup) ==
    IF draft.segments # << >> THEN setup = draft.segments[1].points[1].setup
    ELSE working # << >> => setup = working[1].setup

\* The capture is permitted, with this setup and at a place of its own.
CaptureAllowed(point) ==
    /\ teachingPhase = "WAIT_POINT"
    /\ SameSetup(point.setup)
    /\ working # << >> => working[Len(working)].place # point.place

Collinear(points) ==
    /\ selected \in {"ARC", "CIRCLE"}
    /\ <<points[1].place, points[2].place, points[3].place>> \in CollinearTriples

\* The third point of an arc or circle may be taken again.
DropThirdPoint(points) ==
    /\ working' = SubSeq(points, 1, 2)
    /\ UNCHANGED <<teachingPhase, draft, selected, workingSpeed, speed>>

KeepPoint(points) ==
    /\ working' = points
    /\ UNCHANGED <<teachingPhase, draft, selected, workingSpeed, speed>>

StoreSegment(points) ==
    /\ working' = points
    /\ draft' = Edited(Append(draft.segments, [type |-> selected, points |-> points,
                                               speed |-> workingSpeed]),
                       "COMPLETE")
    /\ teachingPhase' = "SEGMENT_COMPLETE"
    /\ UNCHANGED <<selected, workingSpeed, speed>>

WritePastSegment ==
    /\ teachingPhase' = "OVERRUN"
    /\ UNCHANGED <<draft, selected, working, workingSpeed, speed>>

\* A full draft keeps the points of the segment it refuses.
CapturePoint(points) ==
    IF Len(points) < RequiredPoints[selected] THEN KeepPoint(points)
    ELSE IF Collinear(points) THEN DropThirdPoint(points)
    ELSE IF Len(draft.segments) = MaxSegments THEN KeepPoint(points)
    ELSE StoreSegment(points)

RecordPoint(point) ==
    /\ CaptureAllowed(point)
    /\ IF Len(working) = MaxPointsPerSegment THEN WritePastSegment
       ELSE CapturePoint(Append(working, point))

-----------------------------------------------------------------------------
(* Speed and submission.                                                   *)

\* One speed for the whole draft.
ChangeSpeed(requested) ==
    /\ speed' = requested
    /\ workingSpeed' = requested
    /\ draft' = Edited([i \in 1 .. Len(draft.segments) |->
                            [draft.segments[i] EXCEPT !.speed = requested]],
                       draft.status)
    /\ UNCHANGED <<teachingPhase, selected, working>>

SpeedAfter(event) ==
    CASE event = "SPEED_INCREASE" -> IF speed < MaxSpeed THEN speed + 1 ELSE speed
      [] event = "SPEED_DECREASE" -> IF speed > 1 THEN speed - 1 ELSE speed
      [] event = "SPEED_DEFAULT" -> DefaultSpeed

SubmissionAllowed ==
    /\ ~SegmentOpen
    /\ draft.segments # << >>
    /\ teachingPhase # "OVERRUN"

SubmitDraft ==
    /\ SubmissionAllowed
    /\ draft' = [draft EXCEPT !.status = "SUBMITTED", !.checksum = Contents(draft)]
    /\ teachingPhase' = "SUBMITTING_DRAFT"
    /\ UNCHANGED <<selected, working, workingSpeed, speed>>

-----------------------------------------------------------------------------
(* One step of the state with the event of the operator.                   *)

SpeedEvents == {"SPEED_INCREASE", "SPEED_DECREASE", "SPEED_DEFAULT"}
TeachingEvents ==
    SegmentTypes \cup SpeedEvents \cup {"RECORD_POINT", "VALIDATE_PATH", "RESET"}

\* The robot may be anywhere when the operator asks for a point.
PointsNow == IF draft.segments = << >> /\ working = << >> THEN FirstPoints ELSE Points

\* capture_is_permitted() may refuse the point.
RecordStep ==
    \/ UNCHANGED teachingVars
    \/ \E point \in PointsNow : RecordPoint(point)

\* A submitted draft is locked: TEACHING is left in the step that submits it.
EditStep(event) ==
    /\ draft.status # "SUBMITTED"
    /\ teachingPhase # "OVERRUN"
    /\ \/ event \in SegmentTypes /\ SelectSegment(event)
       \/ event \in SegmentTypes /\ SegmentOpen /\ UNCHANGED teachingVars
       \/ event = "RECORD_POINT" /\ RecordStep
       \/ event \in SpeedEvents /\ ChangeSpeed(SpeedAfter(event))
       \/ event = "VALIDATE_PATH" /\ ~SubmissionAllowed /\ UNCHANGED teachingVars
       \/ event = "RESET" /\ ResetDraft
=============================================================================
