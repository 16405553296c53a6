---------------------------- MODULE SampleCheck ----------------------------
(***************************************************************************)
(* What PATH_VALIDATION does with a segment and with a sample:             *)
(* prepare_segment(), generate_controlcore_sample() and                    *)
(* validate_and_store_sample() of state_path_validation.c.                 *)
(*                                                                         *)
(* PathValidation leaves open how long a stream is, where its samples lie  *)
(* and which of them pass; here the stream runs and every check of a       *)
(* sample is made, in its order.  Speed and acceleration of a joint are    *)
(* given per period.  The structural check has left no segment of another  *)
(* type and no circle without a direction.                                 *)
(***************************************************************************)
EXTENDS SegmentStream

CONSTANT
    Config      \* PathValidationConfig, the limits of the robot and the storage

VARIABLES
    program,        \* the segments that are checked
    arm,            \* how the solver behaves and where the arm may not go
    checkPhase,
    checkError,
    segment,        \* segment_index, from 1
    checkStream,    \* line_stream or circular_stream, whichever is active
    previous,       \* previous_q, previous_qd and whether they are valid
    sampleIndex,
    counts,
    writing,
    committed,
    stored          \* the samples in the storage

checkVars == <<program, arm, checkPhase, checkError, segment, checkStream, previous,
               sampleIndex, counts, writing, committed, stored>>

NoPrevious == [qValid |-> FALSE, q |-> <<0, 0>>, qdValid |-> FALSE, qd |-> <<0, 0>>]

CheckInit(segments, behaviour, phase) ==
    /\ program = segments
    /\ arm = behaviour
    /\ checkPhase = phase
    /\ checkError = "NONE"
    /\ segment = 1
    /\ checkStream = NoStream
    /\ previous = NoPrevious
    /\ sampleIndex = 0
    /\ counts = << >>
    /\ writing = TRUE
    /\ committed = FALSE
    /\ stored = << >>

\* The result is reported and the storage is given up.  The stream and the
\* indices are cleared by the next validation, and nothing reads them before.
Fail(error) ==
    /\ checkPhase' = "INVALID"
    /\ checkError' = error
    /\ writing' = FALSE
    /\ stored' = << >>
    /\ UNCHANGED <<program, arm, segment, checkStream, previous, sampleIndex, counts,
                   committed>>

-----------------------------------------------------------------------------
(* A segment.                                                              *)

Piece == program[segment]

\* A segment without a speed of its own has the default one.
SpeedOf(piece) == IF piece.speed > 0 THEN piece.speed ELSE Config.defaultSpeed

\* Where inverse kinematics starts: at the last command, before the first one
\* where the operator recorded the first point.
Seed == IF previous.qValid THEN previous.q ELSE Piece.taught

RequestOf(piece, seed) ==
    [points |-> piece.points, speed |-> SpeedOf(piece), seed |-> seed,
     acceleration |-> Config.acceleration, jerk |-> Config.jerk, dt |-> Config.period,
     count |-> Config.geometryPoints,
     spacing |-> Config.spacing, capacity |-> Config.geometryCapacity]

StreamOf(piece, seed) ==
    IF piece.type = "LINE" THEN single_line_stream_init(RequestOf(piece, seed))
    ELSE single_circular_stream_init(RequestOf(piece, seed))

InitFailure(stream) ==
    IF stream.status = "GEOMETRY_FAILED" THEN "DEGENERATE_GEOMETRY"
    ELSE "INVALID_PARAMETER"

\* Mutant: every segment starts at its first sample, where the last one ended.
BugFirstIndex == 0

\* A later segment leaves out the sample that commands where the robot is.
FirstIndex == IF segment = 1 THEN 0 ELSE 1

\* Mutant: the first command of a segment is not compared with the last one.
BugPrepareSegment ==
    /\ checkPhase = "PREPARE_SEGMENT"
    /\ LET stream == StreamOf(Piece, Seed)
       IN IF SpeedOf(Piece) > Config.speedLimit THEN Fail("INVALID_PARAMETER")
          ELSE IF ~stream.initialized THEN Fail(InitFailure(stream))
          ELSE IF stream.path.total < Config.minimumLength
          THEN Fail("ZERO_LENGTH_SEGMENT")
          ELSE /\ checkStream' = [stream EXCEPT !.next = FirstIndex]
               /\ counts' = Append(counts, 0)
               /\ previous' = [previous EXCEPT !.qValid = FALSE, !.qdValid = FALSE]
               /\ checkPhase' = "GENERATE_AND_VALIDATE_SAMPLE"
               /\ UNCHANGED <<program, arm, checkError, segment, sampleIndex,
                              writing, committed, stored>>

PrepareSegment ==
    /\ checkPhase = "PREPARE_SEGMENT"
    /\ LET stream == StreamOf(Piece, Seed)
       IN IF SpeedOf(Piece) > Config.speedLimit THEN Fail("INVALID_PARAMETER")
          ELSE IF ~stream.initialized THEN Fail(InitFailure(stream))
          ELSE IF stream.path.total < Config.minimumLength
          THEN Fail("ZERO_LENGTH_SEGMENT")
          ELSE /\ checkStream' = [stream EXCEPT !.next = FirstIndex]
               /\ counts' = Append(counts, 0)
               /\ checkPhase' = "GENERATE_AND_VALIDATE_SAMPLE"
               /\ UNCHANGED <<program, arm, checkError, segment, previous, sampleIndex,
                              writing, committed, stored>>

-----------------------------------------------------------------------------
(* The checks of a sample.                                                 *)

\* To the nearest position of the drive, a half away from zero.
a6ec_joint_rad_to_position_units(q) ==
    IF q >= 0 THEN (2 * q + Config.quantum) \div (2 * Config.quantum)
    ELSE -((2 * (-q) + Config.quantum) \div (2 * Config.quantum))

a6ec_position_units_to_joint_rad(units) == units * Config.quantum

\* The joints that the drives are commanded to.
Quantized(q) ==
    [joint \in 1 .. 2 |->
        a6ec_position_units_to_joint_rad(a6ec_joint_rad_to_position_units(q[joint]))]

Singular(q) == control_fk(q)[1] \in arm.singular
Collides(q) == control_fk(q)[1] \in arm.blocked

\* The checks of one joint that has moved since the last command.  The speed
\* needs a command before it, the acceleration a speed before it.
JointError(joint, q, moved) ==
    IF q[joint] < Config.lowest \/ q[joint] > Config.highest THEN "JOINT_POSITION"
    ELSE IF ~previous.qValid THEN "NONE"
    ELSE IF Abs(moved[joint]) > Config.maximumStep THEN "JOINT_DISCONTINUITY"
    ELSE IF Abs(moved[joint]) > Config.jointSpeed THEN "JOINT_VELOCITY"
    ELSE IF /\ previous.qdValid
            /\ Abs(moved[joint] - previous.qd[joint]) > Config.jointAcceleration
    THEN "JOINT_ACCELERATION"
    ELSE "NONE"

\* Joint after joint, the first that fails decides.
JointsError(q, moved) ==
    IF JointError(1, q, moved) # "NONE" THEN JointError(1, q, moved)
    ELSE JointError(2, q, moved)

Moved(q) == [joint \in 1 .. 2 |-> IF previous.qValid THEN q[joint] - previous.q[joint]
                                  ELSE 0]

\* The first check that the sample fails.
SampleError(sample) ==
    LET q == Quantized(sample.q)
    IN IF sampleIndex >= Config.storageCapacity THEN "SAMPLE_CAPACITY"
       ELSE IF \E joint \in 1 .. 2 :
                   Abs(q[joint] - sample.q[joint]) > Config.quantizationError
       THEN "POSITION_CONVERSION"
       ELSE IF Singular(q) THEN "SINGULARITY_MARGIN"
       ELSE IF Apart(control_fk(q), sample.place) > Config.positionError
       THEN "FK_POSITION"
       ELSE IF JointsError(q, Moved(q)) # "NONE" THEN JointsError(q, Moved(q))
       ELSE IF Collides(q) THEN "COLLISION"
       ELSE IF sampleIndex = arm.writeFails THEN "STORAGE"
       ELSE "NONE"

GeneratedSample ==
    IF Piece.type = "LINE" THEN single_line_stream_next(checkStream, arm)
    ELSE single_circular_stream_next(checkStream, arm)

\* Why there is no sample: the stream is asked for no more than it has.
StreamError(stream) ==
    IF stream.status = "IK_FAILED" THEN "IK_FAILED" ELSE "INVALID_PARAMETER"

\* What the next sample is compared with.
Kept(sample) ==
    [qValid |-> TRUE, q |-> Quantized(sample.q),
     qdValid |-> previous.qValid, qd |-> Moved(Quantized(sample.q))]

PhaseAfter(stream) ==
    IF ~is_finished(stream) THEN "GENERATE_AND_VALIDATE_SAMPLE"
    ELSE IF segment < Len(program) THEN "PREPARE_SEGMENT"
    ELSE "FINALIZE"

\* A sample that passes is stored, and its position seeds the stream.
StoreChecked(stream, sample) ==
    /\ stored' = Append(stored, [q |-> Quantized(sample.q), place |-> sample.place,
                                 segment |-> segment, index |-> sample.index,
                                 last |-> is_finished(stream)])
    /\ checkStream' = [stream EXCEPT !.seed = Quantized(sample.q)]
    /\ previous' = Kept(sample)
    /\ sampleIndex' = sampleIndex + 1
    /\ counts' = [counts EXCEPT ![segment] = @ + 1]
    /\ checkPhase' = PhaseAfter(stream)
    /\ segment' = IF is_finished(stream) THEN segment + 1 ELSE segment
    /\ UNCHANGED <<program, arm, checkError, writing, committed>>

CheckSample ==
    /\ checkPhase = "GENERATE_AND_VALIDATE_SAMPLE"
    /\ LET next == GeneratedSample
       IN IF ~next.sample.ok THEN Fail(StreamError(next.stream))
          ELSE IF SampleError(next.sample) # "NONE" THEN Fail(SampleError(next.sample))
          ELSE StoreChecked(next.stream, next.sample)

FinalizeCheck ==
    /\ checkPhase = "FINALIZE"
    /\ IF ~writing \/ sampleIndex > Len(stored) THEN Fail("STORAGE")
       ELSE /\ checkPhase' = "VALID"
            /\ writing' = FALSE
            /\ committed' = TRUE
            /\ UNCHANGED <<program, arm, checkError, segment, checkStream, previous,
                           sampleIndex, counts, stored>>

CheckStep == PrepareSegment \/ CheckSample \/ FinalizeCheck
=============================================================================
