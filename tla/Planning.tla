------------------------------ MODULE Planning ------------------------------
(***************************************************************************)
(* The three users of ControlCore's trajectories, each in behaviours of    *)
(* its own: PATH_VALIDATION samples a taught program, the earlier          *)
(* simulator plans a line while the robot follows it, and HOMING and       *)
(* APPROACH move the joints from one posture to another.                   *)
(***************************************************************************)
EXTENDS SampleCheck, LiveMotion, JointMotion

CONSTANTS
    Programs,       \* taught programs, their segments with waypoints
    Arms,           \* behaviours of the solver, with what a sample can fail by
    Solvers,        \* behaviours of the solver of the earlier simulator
    JointMoves,     \* start, goal, duration and period of the moves of the joints
    TimeCapacity    \* arrays of the planner that gives a line all at once

\* Both postures have the same joints; a duration or a period that is not positive
\* is refused (quintic_time_scaling.c:13).
IsJointMove(move) ==
    /\ DOMAIN move.from = DOMAIN move.to
    /\ \A joint \in DOMAIN move.from : move.from[joint] \in Int /\ move.to[joint] \in Int
    /\ move.time \in Nat \ {0} /\ move.period \in Nat \ {0}

ASSUME JointMovesAssumption == \A move \in JointMoves : IsJointMove(move)

\* The profile of every path that is given out sample by sample is one of whole
\* numbers.
HasWholeProfile(stream) == stream.initialized => IsWhole(stream.profile.limits)

\* The structural check has left a line with its two points; the geometry of a full
\* circle comes back to the first one (state_path_validation.c:1708, :758).
IsPiece(piece) ==
    /\ piece.type \in {"LINE", "ARC", "CIRCLE"}
    /\ piece.points \in Seq(Int \X Int) /\ piece.taught \in Int \X Int
    /\ piece.type = "LINE" => Len(piece.points) = 2
    /\ piece.type = "CIRCLE" /\ piece.points # << >> =>
          piece.points[Len(piece.points)] = piece.points[1]

\* The points of a segment as its stream gets them.
WaypointsOf(piece) ==
    IF piece.type = "LINE"
    THEN generate_line_waypoints(piece.points[1], piece.points[2], Config.geometryPoints)
    ELSE piece.points

\* One behind the other along an axis, at a whole distance.
LieAlongAxes(points) ==
    \A n \in 2 .. Len(points) : \E axis \in {1, 2} :
        LET way == points[n][axis] - points[n - 1][axis]
        IN /\ way # 0 /\ way % PerSixth = 0
           /\ points[n][3 - axis] = points[n - 1][3 - axis]

\* The places between the points of the path are whole, its length is that of its
\* profile, and its samples are within the bound.
IsSampled(stream) ==
    stream.initialized =>
        /\ \A n \in 2 .. Len(stream.path.points), axis \in {1, 2} :
              (stream.path.points[n][axis] - stream.path.points[n - 1][axis])
                  % (stream.path.along[n] - stream.path.along[n - 1]) = 0
        /\ stream.path.total \in Nat /\ stream.path.total % Sixths = 0
        /\ stream.profile.samples <= TimeCapacity

\* What is sampled of a segment; one that is too fast is not.
IsSegment(piece) ==
    /\ IsPiece(piece)
    /\ SpeedOf(piece) > Config.speedLimit
       \/ LET stream == StreamOf(piece, piece.taught)
          IN /\ HasWholeProfile(stream) /\ IsSampled(stream)
             /\ stream.initialized => LieAlongAxes(WaypointsOf(piece))

\* A program has segments; TEACHING begins every one where the one before it ends
\* (state_teaching.c:684).
IsProgram(segments) ==
    /\ Len(segments) \in Nat \ {0}
    /\ \A n \in 1 .. Len(segments) : IsSegment(segments[n])
    /\ \A n \in 2 .. Len(segments) :
          LET before == segments[n - 1].points
          IN before # << >> /\ segments[n].points # << >> =>
                segments[n].points[1] = before[Len(before)]

ASSUME ConfigAssumption ==
    /\ {Config.period, Config.spacing, Config.geometryPoints, Config.storageCapacity,
        Config.quantum, TimeCapacity} \subseteq Nat \ {0}
    /\ {Config.lowest, Config.highest, Config.jointSpeed, Config.jointAcceleration}
          \subseteq Int

ASSUME ArmsAssumption == \A behaviour \in Arms : behaviour.tolerance \in Int

ASSUME ProgramsAssumption == \A segments \in Programs : IsProgram(segments)

\* The fields of a request for a line (single_segment_line.h), and room for its samples
\* in the planner that gives a line all at once.
RequestFields == {"points", "seed", "dt", "speed", "acceleration", "jerk", "count",
                  "spacing", "capacity"}

IsPlan(request) ==
    LET stream == single_line_stream_init(request)
    IN /\ DOMAIN request = RequestFields
       /\ HasWholeProfile(stream)
       /\ stream.initialized => /\ request.dt \in Nat \ {0}
                                /\ stream.profile.samples <= TimeCapacity

ASSUME PlansAssumption == \A request \in Plans : IsPlan(request)

VARIABLE use        \* which of the users the behaviour is about

planningVars == <<use, checkVars, liveVars, jointVars>>

AtRestMove == [from |-> <<0, 0>>, to |-> <<0, 0>>, time |-> 1, period |-> 1]
Idling == [reach |-> 0, bend |-> 0, tolerance |-> 0]

JointMoveInit(move) == JointInit(move.from, move.to, move.time, move.period)

Init ==
    \/ /\ use = "VALIDATION"
       /\ \E segments \in Programs, behaviour \in Arms :
             CheckInit(segments, behaviour, "PREPARE_SEGMENT")
       /\ LiveInit(Idling) /\ JointMoveInit(AtRestMove)
    \/ /\ use = "LIVE"
       /\ \E behaviour \in Solvers : LiveInit(behaviour)
       /\ CheckInit(<< >>, Idling, "IDLE") /\ JointMoveInit(AtRestMove)
    \/ /\ use = "JOINT"
       /\ \E move \in JointMoves : JointMoveInit(move)
       /\ CheckInit(<< >>, Idling, "IDLE") /\ LiveInit(Idling)

Validating ==
    /\ use = "VALIDATION"
    /\ CheckStep
    /\ UNCHANGED <<use, liveVars, jointVars>>

\* A validation that has its result gives the same one at every step.
Reported ==
    /\ use = "VALIDATION"
    /\ checkPhase \in {"VALID", "INVALID"}
    /\ UNCHANGED planningVars

Planner ==
    /\ use = "LIVE"
    /\ PlannerStep
    /\ UNCHANGED <<use, checkVars, jointVars>>

PanelAndCycle ==
    /\ use = "LIVE"
    /\ StopCommand \/ (\E request \in Plans : PlanCommand(request)) \/ EtherCATCycle
    /\ UNCHANGED <<use, checkVars, jointVars>>

Moving ==
    /\ use = "JOINT"
    /\ joint_trajectory_next
    /\ UNCHANGED <<use, checkVars, liveVars>>

Next == Validating \/ Reported \/ Planner \/ PanelAndCycle \/ Moving

\* The planner task runs whenever the cycle of the bus leaves it time.  This is
\* WF_planningVars(Planner) with ENABLED written out: every step of the task
\* changes plannerVars, no other step does, and it has one unless it waits.
PlannerFairness == []<>PlannerWaits \/ []<><<TRUE>>_plannerVars

FairSpec == Init /\ [][Next]_planningVars /\ PlannerFairness

-----------------------------------------------------------------------------
(* Profiles.                                                               *)

\* Every variable keeps its type, and no array is read or written outside.
PlanningTypeOK ==
    /\ use \in {"VALIDATION", "LIVE", "JOINT"}
    /\ checkPhase \in {"IDLE", "PREPARE_SEGMENT", "GENERATE_AND_VALIDATE_SAMPLE",
                       "FINALIZE", "VALID", "INVALID"}
    /\ segment \in 1 .. Len(program) + 1
    /\ Len(counts) \in {segment - 1, segment}
    /\ sampleIndex <= Config.storageCapacity
    /\ motion \in {"WAITING", "PLANNING", "PREPOSITION", "RUNNING", "FINISHED", "HOLD"}
    /\ {hold, cancel, busy, ready, generated} \subseteq BOOLEAN
    /\ buffer.count \in 0 .. Capacity
    /\ {buffer.readIndex, buffer.writeIndex} \subseteq 0 .. Capacity - 1
    /\ executed \in 0 .. TimeCapacity
    /\ trajectory.next \in 0 .. trajectory.profile.samples

\* A stream keeps the profile it has at its first sample.
Profiles ==
    {stream.profile : stream \in {s \in {checkStream, liveStream} :
                                     s.initialized /\ s.next <= 1}}

\* evaluate() forces the first and the last sample.  The seven polynomials get
\* there by themselves: the last one ends at the end of the path, at rest and
\* without acceleration (s_curve_profile.c:480).  Otherwise the robot would jump
\* at the last sample of a segment.
ProfileArrives ==
    \A p \in Profiles :
        p.starts[8] = [t |-> p.duration, s |-> Sixths * p.limits.d, v |-> 0, a |-> 0]

\* At every time of the profile, between its samples too, speed, acceleration
\* and direction are within what the request allows (s_curve_profile.c:532),
\* whichever of the four shapes the path is long enough for.
ProfileKeepsLimits ==
    \A p \in Profiles : \A t \in 0 .. p.duration :
        /\ Evaluate(p, t).v \in 0 .. 2 * p.limits.v
        /\ Abs(Evaluate(p, t).a) <= p.limits.a
        /\ t > 0 => Evaluate(p, t - 1).s < Evaluate(p, t).s

\* A profile can be followed, and ends where the path ends.
ProfileIsFeasible == ProfileArrives /\ ProfileKeepsLimits

-----------------------------------------------------------------------------
(* The stored trajectory.                                                  *)

\* What PATH_EXECUTION replays, one sample per period.
Replayed == IF committed THEN stored ELSE << >>

\* The tool is never commanded faster than the speed that was taught for a
\* segment, across the corners the new points of a path cut and across the seam
\* between two segments, whose first sample is left out
\* (state_path_validation.c:720).
PlaybackKeepsSpeed ==
    \A n \in 2 .. Len(Replayed) :
        Apart(Replayed[n].place, Replayed[n - 1].place)
            <= SpeedOf(program[Replayed[n].segment]) * Config.period * Unit

\* What is replayed keeps the speed of the tool; and, over the positions of the
\* drives as they are stored, no joint leaves its range, moves further in a period
\* than its speed allows, or changes its way by more than its acceleration allows
\* (state_path_validation.c:1225).  A seam is no exception.
StoredTrajectoryIsSmooth ==
    /\ PlaybackKeepsSpeed
    /\ \A joint \in 1 .. 2 :
           LET q(n) == Replayed[n].q[joint]
           IN \A n \in 1 .. Len(Replayed) :
                  /\ q(n) \in Config.lowest .. Config.highest
                  /\ n > 1 => Abs(q(n) - q(n - 1)) <= Config.jointSpeed
                  /\ n > 2 => Abs(q(n) - 2 * q(n - 1) + q(n - 2))
                                 <= Config.jointAcceleration

TooFastPiece == segment <= Len(program) /\ SpeedOf(Piece) > Config.speedLimit

\* The taught program behind the segments, as TEACHING submits it.
PointsOf(piece) ==
    LET point(n) == [place |-> piece.points[n], setup |-> "tool"]
    IN IF piece.points = << >> THEN [n \in 1 .. 3 |-> [place |-> "line", setup |-> "tool"]]
       ELSE IF piece.type = "LINE" THEN << point(1), point(2) >>
       ELSE << point(1), point(2), point(Len(piece.points)) >>

Submission ==
    [id |-> 1, revision |-> 1, checksum |-> 1, status |-> "SUBMITTED",
     segments |-> [n \in 1 .. Len(program) |->
        [type |-> program[n].type, points |-> PointsOf(program[n]),
         speed |-> IF SpeedOf(program[n]) > Config.speedLimit THEN 2 ELSE 1]]]

Outcome ==
    IF checkError = "NONE" THEN "NONE"
    ELSE IF checkError \in {"INVALID_PARAMETER", "DEGENERATE_GEOMETRY",
                            "ZERO_LENGTH_SEGMENT"}
    THEN IF TooFastPiece THEN "INVALID_PARAMETER" ELSE "GEOMETRY"
    ELSE "SAMPLE"

StoredPlace(sample) ==
    IF sample.index = 0 \/ sample.last THEN sample.place
    ELSE << sample.segment, sample.index >>

Storage ==
    [writing |-> writing, committed |-> committed,
     samples |-> [n \in 1 .. Len(stored) |-> StoredPlace(stored[n])],
     metadata |-> IF committed
                  THEN [id |-> 1, revision |-> 1, checksum |-> 1,
                        counts |-> counts, samples |-> sampleIndex]
                  ELSE << >>]

Validation == INSTANCE PathValidation WITH
    Positions <- {}, Setups <- {"tool"}, FirstPoints <- {}, CollinearTriples <- {},
    MaxSegments <- 2, MaxSpeed <- 2, DefaultSpeed <- 1,
    MaxStream <- TimeCapacity, StorageCapacity <- Config.storageCapacity,
    SampleBudget <- Config.storageCapacity + 1,
    teachingPhase <- "SUBMITTING_DRAFT", draft <- Submission, selected <- "NONE",
    working <- << >>, workingSpeed <- 0, speed <- 1,
    submitted <- Submission, validationPhase <- checkPhase,
    validationError <- Outcome, segmentIndex <- segment,
    streamLength <- sample_count(checkStream), nextSample <- checkStream.next,
    counts <- counts, sampleIndex <- sampleIndex, samplesUsed <- sampleIndex,
    storage <- Storage

\* The samples that the streams and the checks of PATH_VALIDATION give are the
\* ones the validation of a program is modelled with: the stream of the first
\* segment from its start, every later one from its second sample, each of them
\* up to the end point that was taught, and nothing of a rejected program
\* (state_path_validation.c:1826).
ImplementsPathValidation ==
    [][Validation!ValidationTurn]_<<Validation!validationVars, Storage>>

-----------------------------------------------------------------------------
(* A path planned while it is followed.                                    *)

\* The positions wait in the order they were put in and come out in it, whatever
\* the ring has wrapped around (trajectory_buffer.c:46, :81).
Ring == INSTANCE Fifo WITH queue <- Waiting

BufferImplementsFifo == Ring!Spec

\* The same line, planned all at once from where the robot was.
Batch ==
    plan_single_segment_line([plan.path EXCEPT !.seed = plan.seed], solver, TimeCapacity)

IsBeginning(positions, samples) ==
    /\ Len(positions) <= Len(samples)
    /\ \A n \in 1 .. Len(positions) : positions[n] = samples[n].q

\* Whatever is stopped, planned anew, lost on the bus or late: what the robot was
\* given so far is the beginning of the trajectory of one plan, the last one; no
\* sample is left out, repeated or of an earlier plan (old_simulator_main.c:1266,
\* :1815).
PlayedIsOnePlan ==
    played # << >> =>
        LET batch == Batch
        IN batch.ok /\ IsBeginning(played, batch.samples)

\* FINISHED is the end of the whole trajectory (old_simulator_main.c:1889).
FinishedIsWhole == motion = "FINISHED" => Len(played) = Len(Batch.samples)

Passes(batch) ==
    /\ batch.ok
    /\ \A n \in 1 .. Len(batch.samples) : InRange(batch.samples[n].q)
    /\ GradientWithin(batch.samples, JointSpeed)

Acceptable == Passes(Batch)

\* The validation sees three samples at a time; its verdict is the one over the
\* whole trajectory, and only what it has accepted is executed
\* (old_simulator_main.c:874).
VerdictIsOfWholePath ==
    /\ planner = "JUDGE" /\ ~cancel => (check.result <=> Acceptable)
    /\ planner = "OPEN" => Acceptable

\* What was executed is the beginning of one plan that was accepted as a whole,
\* and the whole of it at the end.
PlanningInv ==
    /\ PlanningTypeOK
    /\ PlayedIsOnePlan
    /\ FinishedIsWhole
    /\ VerdictIsOfWholePath

\* After STOP or an underrun, until a new plan is accepted, the robot gets no
\* position but its own and nothing is put into the buffer, however far the
\* planner has come with a sample (old_simulator_main.c:1268).
HeldRobotStays ==
    [][hold /\ hold' => /\ target' \in {target, actual}
                        /\ buffer'.count <= buffer.count]_planningVars

\* A planner that works for a robot that is held gives up, so that the next plan
\* is accepted: it does not wait for room that nobody makes any more
\* (old_simulator_main.c:1223).
HeldPlannerGivesUp == (busy /\ hold) ~> ~busy

\* A plan that was accepted is refused, stopped or sends the robot to its start:
\* the planner does not wait for the robot before the robot may move
\* (old_simulator_main.c:1299).
PlanIsDecided == motion = "PLANNING" ~> motion # "PLANNING"

\* The planner and the robot never wait for each other.
NeitherWaitsForGood == HeldPlannerGivesUp /\ PlanIsDecided

-----------------------------------------------------------------------------
(* Moves of the joints.                                                    *)

Scaled(posture) ==
    [joint \in DOMAIN posture |-> posture[joint] * Fifth(trajectory.profile.duration)]

\* A finished move was at the start first and is at the goal, at rest, after its
\* duration, which need not be a multiple of the period (quintic_time_scaling.c:201).
JointMoveArrives ==
    trajectory.finished =>
        /\ taken[1].q = Scaled(trajectory.start)
        /\ taken[Len(taken)].q = Scaled(trajectory.goal)
        /\ taken[Len(taken)].t = trajectory.profile.duration

\* The way of a joint in a period is no longer than the peak of its speed allows
\* that HOMING and APPROACH compare with the limit (quintic_time_scaling.c:150), if a
\* sample lies at the half of the duration: the peak is the largest one over the
\* samples.
StepsWithinPeak ==
    trajectory.profile.duration % (2 * trajectory.profile.dt) = 0 =>
        \A n \in 2 .. Len(taken), joint \in DOMAIN trajectory.start :
            Magnitude(taken[n].q[joint] - taken[n - 1].q[joint])
                <= trajectory.peakVelocity[joint] * (taken[n].t - taken[n - 1].t)

\* A move of the joints ends at its goal and no faster on its way than it said.
JointMoveIsSound == JointMoveArrives /\ StepsWithinPeak
=============================================================================
