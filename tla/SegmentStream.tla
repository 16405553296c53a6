--------------------------- MODULE SegmentStream ---------------------------
(***************************************************************************)
(* The streams that give the samples of one segment one by one:            *)
(* single_segment_line_stream.c and single_segment_circular_stream.c of    *)
(* src/ControlCore/Pipeline, and the planner that gives those of a line    *)
(* all at once, single_segment_line.c.                                     *)
(*                                                                         *)
(* A stream is a value: what it does to itself is a new value.  A request  *)
(* has the speed, acceleration, jerk and period of a segment, the seed of  *)
(* its inverse kinematics, and two points for a line; for an arc or a      *)
(* circle it has the waypoints that circular_path.c computes, none if it   *)
(* cannot.  Orientations follow the path and are left out.  Joints are     *)
(* pairs: the two coordinates of the place, the first one shifted by Flip  *)
(* in the other of the two postures that reach a place.                    *)
(***************************************************************************)
EXTENDS SCurve, ArcLength

Flip == 100 * Unit

PostureOf(q) == IF q[1] >= Flip \div 2 THEN 1 ELSE 0

\* Where the joints take the tool.
control_fk(q) == << q[1] - PostureOf(q) * Flip, q[2] >>

NoSolution == << >>

Apart(a, b) == Abs(a[1] - b[1]) + Abs(a[2] - b[2])

\* The solver starts from the seed and ends as soon as it is near enough, which
\* the seed itself may be.  It keeps the posture of the seed up to the bend of
\* the arm, and gives up out of reach.
adls_ik(arm, place, seed) ==
    LET posture == IF place[1] > arm.bend THEN 1 ELSE PostureOf(seed)
        near == << place[1] - arm.tolerance, place[2] >>
    IN IF place[1] > arm.reach THEN NoSolution
       ELSE IF posture = PostureOf(seed) /\ Apart(control_fk(seed), place) <= arm.tolerance
       THEN seed
       ELSE << near[1] + posture * Flip, near[2] >>

-----------------------------------------------------------------------------
(* The start of a stream.                                                  *)

NoProfile == [samples |-> 0]

NoStream ==
    [status |-> "INVALID_ARGUMENT", initialized |-> FALSE, finished |-> FALSE,
     next |-> 0, seed |-> NoSolution, path |-> Refused, profile |-> NoProfile]

Failed(status) == [NoStream EXCEPT !.status = status]

\* The geometry, the profile over its length, and the first sample next.
LimitsOf(path, request) ==
    [v |-> request.speed, a |-> request.acceleration, j |-> request.jerk,
     d |-> path.total \div Sixths]

StreamOver(path, request) ==
    IF ~path.ok THEN Failed("GEOMETRY_FAILED")
    ELSE IF path.total = 0 THEN Failed("GEOMETRY_FAILED")
    ELSE [status |-> "OK", initialized |-> TRUE, finished |-> FALSE, next |-> 0,
          seed |-> request.seed, path |-> path,
          profile |-> ProfileOf(LimitsOf(path, request), request.dt)]

StreamAlong(waypoints, request) ==
    StreamOver(arc_length_parameterize(waypoints, request.spacing, request.capacity),
               request)

Positive(request) ==
    /\ request.spacing > 0 /\ request.dt > 0
    /\ request.speed > 0 /\ request.acceleration > 0 /\ request.jerk > 0

single_line_stream_init(request) ==
    IF ~Positive(request) \/ request.count < 2 \/ request.count > request.capacity
    THEN Failed("INVALID_ARGUMENT")
    ELSE StreamAlong(generate_line_waypoints(request.points[1], request.points[2],
                                             request.count), request)

single_circular_stream_init(request) ==
    IF ~Positive(request) \/ request.count < 3 \/ request.count > request.capacity
    THEN Failed("INVALID_ARGUMENT")
    ELSE IF request.points = << >> THEN Failed("GEOMETRY_FAILED")
    ELSE StreamAlong(request.points, request)

-----------------------------------------------------------------------------
(* The next sample.  Its result is what the stream has become and, if      *)
(* there is one, the sample.                                               *)

NoSample == [ok |-> FALSE]

SampleOf(stream, motion, place, solution) ==
    [ok |-> TRUE, index |-> stream.next, t |-> motion.t, s |-> motion.s,
     speed |-> motion.v, place |-> place, q |-> solution]

\* The solution is the seed of the next sample; the last sample ends the stream.
Taken(stream, sample) ==
    [stream EXCEPT !.seed = sample.q, !.next = @ + 1, !.status = "OK",
                   !.finished = @ \/ stream.next + 1 >= stream.profile.samples]

SampleAlong(stream, arm, motion) ==
    LET place == arc_length_interpolate(stream.path.points, stream.path.along, motion.s)
    IN SampleOf(stream, motion, place, adls_ik(arm, place, stream.seed))

\* A place without a solution stays the next one.
Given(stream, sample) ==
    IF sample.q = NoSolution
    THEN [stream |-> [stream EXCEPT !.status = "IK_FAILED"], sample |-> NoSample]
    ELSE [stream |-> Taken(stream, sample), sample |-> sample]

single_line_stream_next(stream, arm) ==
    IF ~stream.initialized
    THEN [stream |-> [stream EXCEPT !.status = "INVALID_ARGUMENT"], sample |-> NoSample]
    ELSE IF stream.next >= stream.profile.samples
    THEN [stream |-> [stream EXCEPT !.finished = TRUE, !.status = "FINISHED"],
          sample |-> NoSample]
    ELSE Given(stream, SampleAlong(stream, arm, EvaluateIndex(stream.profile, stream.next)))

\* The same steps along an arc or a circle.
single_circular_stream_next(stream, arm) == single_line_stream_next(stream, arm)

sample_count(stream) == IF stream.initialized THEN stream.profile.samples ELSE 0

is_finished(stream) == stream.initialized /\ stream.finished

-----------------------------------------------------------------------------
(* A line all at once: every sample, or nothing when one has no solution   *)
(* or there is no room.                                                    *)

NoPlan == [ok |-> FALSE, samples |-> << >>]

\* Every sample is solved from the solution of the one before it.
SolvedAlong(path, times, seed, arm) ==
    LET place(i) == arc_length_interpolate(path.points, path.along, times[i].s)
        solution[i \in 0 .. Len(times)] ==
            LET last == IF i = 0 THEN seed ELSE solution[i - 1]
            IN IF i = 0 \/ last = NoSolution THEN last
               ELSE adls_ik(arm, place(i), last)
    IN [i \in 1 .. Len(times) |->
           [ok |-> TRUE, index |-> i - 1, t |-> times[i].t, s |-> times[i].s,
            speed |-> times[i].v, place |-> place(i), q |-> solution[i]]]

PlanOf(samples) ==
    IF \E i \in 1 .. Len(samples) : samples[i].q = NoSolution THEN NoPlan
    ELSE [ok |-> TRUE, samples |-> samples]

PlanScaled(path, scaling, request, arm) ==
    IF ~scaling.ok THEN NoPlan
    ELSE PlanOf(SolvedAlong(path, scaling.samples, request.seed, arm))

PlanAlong(path, request, arm, timeCapacity) ==
    IF ~path.ok THEN NoPlan
    ELSE IF path.total = 0 THEN NoPlan
    ELSE PlanScaled(path, TimeScaling(LimitsOf(path, request), request.dt, timeCapacity),
                    request, arm)

plan_single_segment_line(request, arm, timeCapacity) ==
    IF ~Positive(request) \/ request.count < 2 \/ request.count > request.capacity
    THEN NoPlan
    ELSE PlanAlong(arc_length_parameterize(
                       generate_line_waypoints(request.points[1], request.points[2],
                                               request.count),
                       request.spacing, request.capacity),
                   request, arm, timeCapacity)

\* The speed of a joint over the samples: to both neighbours, at an end to one.
GradientWithin(samples, limit) ==
    \A i \in 1 .. Len(samples), joint \in 1 .. 2 :
        LET before == IF i = 1 THEN 1 ELSE i - 1
            after == IF i = Len(samples) THEN i ELSE i + 1
        IN Abs(samples[after].q[joint] - samples[before].q[joint])
             <= limit * (samples[after].t - samples[before].t)
=============================================================================
