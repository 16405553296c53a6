------------------------------- MODULE SCurve -------------------------------
(***************************************************************************)
(* The jerk limited profile of a move along a path, as                     *)
(* src/ControlCore/Trajectory/s_curve_profile.c evaluates it sample by     *)
(* sample and s_curve_time_scaling.c fills arrays with it.                 *)
(*                                                                         *)
(* The code scales the path to length 1 and divides speed, acceleration    *)
(* and jerk by its length; here the length stays, which multiplies every   *)
(* equation by it.  Numbers are whole: a path is measured in sixths of a   *)
(* unit and speed is doubled, so that the halves and sixths of the         *)
(* polynomials stay exact, and the limits are such that roots and          *)
(* quotients are whole.                                                    *)
(***************************************************************************)
EXTENDS Integers, Sequences

\* Limits of a move: speed, acceleration, jerk, and the length of the path.
Sixths == 6

SqrtOf(n) == CHOOSE r \in 0 .. n : r * r = n

-----------------------------------------------------------------------------
(* The four shapes: what is reached, and for how long the jerk, the        *)
(* acceleration and the speed are held.                                    *)

\* The speed is reached before the acceleration is.
SpeedLimited(l) ==
    LET time == SqrtOf(l.v \div l.j)
    IN [peak |-> l.v, tJ |-> time, tA |-> 0, tV |-> (l.d - 2 * l.v * time) \div l.v]

\* Both are reached.
FullShape(l) ==
    LET time == l.a \div l.j
    IN [peak |-> l.v, tJ |-> time, tA |-> l.v \div l.a - time,
        tV |-> (l.d - l.v * (time + l.v \div l.a)) \div l.v]

\* The path is too short for the speed.
AccelerationLimited(l) ==
    LET term == (l.a * l.a) \div l.j
        peak == (SqrtOf(term * term + 4 * l.a * l.d) - term) \div 2
    IN [peak |-> peak, tJ |-> l.a \div l.j, tA |-> peak \div l.a - l.a \div l.j,
        tV |-> 0]

\* The path is too short for the acceleration: peak^3 = d^2 j / 4.
JerkLimited(l) ==
    LET peak == CHOOSE p \in 1 .. l.v : 4 * p * p * p = l.d * l.d * l.j
    IN [peak |-> peak, tJ |-> SqrtOf(peak \div l.j), tA |-> 0, tV |-> 0]

\* Mutant: the shape that holds the speed is taken on every path.
BugShapeOf(l) == IF l.v * l.j < l.a * l.a THEN SpeedLimited(l) ELSE FullShape(l)

ShapeOf(l) ==
    IF l.v * l.j < l.a * l.a
    THEN IF l.d * l.d * l.j >= 4 * l.v * l.v * l.v
         THEN SpeedLimited(l) ELSE JerkLimited(l)
    ELSE IF l.d * l.a * l.j >= l.v * (l.a * l.a + l.v * l.j) THEN FullShape(l)
    ELSE IF l.d * l.j * l.j >= 2 * l.a * l.a * l.a THEN AccelerationLimited(l)
    ELSE JerkLimited(l)

\* Whether the roots and the quotients of the shape that a path takes leave no rest.
SpeedLimitedIsWhole(l) ==
    /\ l.v % l.j = 0 /\ l.d % l.v = 0
    /\ \E root \in 1 .. l.v : root * root = l.v \div l.j

FullShapeIsWhole(l) == l.a % l.j = 0 /\ l.v % l.a = 0 /\ l.d % l.v = 0

AccelerationLimitedIsWhole(l) ==
    /\ l.a % l.j = 0
    /\ \E peak \in 1 .. l.v : /\ peak % l.a = 0
                             /\ peak * (peak * l.j + l.a * l.a) = l.d * l.a * l.j

JerkLimitedIsWhole(l) ==
    \E peak \in 1 .. l.v : /\ 4 * peak * peak * peak = l.d * l.d * l.j
                           /\ peak % l.j = 0
                           /\ \E root \in 1 .. peak : root * root = peak \div l.j

IsWhole(l) ==
    /\ {l.v, l.a, l.j, l.d} \subseteq Nat \ {0}
    /\ IF l.v * l.j < l.a * l.a
       THEN IF l.d * l.d * l.j >= 4 * l.v * l.v * l.v
            THEN SpeedLimitedIsWhole(l) ELSE JerkLimitedIsWhole(l)
       ELSE IF l.d * l.a * l.j >= l.v * (l.a * l.a + l.v * l.j) THEN FullShapeIsWhole(l)
       ELSE IF l.d * l.j * l.j >= 2 * l.a * l.a * l.a THEN AccelerationLimitedIsWhole(l)
       ELSE JerkLimitedIsWhole(l)

Durations(shape) ==
    <<shape.tJ, shape.tA, shape.tJ, shape.tV, shape.tJ, shape.tA, shape.tJ>>
Jerks(l) == <<l.j, 0, -l.j, 0, -l.j, 0, l.j>>

-----------------------------------------------------------------------------
(* The motion: time, place in sixths, doubled speed and acceleration.      *)

AtRest == [t |-> 0, s |-> 0, v |-> 0, a |-> 0]

\* What the motion x has become after h periods of jerk j.
After(x, h, j) ==
    [t |-> x.t + h,
     s |-> x.s + 3 * x.v * h + 3 * x.a * h * h + j * h * h * h,
     v |-> x.v + 2 * x.a * h + j * h * h,
     a |-> x.a + j * h]

\* The motion before each of the segments that hold a jerk, and after the last.
StartsFrom(hold, jerk) ==
    LET start[k \in 1 .. Len(hold) + 1] ==
            IF k = 1 THEN AtRest ELSE After(start[k - 1], hold[k - 1], jerk[k - 1])
    IN [k \in 1 .. Len(hold) + 1 |-> start[k]]

\* The motion at the start of each of the seven segments, and after the last.
SegmentStarts(l) ==
    StartsFrom(Durations(ShapeOf(l)), Jerks(l))

\* A sample at every period up to the end, and one more at the end unless a
\* period ends there.
SamplesOf(duration, dt) ==
    LET regular == duration \div dt + 1
    IN IF (regular - 1) * dt < duration THEN regular + 1 ELSE regular

ProfileFrom(starts, l, dt) ==
    [limits |-> l, dt |-> dt, starts |-> starts, duration |-> starts[8].t,
     samples |-> SamplesOf(starts[8].t, dt)]

ProfileOf(l, dt) == ProfileFrom(SegmentStarts(l), l, dt)

SampleTime(p, i) == IF i = p.samples - 1 THEN p.duration ELSE i * p.dt

SegmentAt(p, t) ==
    IF t >= p.duration THEN 7
    ELSE CHOOSE k \in 1 .. 7 :
            t <= p.starts[k + 1].t /\ \A m \in 1 .. k - 1 : t > p.starts[m + 1].t

\* The polynomial of the segment at time t.
Motion(p, t) ==
    LET k == SegmentAt(p, t)
    IN After(p.starts[k], t - p.starts[k].t, Jerks(p.limits)[k])

\* Both ends are set, whatever the polynomials give there.
Evaluate(p, time) ==
    LET t == IF time < 0 THEN 0 ELSE IF time > p.duration THEN p.duration ELSE time
    IN IF t >= p.duration
       THEN [t |-> t, s |-> Sixths * p.limits.d, v |-> 0, a |-> 0]
       ELSE IF t <= 0 THEN AtRest ELSE Motion(p, t)

EvaluateIndex(p, i) == Evaluate(p, SampleTime(p, i))

-----------------------------------------------------------------------------
(* The arrays of s_curve_time_scaling(): filled to the end, or refused.    *)

NoScaling == [ok |-> FALSE, samples |-> << >>]

\* The same selection, for the arrays.
ScalingShape(l) ==
    LET reachesAcceleration == l.v * l.j >= l.a * l.a
        holdsSpeed == IF reachesAcceleration
                      THEN l.d * l.a * l.j >= l.v * (l.a * l.a + l.v * l.j)
                      ELSE l.d * l.d * l.j >= 4 * l.v * l.v * l.v
    IN IF holdsSpeed
       THEN IF reachesAcceleration THEN FullShape(l) ELSE SpeedLimited(l)
       ELSE IF reachesAcceleration /\ l.d * l.j * l.j >= 2 * l.a * l.a * l.a
       THEN AccelerationLimited(l) ELSE JerkLimited(l)

ScalingDuration(hold) ==
    hold[1] + hold[2] + hold[3] + hold[4] + hold[5] + hold[6] + hold[7]

\* The times that are written while there is room.
ScalingTimes(duration, dt) ==
    LET regular == duration \div dt + 1
        times == [i \in 1 .. regular |-> (i - 1) * dt]
    IN IF times[regular] < duration THEN Append(times, duration) ELSE times

\* Where in the seven segments time t lies, and the motion there.
ScalingMotion(hold, start, jerk, t) ==
    LET later == {k \in 1 .. 7 : t <= start[k].t + hold[k]}
        segment == CHOOSE k \in later : \A m \in later : k <= m
    IN After(start[segment], t - start[segment].t, jerk[segment])

\* Both ends are set.
ScaledAlong(times, hold, start, l) ==
    [i \in 1 .. Len(times) |->
        IF i = Len(times) THEN [t |-> times[i], s |-> Sixths * l.d, v |-> 0, a |-> 0]
        ELSE IF i = 1 THEN AtRest
        ELSE ScalingMotion(hold, start, Jerks(l), times[i])]

TimeScaling(l, dt, capacity) ==
    LET hold == Durations(ScalingShape(l))
        times == ScalingTimes(ScalingDuration(hold), dt)
    IN IF Len(times) > capacity THEN NoScaling
       ELSE [ok |-> TRUE,
             samples |-> ScaledAlong(times, hold, StartsFrom(hold, Jerks(l)), l)]
=============================================================================
