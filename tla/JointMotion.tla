---------------------------- MODULE JointMotion ----------------------------
(***************************************************************************)
(* The motion of all joints from one posture to another in a given time:   *)
(* src/ControlCore/Trajectory/joint_trajectory.c over                      *)
(* quintic_time_scaling.c.                                                 *)
(*                                                                         *)
(* HOMING takes its samples one by one, APPROACH by their index.  Times    *)
(* are whole.  The path parameter and its derivatives are multiplied by    *)
(* the fifth power of the duration, which makes them whole, and so are the *)
(* joints that are computed from them.                                     *)
(***************************************************************************)
EXTENDS Integers, Sequences

VARIABLES
    trajectory,     \* JointTrajectory
    jointSample,    \* the last sample that was taken
    taken           \* the samples that were taken, for the properties only

jointVars == <<trajectory, jointSample, taken>>

Magnitude(n) == IF n < 0 THEN -n ELSE n

Fifth(n) == n * n * n * n * n

-----------------------------------------------------------------------------
(* The profile.                                                            *)

\* A sample at every period, and one at the end.
QuinticSamples(duration, dt) ==
    LET regular == duration \div dt + 1
    IN IF (regular - 1) * dt < duration THEN regular + 1 ELSE regular

QuinticTime(profile, i) ==
    IF i = profile.samples - 1 THEN profile.duration ELSE i * profile.dt

\* Mutant: the speed lacks its last term.
BugPolynomials(duration, t) ==
    [s |-> 10 * t * t * t * duration * duration - 15 * t * t * t * t * duration
           + 6 * Fifth(t),
     sDot |-> 30 * t * t * duration * duration - 60 * t * t * t * duration,
     sDDot |-> 60 * t * duration * duration - 180 * t * t * duration + 120 * t * t * t]

\* 10 u^3 - 15 u^4 + 6 u^5 with u = t / duration, and its derivatives.
Polynomials(duration, t) ==
    [s |-> 10 * t * t * t * duration * duration - 15 * t * t * t * t * duration
           + 6 * Fifth(t),
     sDot |-> 30 * t * t * duration * duration - 60 * t * t * t * duration
              + 30 * t * t * t * t,
     sDDot |-> 60 * t * duration * duration - 180 * t * t * duration + 120 * t * t * t]

\* Both ends are set, whatever the polynomials give there.
QuinticAt(profile, time) ==
    LET t == IF time < 0 THEN 0
             ELSE IF time > profile.duration THEN profile.duration ELSE time
    IN IF t >= profile.duration
       THEN [t |-> t, s |-> Fifth(profile.duration), sDot |-> 0, sDDot |-> 0]
       ELSE IF t <= 0 THEN [t |-> t, s |-> 0, sDot |-> 0, sDDot |-> 0]
       ELSE [t |-> t, s |-> Polynomials(profile.duration, t).s,
             sDot |-> Polynomials(profile.duration, t).sDot,
             sDDot |-> Polynomials(profile.duration, t).sDDot]

\* The largest value of a field over the samples.
PeakOver(profile, field) ==
    LET values == {Magnitude(QuinticAt(profile, QuinticTime(profile, i))[field]) :
                       i \in 0 .. profile.samples - 1}
    IN CHOOSE peak \in values : \A other \in values : other <= peak

QuinticInit(duration, dt) ==
    [duration |-> duration, dt |-> dt, samples |-> QuinticSamples(duration, dt)]

-----------------------------------------------------------------------------
(* The joints.                                                             *)

NoJointSample == [ok |-> FALSE]

JointTrajectoryOf(start, goal, duration, dt) ==
    LET profile == QuinticInit(duration, dt)
        delta == [joint \in DOMAIN start |-> goal[joint] - start[joint]]
    IN [start |-> start, goal |-> goal, delta |-> delta, profile |-> profile,
        peakVelocity |-> [joint \in DOMAIN start |->
                             Magnitude(delta[joint]) * PeakOver(profile, "sDot")],
        peakAcceleration |-> [joint \in DOMAIN start |->
                             Magnitude(delta[joint]) * PeakOver(profile, "sDDot")],
        next |-> 0, finished |-> FALSE, status |-> "OK"]

\* At an end the joints are set to the posture of that end.
JointsAt(motion, sample) ==
    LET scale == Fifth(motion.profile.duration)
    IN IF sample.t >= motion.profile.duration
       THEN [joint \in DOMAIN motion.goal |-> motion.goal[joint] * scale]
       ELSE [joint \in DOMAIN motion.start |->
                motion.start[joint] * scale + motion.delta[joint] * sample.s]

joint_trajectory_evaluate(motion, time) ==
    LET sample == QuinticAt(motion.profile, time)
    IN [ok |-> TRUE, t |-> sample.t, s |-> sample.s, q |-> JointsAt(motion, sample),
        qDot |-> [joint \in DOMAIN motion.delta |-> motion.delta[joint] * sample.sDot],
        qDDot |-> [joint \in DOMAIN motion.delta |-> motion.delta[joint] * sample.sDDot]]

joint_trajectory_evaluate_index(motion, i) ==
    IF i >= motion.profile.samples THEN NoJointSample
    ELSE joint_trajectory_evaluate(motion, QuinticTime(motion.profile, i))

JointInit(start, goal, duration, dt) ==
    /\ trajectory = JointTrajectoryOf(start, goal, duration, dt)
    /\ jointSample = NoJointSample
    /\ taken = << >>

joint_trajectory_sample_count(motion) == motion.profile.samples

\* The next sample; the call after the last one only says that it was the last.
joint_trajectory_next ==
    IF trajectory.next >= joint_trajectory_sample_count(trajectory)
    THEN /\ trajectory' = [trajectory EXCEPT !.finished = TRUE, !.status = "FINISHED"]
         /\ UNCHANGED <<jointSample, taken>>
    ELSE /\ jointSample' = joint_trajectory_evaluate_index(trajectory, trajectory.next)
         /\ taken' = Append(taken, jointSample')
         /\ trajectory' =
                [trajectory EXCEPT
                     !.next = @ + 1, !.status = "OK",
                     !.finished = @ \/ trajectory.next + 1
                                         >= joint_trajectory_sample_count(trajectory)]
=============================================================================
