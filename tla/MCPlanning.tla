----------------------------- MODULE MCPlanning -----------------------------
(***************************************************************************)
(* Finite instances of Planning: programs, plans and arms for every shape  *)
(* of a profile and every check of a sample.                               *)
(***************************************************************************)
EXTENDS Planning

At(x, y) == << x * Unit, y * Unit >>

Line(from, to, taught, rate) ==
    [type |-> "LINE", points |-> << from, to >>, taught |-> taught, speed |-> rate]

\* A square for a circle: eight units around, and back at its first point.
Circle(x, taught, rate) ==
    [type |-> "CIRCLE", taught |-> taught, speed |-> rate,
     points |-> << At(x, 0), At(x, 2), At(x + 2, 2), At(x + 2, 0), At(x, 0) >>]

\* Half of it for an arc.
Arc(x, taught, rate) ==
    [type |-> "ARC", taught |-> taught, speed |-> rate,
     points |-> << At(x, 0), At(x, 1), At(x, 3), At(x + 2, 3), At(x + 3, 3) >>]

\* Three points on a line have no circle.
NoCircle == [type |-> "ARC", points |-> << >>, taught |-> At(0, 0), speed |-> 2]

\* The posture the operator recorded a point in, the other one of the two.
OtherPosture(place) == << place[1] + Flip, place[2] >>

MCPrograms ==
    { << Line(At(0, 0), At(8, 0), At(0, 0), 2), Circle(8, At(8, 0), 2) >>,
      << Arc(0, At(0, 0), 3), Line(At(3, 3), At(11, 3), At(3, 3), 2) >>,
      << Line(At(0, 0), At(8, 0), At(0, 0), 2),
         Line(At(8, 0), At(8, 6), OtherPosture(At(8, 0)), 3) >>,
      << Line(At(0, 0), At(4, 0), At(0, 0), 0) >>,
      << Line(At(0, 0), At(2, 0), At(0, 0), 1) >>,
      << Line(At(0, 0), At(8, 0), At(0, 0), 2), Line(At(8, 0), At(16, 0), At(8, 0), 5) >>,
      << Line(At(0, 0), At(0, 0), At(0, 0), 2) >>,
      << NoCircle >> }

MCConfig ==
    [defaultSpeed |-> 1, speedLimit |-> 4, acceleration |-> 1, jerk |-> 1, period |-> 2,
     geometryPoints |-> 5, spacing |-> 18, geometryCapacity |-> 6, minimumLength |-> 13,
     quantum |-> 5, quantizationError |-> 2, positionError |-> 50,
     lowest |-> -600, highest |-> 10 * Flip, maximumStep |-> 200, jointSpeed |-> 150,
     jointAcceleration |-> 110, storageCapacity |-> 9]

Arm ==
    [reach |-> 20 * Unit, bend |-> 20 * Unit, tolerance |-> 0, singular |-> {},
     blocked |-> {}, writeFails |-> 100]

MCArms ==
    { Arm,
      [Arm EXCEPT !.tolerance = 20], [Arm EXCEPT !.tolerance = 40],
      [Arm EXCEPT !.reach = 5 * Unit], [Arm EXCEPT !.bend = 5 * Unit],
      [Arm EXCEPT !.bend = 8 * Unit], [Arm EXCEPT !.singular = 100 .. 200], [Arm EXCEPT !.blocked = 300 .. 320],
      [Arm EXCEPT !.writeFails = 3] }

Plan(length, limits, period) ==
    [points |-> << At(0, 0), At(length, 0) >>, seed |-> At(0, 0), dt |-> period,
     speed |-> limits[1], acceleration |-> limits[2], jerk |-> 1,
     count |-> 5, spacing |-> 18, capacity |-> 8]

\* One for each shape of the profile, one that is too fast, one without a length.
MCPlans ==
    { Plan(8, << 2, 1 >>, 2), Plan(2, << 4, 3 >>, 1), Plan(16, << 4, 3 >>, 2),
      Plan(6, << 3, 1 >>, 2), Plan(0, << 2, 1 >>, 2) }

Solver == [reach |-> 20 * Unit, bend |-> 20 * Unit, tolerance |-> 0]

MCSolvers ==
    { Solver, [Solver EXCEPT !.tolerance = 20], [Solver EXCEPT !.reach = 5 * Unit],
      [Solver EXCEPT !.bend = 5 * Unit] }

MCJointMoves ==
    [from : {<<0, 1>>}, to : {<<3, -2>>, <<-1, 1>>}, time : 1 .. 6, period : 1 .. 3]
=============================================================================
