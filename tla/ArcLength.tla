----------------------------- MODULE ArcLength -----------------------------
(***************************************************************************)
(* A path as points at equal distances along it, and the place at a        *)
(* distance: src/ControlCore/Trajectory/arc_length_parameterize.c and      *)
(* generate_line_waypoints.c.                                              *)
(*                                                                         *)
(* A point is a pair of coordinates in thirty-sixths of a unit, a distance *)
(* along a path is in sixths: places between two points stay whole when    *)
(* the gaps of a path are 1, 2, 3 or 6 units.  The given points of a path  *)
(* lie one behind the other along an axis, where distances are whole; the  *)
(* new path cuts the corners between them.                                 *)
(***************************************************************************)
EXTENDS Integers, Sequences

\* Coordinates to a unit of distance, and to a sixth of it.
Unit == 36
PerSixth == 6

Refused == [ok |-> FALSE]

Abs(n) == IF n < 0 THEN -n ELSE n

\* Count points from start to end.
generate_line_waypoints(start, end, count) ==
    LET at(i, axis) ==
            start[axis] + ((i - 1) * (end[axis] - start[axis])) \div (count - 1)
    IN [i \in 1 .. count |-> << at(i, 1), at(i, 2) >>]

\* Along an axis, where one of the two differences is 0.
point_distance(a, b) == (Abs(b[1] - a[1]) + Abs(b[2] - a[2])) \div PerSixth

\* How far along the path each of its points lies.
DistancesAlong(points) ==
    LET along[i \in 1 .. Len(points)] ==
            IF i = 1 THEN 0 ELSE along[i - 1] + point_distance(points[i - 1], points[i])
    IN [i \in 1 .. Len(points) |-> along[i]]

\* The first point that does not lie before the query, from the second on.
UpperIndex(along, query) ==
    CHOOSE i \in 2 .. Len(along) :
        query <= along[i] /\ \A m \in 2 .. i - 1 : along[m] < query

\* The ends of the path are its first and its last point, whatever the query.
arc_length_interpolate(points, along, query) ==
    IF query <= along[1] THEN points[1]
    ELSE IF query >= along[Len(along)] THEN points[Len(points)]
    ELSE LET upper == UpperIndex(along, query)
             lower == upper - 1
             at(axis) == points[lower][axis]
                         + ((query - along[lower])
                            * (points[upper][axis] - points[lower][axis]))
                           \div (along[upper] - along[lower])
         IN << at(1), at(2) >>

\* A point at every spacing up to the end, and one at the end unless there is.
NewDistances(total, spacing) ==
    LET regular == [k \in 1 .. total \div spacing + 1 |-> (k - 1) * spacing]
    IN IF regular[Len(regular)] < total THEN Append(regular, total) ELSE regular

\* Neither the given points nor the new ones may be more than fit.
arc_length_parameterize(points, spacing, capacity) ==
    LET old == DistancesAlong(points)
        new == NewDistances(old[Len(old)], spacing)
    IN IF Len(points) > capacity \/ Len(new) > capacity THEN Refused
       ELSE [ok |-> TRUE,
             points |-> [k \in 1 .. Len(new) |->
                            arc_length_interpolate(points, old, new[k])],
             along |-> new,
             total |-> old[Len(old)]]
=============================================================================
