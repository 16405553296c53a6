--------------------------- MODULE AuthoringProofs ---------------------------
(***************************************************************************)
(* What is proved of Authoring for any number of places, setups, segments, *)
(* samples, edits and programs.  DraftInv is the invariant of the draft,   *)
(* kept by every event of the operator, and ValidationInv the one of the   *)
(* validation and of the storage; EditInv and IndexInv bound what is       *)
(* counted.  PassageInv follows the ends of the segments through the       *)
(* buffer, the work and the storage.                                       *)
(***************************************************************************)
EXTENDS Authoring, TLAPS, WellFoundedInduction

-----------------------------------------------------------------------------
(* The invariant of the draft.                                             *)

TaughtSegments ==
    {s \in [type : SegmentTypes, points : Seq(Points), speed : 0 .. MaxSpeed] :
        Len(s.points) = RequiredPoints[s.type]}

Checksums == {NoChecksum} \cup (Nat \X Nat \X Seq(TaughtSegments))

Drafts ==
    [id : Nat, revision : Nat, checksum : Checksums,
     segments : Seq(TaughtSegments), status : DraftStatuses]

TeachingTypes ==
    /\ draft \in Drafts
    /\ Len(draft.segments) <= MaxSegments
    /\ teachingPhase \in TeachingPhases
    /\ speed \in 0 .. MaxSpeed
    /\ workingSpeed \in 0 .. MaxSpeed
    /\ working \in Seq(Points)
    /\ Len(working) <= MaxPointsPerSegment

\* Only a full draft keeps the points of a segment that is complete.
WorkingReach ==
    teachingPhase = "WAIT_POINT" =>
        /\ selected \in SegmentTypes
        /\ Len(draft.segments) < MaxSegments =>
               Len(working) < RequiredPoints[selected]

\* The segment in work starts where the last one stored ends.
WorkingStart ==
    teachingPhase = "WAIT_POINT" /\ draft.segments # << >> =>
        /\ working # << >>
        /\ working[1] = EndPoint(LastSegment)

NeighboursDiffer(points) ==
    \A p \in 1 .. Len(points) - 1 : points[p].place # points[p + 1].place

HasExtent(points) ==
    /\ NeighboursDiffer(points)
    /\ Len(points) = 3 =>
           <<points[1].place, points[2].place, points[3].place>> \notin CollinearTriples

PointSet(points) == {points[p] : p \in 1 .. Len(points)}

StoredPoints == UNION {PointSet(draft.segments[i].points) : i \in 1 .. Len(draft.segments)}

RecordedPoints == StoredPoints \cup PointSet(working)

OneSetupRecorded == \A x, y \in RecordedPoints : x.setup = y.setup

OneSpeed ==
    /\ \A i \in 1 .. Len(draft.segments) : draft.segments[i].speed = speed
    /\ teachingPhase = "WAIT_POINT" => workingSpeed = speed

DraftInv ==
    /\ TeachingTypes
    /\ WorkingReach
    /\ WorkingStart
    /\ NeighboursDiffer(working)
    /\ OneSetupRecorded
    /\ OneSpeed
    /\ SegmentsAreChained
    /\ SegmentsHaveExtent

-----------------------------------------------------------------------------
(* A segment and its end point.                                            *)

\* The end of a segment is one of its points.
LEMMA EndPointIsPoint ==
    ASSUME NEW s \in TaughtSegments
    PROVE  /\ EndPoint(s) \in Points
           /\ EndPoint(s) \in PointSet(s.points)
           /\ Len(s.points) \in 2 .. 3
<1>1. Len(s.points) = RequiredPoints[s.type] /\ s.type \in SegmentTypes
      /\ s.points \in Seq(Points)
  BY DEF TaughtSegments
<1>2. CASE s.type = "LINE"
  <2>1. Len(s.points) = 2 /\ EndPoint(s) = s.points[2]
    BY <1>1, <1>2 DEF RequiredPoints, EndPoint
  <2> QED  BY <1>1, <2>1 DEF PointSet
<1>3. CASE s.type = "ARC"
  <2>1. Len(s.points) = 3 /\ EndPoint(s) = s.points[3]
    BY <1>1, <1>3 DEF RequiredPoints, EndPoint
  <2> QED  BY <1>1, <2>1 DEF PointSet
<1>4. CASE s.type = "CIRCLE"
  <2>1. Len(s.points) = 3 /\ EndPoint(s) = s.points[1]
    BY <1>1, <1>4 DEF RequiredPoints, EndPoint
  <2> QED  BY <1>1, <2>1 DEF PointSet
<1> QED  BY <1>1, <1>2, <1>3, <1>4 DEF SegmentTypes

\* The speed is not part of the geometry.
LEMMA EndPointOfGeometry ==
    ASSUME NEW s \in TaughtSegments, NEW t \in TaughtSegments,
           s.type = t.type, s.points = t.points
    PROVE  EndPoint(s) = EndPoint(t)
BY DEF EndPoint

\* An edit gives the draft its segments and a status.
LEMMA EditedDraft ==
    ASSUME draft \in Drafts, NEW segments \in Seq(TaughtSegments),
           NEW status \in DraftStatuses
    PROVE  /\ Edited(segments, status) \in Drafts
           /\ Edited(segments, status).segments = segments
           /\ Edited(segments, status).id = draft.id
           /\ Edited(segments, status).revision = draft.revision + 1
<1>1. draft \in [id : Nat, revision : Nat, checksum : Checksums,
                 segments : Seq(TaughtSegments), status : DraftStatuses]
  BY DEF Drafts
<1>2. NoChecksum \in Checksums /\ draft.revision + 1 \in Nat
  BY <1>1 DEF Checksums
<1>3. Edited(segments, status) =
          [draft EXCEPT !.revision = draft.revision + 1, !.checksum = NoChecksum,
                        !.segments = segments, !.status = status]
  BY DEF Edited
<1> QED  BY <1>1, <1>2, <1>3 DEF Drafts

\* A draft without points: what TEACHING starts from and what RESET leaves.
LEMMA EmptyDraftInv ==
    ASSUME NEW id \in Nat, NEW revision \in Nat,
           draft' = EmptyDraft(id, revision), working' = << >>,
           teachingPhase' = "WAIT_SEGMENT_SELECTION",
           speed' \in 0 .. MaxSpeed, workingSpeed' \in 0 .. MaxSpeed
    PROVE  DraftInv'
<1>1. draft' \in Drafts /\ draft'.segments = << >>
  BY DEF EmptyDraft, Drafts, Checksums, DraftStatuses
<1>2. TeachingTypes'
  BY <1>1, TeachingAssumption DEF TeachingTypes, TeachingAssumption, TeachingPhases,
     MaxPointsPerSegment
<1>3. RecordedPoints' = {}
  BY <1>1 DEF RecordedPoints, StoredPoints, PointSet
<1>4. WorkingReach' /\ WorkingStart' /\ NeighboursDiffer(working)'
  BY DEF WorkingReach, WorkingStart, NeighboursDiffer
<1>5. OneSetupRecorded' /\ OneSpeed'
  BY <1>1, <1>3 DEF OneSetupRecorded, OneSpeed
<1>6. SegmentsAreChained' /\ SegmentsHaveExtent'
  BY <1>1 DEF SegmentsAreChained, Chained, SegmentsHaveExtent
<1> QED  BY <1>2, <1>4, <1>5, <1>6 DEF DraftInv

-----------------------------------------------------------------------------
(* The events of the operator.                                             *)

\* One setup is kept by a point that agrees with the points recorded before.
LEMMA OneSetupKept ==
    ASSUME OneSetupRecorded, NEW point \in Points,
           RecordedPoints' \subseteq RecordedPoints \cup {point},
           RecordedPoints # {} => \E x \in RecordedPoints : x.setup = point.setup
    PROVE  OneSetupRecorded'
BY DEF OneSetupRecorded

\* The invariant is about the variables of TEACHING only.
LEMMA UnchangedDraftInv ==
    ASSUME DraftInv, UNCHANGED teachingVars
    PROVE  DraftInv'
<1> USE DEF DraftInv, teachingVars
<1>1. TeachingTypes' /\ WorkingReach' /\ NeighboursDiffer(working)'
  BY DEF TeachingTypes, WorkingReach, NeighboursDiffer
<1>2. UNCHANGED EndPoint(LastSegment)
  BY DEF LastSegment, EndPoint
<1>3. WorkingStart'
  BY <1>2 DEF WorkingStart
<1>4. UNCHANGED RecordedPoints
  BY DEF RecordedPoints, StoredPoints, PointSet
<1>5. OneSetupRecorded' /\ OneSpeed'
  BY <1>4 DEF OneSetupRecorded, OneSpeed
<1>6. SegmentsAreChained' /\ SegmentsHaveExtent'
  BY DEF SegmentsAreChained, Chained, EndPoint, SegmentsHaveExtent
<1> QED  BY <1>1, <1>3, <1>5, <1>6

\* Selecting a segment takes over the end point of the last one.
LEMMA SelectSegmentPreserves ==
    ASSUME DraftInv, NEW type \in SegmentTypes, SelectSegment(type)
    PROVE  DraftInv'
<1> USE DEF DraftInv
<1>1. /\ draft \in Drafts /\ draft' = [draft EXCEPT !.status = "EDITING"]
      /\ draft.segments \in Seq(TaughtSegments)
  BY DEF SelectSegment, TeachingTypes, Drafts
<1>2. draft' \in Drafts /\ draft'.segments = draft.segments
  BY <1>1 DEF Drafts, DraftStatuses
<1>3. CASE draft.segments = << >>
  <2>1. working' = << >>
    BY <1>3 DEF SelectSegment, InheritedPoints
  <2>2. TeachingTypes'
    BY <1>2, <2>1 DEF TeachingTypes, SelectSegment, TeachingPhases, MaxPointsPerSegment
  <2>3. WorkingReach'
    BY <2>1 DEF WorkingReach, SelectSegment, RequiredPoints, SegmentTypes
  <2>4. WorkingStart' /\ NeighboursDiffer(working)'
    BY <1>2, <1>3, <2>1 DEF WorkingStart, NeighboursDiffer
  <2>5. RecordedPoints' = {}
    BY <1>2, <1>3, <2>1 DEF RecordedPoints, StoredPoints, PointSet
  <2>6. OneSetupRecorded' /\ OneSpeed'
    BY <1>2, <2>5 DEF OneSetupRecorded, OneSpeed, SelectSegment
  <2> QED  BY <1>2, <1>3, <2>2, <2>3, <2>4, <2>6
           DEF SegmentsAreChained, Chained, SegmentsHaveExtent
<1>4. CASE draft.segments # << >>
  <2>1. /\ Len(draft.segments) \in 1 .. Len(draft.segments)
        /\ LastSegment \in TaughtSegments
    BY <1>1, <1>4 DEF LastSegment
  <2>2. working' = <<EndPoint(LastSegment)>> /\ EndPoint(LastSegment) \in Points
    BY <1>4, <2>1, EndPointIsPoint DEF SelectSegment, InheritedPoints
  <2>3. TeachingTypes'
    BY <1>2, <2>2 DEF TeachingTypes, SelectSegment, TeachingPhases, MaxPointsPerSegment
  <2>4. WorkingReach'
    BY <2>2 DEF WorkingReach, SelectSegment, RequiredPoints, SegmentTypes
  <2>5. WorkingStart' /\ NeighboursDiffer(working)'
    BY <1>2, <2>2 DEF WorkingStart, NeighboursDiffer, LastSegment
  <2>6. EndPoint(LastSegment) \in StoredPoints
    BY <2>1, EndPointIsPoint DEF StoredPoints, LastSegment
  <2>7. PointSet(working') = {EndPoint(LastSegment)}
    BY <2>2 DEF PointSet
  <2>8. StoredPoints' = StoredPoints
    BY <1>2 DEF StoredPoints
  <2>9. RecordedPoints' \subseteq RecordedPoints
    BY <2>6, <2>7, <2>8 DEF RecordedPoints
  <2>10. OneSetupRecorded' /\ OneSpeed'
    BY <1>2, <2>9 DEF OneSetupRecorded, OneSpeed, SelectSegment
  <2> QED  BY <1>2, <2>3, <2>4, <2>5, <2>10
           DEF SegmentsAreChained, Chained, SegmentsHaveExtent
<1> QED  BY <1>3, <1>4

\* A change of speed reaches every segment and leaves the geometry alone.
LEMMA ChangeSpeedPreserves ==
    ASSUME DraftInv, NEW requested \in 0 .. MaxSpeed, ChangeSpeed(requested)
    PROVE  DraftInv'
<1> USE DEF DraftInv
<1> DEFINE old == draft.segments
           new == [i \in 1 .. Len(old) |-> [old[i] EXCEPT !.speed = requested]]
<1>1. draft \in Drafts /\ old \in Seq(TaughtSegments) /\ Len(old) \in Nat
  BY DEF TeachingTypes, Drafts
<1>2. \A i \in 1 .. Len(old) :
          /\ old[i] \in TaughtSegments
          /\ new[i] \in TaughtSegments
          /\ new[i].speed = requested
          /\ new[i].type = old[i].type
          /\ new[i].points = old[i].points
  <2> SUFFICES ASSUME NEW i \in 1 .. Len(old)
               PROVE  /\ old[i] \in TaughtSegments
                      /\ new[i] \in TaughtSegments
                      /\ new[i].speed = requested
                      /\ new[i].type = old[i].type
                      /\ new[i].points = old[i].points
    OBVIOUS
  <2>1. old[i] \in TaughtSegments
    BY <1>1
  <2>2. old[i] \in [type : SegmentTypes, points : Seq(Points), speed : 0 .. MaxSpeed]
        /\ Len(old[i].points) = RequiredPoints[old[i].type]
    BY <2>1 DEF TaughtSegments
  <2>3. new[i] = [old[i] EXCEPT !.speed = requested]
    OBVIOUS
  <2> HIDE DEF new, old
  <2>4. /\ new[i] \in [type : SegmentTypes, points : Seq(Points), speed : 0 .. MaxSpeed]
        /\ new[i].speed = requested
        /\ new[i].type = old[i].type
        /\ new[i].points = old[i].points
    BY <2>2, <2>3
  <2>5. new[i] \in TaughtSegments
    BY <2>2, <2>4 DEF TaughtSegments
  <2> QED  BY <2>1, <2>4, <2>5
<1>3. new \in Seq(TaughtSegments) /\ Len(new) = Len(old)
  <2>1. new \in [1 .. Len(old) -> TaughtSegments]
    BY <1>2
  <2> QED  BY <1>1, <2>1
<1>4. draft' \in Drafts /\ draft'.segments = new
  <2>1. draft' = Edited(new, draft.status)
    BY DEF ChangeSpeed
  <2>2. draft.status \in DraftStatuses
    BY <1>1 DEF Drafts
  <2> HIDE DEF new, old
  <2> QED  BY <1>1, <1>3, <2>1, <2>2, EditedDraft
<1>5. /\ speed' = requested /\ workingSpeed' = requested
      /\ UNCHANGED <<teachingPhase, selected, working>>
  BY DEF ChangeSpeed
<1> HIDE DEF new, old
<1>6. TeachingTypes'
  BY <1>3, <1>4, <1>5 DEF TeachingTypes, old
<1>7. WorkingReach' /\ NeighboursDiffer(working)'
  BY <1>3, <1>4, <1>5 DEF WorkingReach, NeighboursDiffer, old
<1>8. \A i \in 1 .. Len(old) : EndPoint(new[i]) = EndPoint(old[i])
  BY <1>2, EndPointOfGeometry
<1>9. WorkingStart'
  <2> SUFFICES ASSUME teachingPhase' = "WAIT_POINT", draft'.segments # << >>
               PROVE  working' # << >> /\ working'[1] = EndPoint(LastSegment)'
    BY DEF WorkingStart
  <2>1. old # << >> /\ Len(old) \in 1 .. Len(old)
    BY <1>1, <1>3, <1>4
  <2>2. LastSegment' = new[Len(old)] /\ LastSegment = old[Len(old)]
    BY <1>3, <1>4 DEF LastSegment, old
  <2>3. EndPoint(LastSegment)' = EndPoint(LastSegment)
    BY <1>8, <2>1, <2>2 DEF EndPoint
  <2> QED  BY <1>5, <2>1, <2>3 DEF WorkingStart, old
<1>10. StoredPoints' = StoredPoints
  BY <1>2, <1>3, <1>4, SMTT(30) DEF StoredPoints, PointSet, old
<1>11. OneSetupRecorded'
  BY <1>5, <1>10 DEF OneSetupRecorded, RecordedPoints, PointSet
<1>12. OneSpeed'
  BY <1>2, <1>3, <1>4, <1>5 DEF OneSpeed
<1>13. SegmentsAreChained'
  BY <1>1, <1>2, <1>3, <1>4, <1>8 DEF SegmentsAreChained, Chained, old
<1>14. SegmentsHaveExtent'
  BY <1>2, <1>3, <1>4 DEF SegmentsHaveExtent, old
<1> QED  BY <1>6, <1>7, <1>9, <1>11, <1>12, <1>13, <1>14

\* Lengths up to three.
LEMMA SmallLengths ==
    ASSUME NEW n \in Nat, n <= 3
    PROVE  /\ n # 3 => n \in 0 .. 2
           /\ n + 1 >= 3 /\ n # 3 => n = 2
           /\ n # 0 => 1 \in 1 .. n
OBVIOUS

\* A point more fits into the segment.
LEMMA NextLength == \A n \in 0 .. 2 : n + 1 <= 3
OBVIOUS

\* The points captured so far, with one more.
LEMMA CapturedPoints ==
    ASSUME DraftInv, NEW point \in Points, CaptureAllowed(point),
           Len(working) # MaxPointsPerSegment
    PROVE  /\ Append(working, point) \in Seq(Points)
           /\ Len(Append(working, point)) = Len(working) + 1
           /\ Len(Append(working, point)) <= MaxPointsPerSegment
           /\ NeighboursDiffer(Append(working, point))
           /\ working # << >> => Append(working, point)[1] = working[1]
           /\ PointSet(Append(working, point)) = PointSet(working) \cup {point}
<1>1. working \in Seq(Points) /\ Len(working) \in 0 .. 2
  <2>1. /\ working \in Seq(Points)
        /\ Len(working) <= 3 /\ Len(working) # 3
    BY DEF DraftInv, TeachingTypes, MaxPointsPerSegment
  <2>2. Len(working) \in Nat
    BY <2>1
  <2> QED  BY <2>1, <2>2, SmallLengths
<1>2. /\ Append(working, point) \in Seq(Points)
      /\ Len(Append(working, point)) = Len(working) + 1
      /\ \A p \in 1 .. Len(working) : Append(working, point)[p] = working[p]
      /\ Append(working, point)[Len(working) + 1] = point
  BY <1>1
<1>3. working # << >> => working[Len(working)].place # point.place
  BY DEF CaptureAllowed
<1>4. NeighboursDiffer(Append(working, point))
  BY <1>1, <1>2, <1>3 DEF NeighboursDiffer, DraftInv
<1>5. PointSet(Append(working, point)) = PointSet(working) \cup {point}
  BY <1>1, <1>2 DEF PointSet
<1>6. working # << >> => Append(working, point)[1] = working[1]
  BY <1>1, <1>2
<1>7. Len(working) + 1 <= 3
  BY <1>1, NextLength
<1> QED  BY <1>2, <1>4, <1>5, <1>6, <1>7 DEF MaxPointsPerSegment

\* A point that may be captured was recorded in the setup of the draft.
LEMMA CapturedSetup ==
    ASSUME DraftInv, NEW point \in Points, CaptureAllowed(point)
    PROVE  RecordedPoints # {} => \E x \in RecordedPoints : x.setup = point.setup
<1>1. draft.segments \in Seq(TaughtSegments) /\ working \in Seq(Points)
  BY DEF DraftInv, TeachingTypes, Drafts
<1>2. CASE draft.segments # << >>
  <2>1. 1 \in 1 .. Len(draft.segments) /\ draft.segments[1] \in TaughtSegments
    BY <1>1, <1>2
  <2>2. 1 \in 1 .. Len(draft.segments[1].points)
    <3>1. PICK n \in 2 .. 3 : Len(draft.segments[1].points) = n
      BY <2>1, EndPointIsPoint
    <3>2. 1 \in 1 .. n
      OBVIOUS
    <3> QED  BY <3>1, <3>2, Zenon
  <2>3. draft.segments[1].points[1] \in RecordedPoints
    BY <2>1, <2>2 DEF RecordedPoints, StoredPoints, PointSet
  <2> QED  BY <1>2, <2>3 DEF CaptureAllowed, SameSetup
<1>3. CASE draft.segments = << >> /\ working # << >>
  <2>1. working[1] \in RecordedPoints
    BY <1>1, <1>3 DEF RecordedPoints, PointSet
  <2> QED  BY <1>3, <2>1 DEF CaptureAllowed, SameSetup
<1>4. CASE draft.segments = << >> /\ working = << >>
  <2>1. RecordedPoints = {}
    BY <1>4 DEF RecordedPoints, StoredPoints, PointSet
  <2> QED  BY <2>1
<1> QED  BY <1>2, <1>3, <1>4

\* A point that is kept, the segment in work being incomplete or refused.
LEMMA KeepPointPreserves ==
    ASSUME DraftInv, NEW point \in Points, CaptureAllowed(point),
           Len(working) # MaxPointsPerSegment,
           KeepPoint(Append(working, point)),
           \/ Len(Append(working, point)) < RequiredPoints[selected]
           \/ Len(draft.segments) = MaxSegments
    PROVE  DraftInv'
<1> USE DEF DraftInv
<1>1. /\ working' = Append(working, point)
      /\ UNCHANGED <<teachingPhase, draft, selected, workingSpeed, speed>>
  BY DEF KeepPoint
<1>2. TeachingTypes'
  BY <1>1, CapturedPoints DEF TeachingTypes
<1>3. WorkingReach'
  BY <1>1, TeachingAssumption DEF WorkingReach, TeachingAssumption
<1>4. WorkingStart'
  <2>1. UNCHANGED EndPoint(LastSegment)
    BY <1>1 DEF LastSegment, EndPoint
  <2>2. working' # << >> /\ (working # << >> => working'[1] = working[1])
    BY <1>1, CapturedPoints DEF TeachingTypes
  <2> QED  BY <1>1, <2>1, <2>2 DEF WorkingStart
<1>5. NeighboursDiffer(working)'
  BY <1>1, CapturedPoints DEF NeighboursDiffer
<1>6. RecordedPoints' \subseteq RecordedPoints \cup {point}
  BY <1>1, CapturedPoints DEF RecordedPoints, StoredPoints, PointSet
<1>7. OneSetupRecorded'
  BY <1>6, CapturedSetup, OneSetupKept
<1>8. OneSpeed' /\ SegmentsAreChained' /\ SegmentsHaveExtent'
  BY <1>1 DEF OneSpeed, SegmentsAreChained, Chained, EndPoint, SegmentsHaveExtent
<1> QED  BY <1>2, <1>3, <1>4, <1>5, <1>7, <1>8

\* A third point that is dropped leaves the two before it.
LEMMA DropThirdPointPreserves ==
    ASSUME DraftInv, NEW point \in Points, CaptureAllowed(point),
           Len(working) # MaxPointsPerSegment,
           DropThirdPoint(Append(working, point)),
           Len(Append(working, point)) >= RequiredPoints[selected],
           Collinear(Append(working, point))
    PROVE  DraftInv'
<1> USE DEF DraftInv
<1>1. /\ working' = SubSeq(Append(working, point), 1, 2)
      /\ UNCHANGED <<teachingPhase, draft, selected, workingSpeed, speed>>
  BY DEF DropThirdPoint
<1>2. selected \in {"ARC", "CIRCLE"} /\ RequiredPoints[selected] = 3
  BY DEF Collinear, RequiredPoints
<1>3. working \in Seq(Points) /\ Len(working) = 2
  <2>1. working \in Seq(Points) /\ Len(working) \in Nat
    BY DEF TeachingTypes
  <2>2. Len(Append(working, point)) >= 3
    BY <1>2
  <2>3. Len(Append(working, point)) = Len(working) + 1
    BY CapturedPoints
  <2>4. Len(working) <= 3 /\ Len(working) # 3
    BY DEF TeachingTypes, MaxPointsPerSegment
  <2> QED  BY <2>1, <2>2, <2>3, <2>4, SmallLengths
<1>4. working' = working
  BY <1>1, <1>3
<1> QED  BY <1>1, <1>4, UnchangedDraftInv DEF teachingVars

\* A segment that is stored joins the chain.
LEMMA StoreSegmentPreserves ==
    ASSUME DraftInv, NEW point \in Points, CaptureAllowed(point),
           Len(working) # MaxPointsPerSegment,
           StoreSegment(Append(working, point)),
           Len(Append(working, point)) >= RequiredPoints[selected],
           ~Collinear(Append(working, point)),
           Len(draft.segments) # MaxSegments
    PROVE  DraftInv'
<1> USE DEF DraftInv
<1> DEFINE points == Append(working, point)
           segment == [type |-> selected, points |-> points, speed |-> workingSpeed]
           old == draft.segments
           new == Append(old, segment)
<1>1. /\ working' = points
      /\ draft' = Edited(new, "COMPLETE")
      /\ teachingPhase' = "SEGMENT_COMPLETE"
      /\ UNCHANGED <<selected, workingSpeed, speed>>
  BY DEF StoreSegment
<1>2. /\ points \in Seq(Points) /\ Len(points) <= 3
      /\ Len(points) = Len(working) + 1
      /\ NeighboursDiffer(points)
      /\ working # << >> => points[1] = working[1]
      /\ PointSet(points) = PointSet(working) \cup {point}
  BY CapturedPoints DEF MaxPointsPerSegment
<1>3. teachingPhase = "WAIT_POINT"
  BY DEF CaptureAllowed
<1>4. draft \in Drafts /\ old \in Seq(TaughtSegments) /\ Len(old) \in Nat
  BY DEF TeachingTypes, Drafts
<1>5. Len(old) < MaxSegments
  BY <1>4, TeachingAssumption DEF TeachingTypes, TeachingAssumption
<1>6. Len(points) = RequiredPoints[selected] /\ selected \in SegmentTypes
  <2>1. Len(working) \in Nat /\ Len(working) < RequiredPoints[selected]
        /\ selected \in SegmentTypes
    BY <1>3, <1>5 DEF WorkingReach, TeachingTypes
  <2>2. RequiredPoints[selected] \in Nat
    BY <2>1 DEF RequiredPoints, SegmentTypes
  <2>3. Len(working) + 1 >= RequiredPoints[selected]
    BY <1>2
  <2> QED  BY <1>2, <2>1, <2>2, <2>3
<1> HIDE DEF points
<1>7. segment \in TaughtSegments
  BY <1>2, <1>6 DEF TaughtSegments, TeachingTypes
<1>8. HasExtent(points)
  <2>1. Len(points) = 3 => selected \in {"ARC", "CIRCLE"}
    BY <1>6 DEF RequiredPoints, SegmentTypes
  <2> QED  BY <1>2, <2>1 DEF HasExtent, Collinear, points
<1> HIDE DEF segment
<1>9. /\ new \in Seq(TaughtSegments)
      /\ Len(new) = Len(old) + 1
      /\ \A i \in 1 .. Len(old) : new[i] = old[i]
      /\ new[Len(old) + 1] = segment
  BY <1>4, <1>7
<1> HIDE DEF new
<1>10. draft' \in Drafts /\ draft'.segments = new
  <2>1. "COMPLETE" \in DraftStatuses
    BY DEF DraftStatuses
  <2> QED  BY <1>1, <1>4, <1>9, <2>1, EditedDraft
<1>11. TeachingTypes'
  <2>1. Len(new) <= MaxSegments
    BY <1>4, <1>5, <1>9, TeachingAssumption DEF TeachingAssumption
  <2> QED  BY <1>1, <1>2, <1>10, <2>1
           DEF TeachingTypes, TeachingPhases, MaxPointsPerSegment
<1>12. WorkingReach' /\ WorkingStart'
  BY <1>1 DEF WorkingReach, WorkingStart
<1>13. NeighboursDiffer(working)'
  BY <1>1, <1>2 DEF NeighboursDiffer
<1>14. OneSetupRecorded'
  <2>1. segment.points = points
    BY DEF segment
  <2>2. StoredPoints' \subseteq StoredPoints \cup PointSet(points)
    BY <1>4, <1>9, <1>10, <2>1 DEF StoredPoints, old
  <2>3. PointSet(working)' = PointSet(points)
    BY <1>1 DEF PointSet
  <2>4. RecordedPoints' \subseteq RecordedPoints \cup {point}
    BY <1>2, <2>2, <2>3 DEF RecordedPoints
  <2> QED  BY <2>4, CapturedSetup, OneSetupKept
<1>15. OneSpeed'
  <2>1. segment.speed = speed
    BY <1>3 DEF segment, OneSpeed
  <2>2. ASSUME NEW i \in 1 .. Len(new) PROVE new[i].speed = speed
    <3>1. CASE i \in 1 .. Len(old)
      BY <1>9, <3>1 DEF OneSpeed, old
    <3>2. CASE i = Len(old) + 1
      BY <1>9, <2>1, <3>2
    <3> QED  BY <1>4, <1>9, <3>1, <3>2
  <2>3. teachingPhase' # "WAIT_POINT" /\ speed' = speed
    BY <1>1
  <2> QED  BY <1>10, <2>2, <2>3 DEF OneSpeed
<1>16. SegmentsAreChained'
  <2> SUFFICES ASSUME NEW i \in 1 .. Len(new) - 1
               PROVE  new[i + 1].points[1] = EndPoint(new[i])
    BY <1>10 DEF SegmentsAreChained, Chained, EndPoint
  <2>1. CASE i < Len(old)
    BY <1>4, <1>9, <2>1, SMTT(30) DEF SegmentsAreChained, Chained, old
  <2>2. CASE i = Len(old)
    <3>1. old # << >> /\ LastSegment = new[i] /\ new[i + 1] = segment
      BY <1>4, <1>9, <2>2 DEF LastSegment, old
    <3>2. segment.points[1] = working[1] /\ working[1] = EndPoint(LastSegment)
      BY <1>2, <1>3, <3>1 DEF WorkingStart, segment, old
    <3> QED  BY <3>1, <3>2
  <2> QED  BY <1>4, <1>9, <2>1, <2>2
<1>17. SegmentsHaveExtent'
  <2> SUFFICES ASSUME NEW i \in 1 .. Len(new)
               PROVE  HasExtent(new[i].points)
    BY <1>10 DEF SegmentsHaveExtent, HasExtent, NeighboursDiffer
  <2>1. CASE i \in 1 .. Len(old)
    BY <1>9, <2>1 DEF SegmentsHaveExtent, HasExtent, NeighboursDiffer, old
  <2>2. CASE i = Len(old) + 1
    BY <1>8, <1>9, <2>2 DEF segment
  <2> QED  BY <1>4, <1>9, <2>1, <2>2
<1> QED  BY <1>11, <1>12, <1>13, <1>14, <1>15, <1>16, <1>17

\* Recording a point, whatever becomes of it.
LEMMA RecordPointPreserves ==
    ASSUME DraftInv, NEW point \in Points, RecordPoint(point)
    PROVE  DraftInv'
<1>1. CaptureAllowed(point)
  BY DEF RecordPoint
<1>2. CASE Len(working) = MaxPointsPerSegment
  <2>1. /\ teachingPhase' = "OVERRUN"
        /\ UNCHANGED <<draft, selected, working, workingSpeed, speed>>
    BY <1>2 DEF RecordPoint, WritePastSegment
  <2>2. TeachingTypes' /\ NeighboursDiffer(working)'
    BY <2>1 DEF DraftInv, TeachingTypes, TeachingPhases, NeighboursDiffer
  <2>3. WorkingReach' /\ WorkingStart'
    BY <2>1 DEF WorkingReach, WorkingStart
  <2>4. UNCHANGED RecordedPoints
    BY <2>1 DEF RecordedPoints, StoredPoints, PointSet
  <2>5. OneSetupRecorded' /\ OneSpeed'
    BY <2>1, <2>4 DEF DraftInv, OneSetupRecorded, OneSpeed
  <2>6. SegmentsAreChained' /\ SegmentsHaveExtent'
    BY <2>1 DEF DraftInv, SegmentsAreChained, Chained, EndPoint, SegmentsHaveExtent
  <2> QED  BY <2>2, <2>3, <2>5, <2>6 DEF DraftInv
<1>3. CASE Len(working) # MaxPointsPerSegment
  <2> DEFINE points == Append(working, point)
  <2>1. CapturePoint(points)
    BY <1>3 DEF RecordPoint
  <2>2. Len(points) \in Nat /\ RequiredPoints[selected] \in Nat
    BY <1>1, <1>3, CapturedPoints
       DEF DraftInv, WorkingReach, CaptureAllowed, RequiredPoints, SegmentTypes
  <2>3. CASE Len(points) < RequiredPoints[selected]
    BY <1>1, <1>3, <2>1, <2>3, KeepPointPreserves DEF CapturePoint
  <2>4. CASE ~(Len(points) < RequiredPoints[selected]) /\ Collinear(points)
    <3>1. Len(points) >= RequiredPoints[selected]
      BY <2>2, <2>4
    <3> QED  BY <1>1, <1>3, <2>1, <2>4, <3>1, DropThirdPointPreserves DEF CapturePoint
  <2>5. CASE /\ ~(Len(points) < RequiredPoints[selected]) /\ ~Collinear(points)
             /\ Len(draft.segments) = MaxSegments
    BY <1>1, <1>3, <2>1, <2>5, KeepPointPreserves DEF CapturePoint
  <2>6. CASE /\ ~(Len(points) < RequiredPoints[selected]) /\ ~Collinear(points)
             /\ Len(draft.segments) # MaxSegments
    <3>1. Len(points) >= RequiredPoints[selected]
      BY <2>2, <2>6
    <3> QED  BY <1>1, <1>3, <2>1, <2>6, <3>1, StoreSegmentPreserves DEF CapturePoint
  <2> QED  BY <2>3, <2>4, <2>5, <2>6
<1> QED  BY <1>2, <1>3

\* Submission changes the status and adds the checksum.
LEMMA SubmitDraftPreserves ==
    ASSUME DraftInv, SubmitDraft
    PROVE  DraftInv' /\ draft'.segments = draft.segments
<1> USE DEF DraftInv
<1>1. /\ draft' = [draft EXCEPT !.status = "SUBMITTED", !.checksum = Contents(draft)]
      /\ teachingPhase' = "SUBMITTING_DRAFT"
      /\ UNCHANGED <<selected, working, workingSpeed, speed>>
  BY DEF SubmitDraft
<1>2. draft \in Drafts /\ Contents(draft) \in Checksums
  BY DEF TeachingTypes, Drafts, Contents, Checksums
<1>3. draft' \in Drafts /\ draft'.segments = draft.segments
  BY <1>1, <1>2 DEF Drafts, DraftStatuses
<1>4. TeachingTypes' /\ NeighboursDiffer(working)'
  BY <1>1, <1>3 DEF TeachingTypes, TeachingPhases, NeighboursDiffer
<1>5. WorkingReach' /\ WorkingStart'
  BY <1>1 DEF WorkingReach, WorkingStart
<1>6. UNCHANGED RecordedPoints
  BY <1>1, <1>3 DEF RecordedPoints, StoredPoints, PointSet
<1>7. OneSetupRecorded' /\ OneSpeed'
  BY <1>1, <1>3, <1>6 DEF OneSetupRecorded, OneSpeed
<1>8. SegmentsAreChained' /\ SegmentsHaveExtent'
  BY <1>3 DEF SegmentsAreChained, Chained, EndPoint, SegmentsHaveExtent
<1> QED  BY <1>3, <1>4, <1>5, <1>7, <1>8

\* Every event of the operator.
LEMMA EditStepPreserves ==
    ASSUME DraftInv, NEW event \in TeachingEvents, EditStep(event)
    PROVE  DraftInv'
<1>1. ASSUME UNCHANGED teachingVars PROVE DraftInv'
  BY <1>1, UnchangedDraftInv
<1>2. CASE event \in SegmentTypes /\ SelectSegment(event)
  BY <1>2, SelectSegmentPreserves
<1>3. CASE event = "RECORD_POINT" /\ RecordStep
  <2>1. CASE UNCHANGED teachingVars
    BY <1>1, <2>1
  <2>2. ASSUME NEW point \in PointsNow, RecordPoint(point) PROVE DraftInv'
    <3>1. point \in Points
      BY TeachingAssumption DEF TeachingAssumption, PointsNow
    <3> QED  BY <2>2, <3>1, RecordPointPreserves
  <2> QED  BY <1>3, <2>1, <2>2 DEF RecordStep
<1>4. CASE event \in SpeedEvents /\ ChangeSpeed(SpeedAfter(event))
  <2>1. speed \in 0 .. MaxSpeed /\ MaxSpeed \in Nat /\ DefaultSpeed \in 0 .. MaxSpeed
    BY TeachingAssumption DEF DraftInv, TeachingTypes, TeachingAssumption
  <2>2. SpeedAfter(event) \in 0 .. MaxSpeed
    BY <1>4, <2>1 DEF SpeedAfter, SpeedEvents
  <2> QED  BY <1>4, <2>2, ChangeSpeedPreserves
<1>5. CASE event = "RESET" /\ ResetDraft
  <2>1. /\ draft.id \in Nat /\ draft.revision + 1 \in Nat
        /\ speed \in 0 .. MaxSpeed /\ 0 \in 0 .. MaxSpeed
    BY TeachingAssumption DEF DraftInv, TeachingTypes, Drafts, TeachingAssumption
  <2> QED  BY <1>5, <2>1, EmptyDraftInv DEF ResetDraft
<1> QED  BY <1>1, <1>2, <1>3, <1>4, <1>5 DEF EditStep

-----------------------------------------------------------------------------
(* The draft under the supervisor.                                         *)

ProgramInv ==
    /\ DraftInv
    /\ nextProgram \in Nat
    /\ draft.id < nextProgram
    /\ pending \in TeachingEvents \cup {"NONE"}

\* The invariant of the draft holds at the start.
LEMMA ProgramInvInit == AuthoringInit => ProgramInv
<1> SUFFICES ASSUME AuthoringInit PROVE ProgramInv
  OBVIOUS
<1>1. /\ draft = EmptyDraft(0, 0) /\ working = << >>
      /\ teachingPhase = "WAIT_SEGMENT_SELECTION"
      /\ speed = 0 /\ workingSpeed = 0
      /\ nextProgram = 1 /\ pending = "NONE"
  BY DEF AuthoringInit, Init
<1>2. draft \in Drafts /\ draft.segments = << >> /\ draft.id = 0
  BY <1>1 DEF EmptyDraft, Drafts, Checksums, DraftStatuses
<1>3. TeachingTypes
  BY <1>1, <1>2, TeachingAssumption DEF TeachingTypes, TeachingAssumption,
     TeachingPhases, MaxPointsPerSegment
<1>4. RecordedPoints = {}
  BY <1>1, <1>2 DEF RecordedPoints, StoredPoints, PointSet
<1>5. WorkingReach /\ WorkingStart /\ NeighboursDiffer(working)
  BY <1>1 DEF WorkingReach, WorkingStart, NeighboursDiffer
<1>6. OneSetupRecorded /\ OneSpeed
  BY <1>1, <1>2, <1>4 DEF OneSetupRecorded, OneSpeed
<1>7. SegmentsAreChained /\ SegmentsHaveExtent
  BY <1>2 DEF SegmentsAreChained, Chained, SegmentsHaveExtent
<1> QED  BY <1>1, <1>2, <1>3, <1>5, <1>6, <1>7 DEF ProgramInv, DraftInv

\* An event keeps the number of the draft, and gives changed contents a revision
\* of their own.
LEMMA EditKeepsIdentity ==
    ASSUME DraftInv, NEW event \in TeachingEvents, EditStep(event)
    PROVE  /\ draft'.id = draft.id
           /\ draft'.segments # draft.segments => draft'.revision > draft.revision
<1>1. /\ draft \in Drafts /\ draft.revision \in Nat
      /\ draft.segments \in Seq(TaughtSegments) /\ draft.status \in DraftStatuses
  BY DEF DraftInv, TeachingTypes, Drafts
<1>2. draft.revision + 1 > draft.revision
  BY <1>1
<1>3. CASE event \in SegmentTypes /\ SelectSegment(event)
  BY <1>1, <1>3 DEF SelectSegment, Drafts
<1>4. CASE event = "RECORD_POINT" /\ RecordStep
  <2>1. ASSUME NEW point \in PointsNow, RecordPoint(point), draft' # draft
        PROVE  \E segments, status : draft' = Edited(segments, status)
    BY <2>1 DEF RecordPoint, WritePastSegment, CapturePoint, KeepPoint,
       DropThirdPoint, StoreSegment
  <2>2. ASSUME NEW segments, NEW status, draft' = Edited(segments, status)
        PROVE  draft'.id = draft.id /\ draft'.revision = draft.revision + 1
    BY <1>1, <2>2 DEF Edited, Drafts
  <2> QED  BY <1>2, <1>4, <2>1, <2>2 DEF RecordStep, teachingVars
<1>5. CASE event \in SpeedEvents /\ ChangeSpeed(SpeedAfter(event))
  <2>1. draft'.id = draft.id /\ draft'.revision = draft.revision + 1
    BY <1>1, <1>5 DEF ChangeSpeed, Edited, Drafts
  <2> QED  BY <1>2, <2>1
<1>6. CASE event = "RESET" /\ ResetDraft
  BY <1>2, <1>6 DEF ResetDraft, EmptyDraft
<1>7. CASE UNCHANGED teachingVars
  BY <1>7 DEF teachingVars
<1> QED  BY <1>3, <1>4, <1>5, <1>6, <1>7 DEF EditStep

\* A step of the supervisor leaves the draft alone, begins another one, submits
\* it, or is an event of the operator.
LEMMA DraftStep ==
    ASSUME ProgramInv, [Next]_vars
    PROVE  \/ UNCHANGED <<teachingVars, nextProgram>> /\ pending' \in TeachingEvents \cup {"NONE"}
           \/ BeginProgram
           \/ Submit
           \/ Edit
<1> USE DEF ProgramInv, vars, supervisorVars
<1>1. CASE UNCHANGED vars
  BY <1>1
<1>2. CASE Command
  BY <1>2 DEF Command
<1>3. CASE BeginValidationStep \/ ContinueValidationStep \/ EndValidationStep
  BY <1>3 DEF BeginValidationStep, ContinueValidationStep, EndValidationStep
<1>4. CASE ResetProgram \/ BeginMotion \/ EndMotion \/ StopInput \/ Recover
  BY <1>4 DEF ResetProgram, BeginMotion, EndMotion, StopInput, Recover
<1> QED  BY <1>1, <1>2, <1>3, <1>4 DEF Next, Lost

\* A new program has a number no draft had before.
LEMMA BeginProgramStep ==
    ASSUME ProgramInv, BeginProgram
    PROVE  ProgramInv' /\ draft'.id # draft.id
<1>1. /\ EnterTeaching(nextProgram) /\ nextProgram' = nextProgram + 1
      /\ pending' \in SegmentTypes /\ nextProgram \in Nat
  BY DEF BeginProgram, ProgramInv
<1>2. draft' = EmptyDraft(nextProgram, 0) /\ draft'.id = nextProgram
  BY <1>1 DEF EnterTeaching, EmptyDraft
<1>3. DefaultSpeed \in 0 .. MaxSpeed /\ 0 \in 0 .. MaxSpeed
  BY TeachingAssumption DEF TeachingAssumption
<1>4. DraftInv'
  BY <1>1, <1>2, <1>3, EmptyDraftInv DEF EnterTeaching
<1>5. draft.id \in Nat /\ draft.id < nextProgram
  BY DEF ProgramInv, DraftInv, TeachingTypes, Drafts
<1> QED  BY <1>1, <1>2, <1>4, <1>5 DEF ProgramInv, TeachingEvents

\* The invariant of the draft under any step.
LEMMA ProgramInvNext == ProgramInv /\ [Next]_vars => ProgramInv'
<1> SUFFICES ASSUME ProgramInv, [Next]_vars PROVE ProgramInv'
  OBVIOUS
<1>1. CASE UNCHANGED <<teachingVars, nextProgram>>
           /\ pending' \in TeachingEvents \cup {"NONE"}
  <2>1. DraftInv'
    BY <1>1, UnchangedDraftInv DEF ProgramInv
  <2> QED  BY <1>1, <2>1 DEF ProgramInv, teachingVars
<1>2. CASE BeginProgram
  BY <1>2, BeginProgramStep
<1>3. CASE Submit
  <2>1. DraftInv'
    BY <1>3, SubmitDraftPreserves DEF Submit, ProgramInv
  <2>2. draft'.id = draft.id
    BY <1>3 DEF Submit, SubmitDraft, ProgramInv, DraftInv, TeachingTypes, Drafts
  <2> QED  BY <1>3, <2>1, <2>2 DEF Submit, ProgramInv
<1>4. CASE Edit
  <2>1. pending \in TeachingEvents
    BY <1>4 DEF Edit, EditStep, ProgramInv, TeachingEvents
  <2>2. DraftInv' /\ draft'.id = draft.id
    BY <1>4, <2>1, EditStepPreserves, EditKeepsIdentity DEF Edit, ProgramInv
  <2> QED  BY <1>4, <2>2 DEF Edit, ProgramInv
<1> QED  BY <1>1, <1>2, <1>3, <1>4, DraftStep

\* The invariant of the draft holds of every program the operator teaches.
THEOREM DraftInvariant == Spec => []ProgramInv
BY ProgramInvInit, ProgramInvNext, PTL DEF Spec

\* Every segment starts where the one before it ends, in a draft of any length
\* and after any sequence of events (begin_segment(), record_point()).
THEOREM DraftsAreChained == Spec => []SegmentsAreChained
<1>1. ProgramInv => SegmentsAreChained
  BY DEF ProgramInv, DraftInv
<1> QED  BY <1>1, DraftInvariant, PTL

\* No stored segment is without extent (record_point()).
THEOREM DraftsHaveExtent == Spec => []SegmentsHaveExtent
<1>1. ProgramInv => SegmentsHaveExtent
  BY DEF ProgramInv, DraftInv
<1> QED  BY <1>1, DraftInvariant, PTL

\* The draft has one speed (begin_segment(), change_speed()).
THEOREM DraftsHaveOneSpeed == Spec => []OneSpeedPerDraft
<1>1. ProgramInv => OneSpeedPerDraft
  BY DEF ProgramInv, DraftInv, OneSpeed, OneSpeedPerDraft
<1> QED  BY <1>1, DraftInvariant, PTL

\* Number and revision of a draft stand for one contents, through resets and new
\* programs (state_teaching_reset_draft(), enter_active_state()).
THEOREM RevisionsIdentifyDrafts == Spec => RevisionIdentifiesDraft
<1>1. ProgramInv /\ [Next]_vars =>
          [draft'.id = draft.id /\ draft'.segments # draft.segments =>
               draft'.revision > draft.revision]_vars
  <2> SUFFICES ASSUME ProgramInv, [Next]_vars, draft'.id = draft.id,
                      draft'.segments # draft.segments
               PROVE  draft'.revision > draft.revision
    BY Zenon
  <2>1. ~UNCHANGED teachingVars
    BY DEF teachingVars
  <2>2. ~BeginProgram
    BY BeginProgramStep
  <2>3. ~Submit
    BY SubmitDraftPreserves DEF Submit, ProgramInv
  <2>4. Edit
    BY <2>1, <2>2, <2>3, DraftStep
  <2>5. pending \in TeachingEvents /\ EditStep(pending)
    BY <2>4 DEF Edit, EditStep, ProgramInv, TeachingEvents
  <2> QED  BY <2>5, EditKeepsIdentity DEF ProgramInv
<1> QED  BY <1>1, DraftInvariant, PTL DEF Spec, RevisionIdentifiesDraft

-----------------------------------------------------------------------------
(* The invariant of the validation and of its storage.                     *)

WellFormed(program) ==
    /\ program \in Drafts
    /\ program.checksum = Contents(program)
    /\ program.segments # << >>
    /\ OneSetup(program)

Samples == Positions \cup (Nat \X Nat)

StorageTypes ==
    /\ storage = [writing |-> storage.writing, committed |-> storage.committed,
                  samples |-> storage.samples, metadata |-> storage.metadata]
    /\ storage.samples \in Seq(Samples)
    /\ sampleIndex \in Nat
    /\ segmentIndex \in Nat
    /\ nextSample \in Nat

\* The phases in which the validation has work to do.
WorkPhases ==
    {"SNAPSHOT_CHECK", "STRUCTURAL_CHECK", "PREPARE_SEGMENT",
     "GENERATE_AND_VALIDATE_SAMPLE", "FINALIZE"}

\* The phases with a segment in work, or before the first.
SegmentPhases == WorkPhases \ {"FINALIZE"}

Committed ==
    /\ storage.committed
    /\ storage.metadata.samples = Len(storage.samples)
    /\ storage.metadata.checksum = Contents(submitted)
    /\ storage.metadata.id = submitted.id
    /\ storage.metadata.revision = submitted.revision

ValidationInv ==
    /\ validationPhase \in ValidationPhases
    /\ validationError \in {"NONE", "INVALID_PARAMETER", "GEOMETRY", "SAMPLE"}
    /\ StorageTypes
    /\ validationPhase # "IDLE" => WellFormed(submitted)
    /\ validationPhase \in WorkPhases =>
           storage.writing /\ sampleIndex = Len(storage.samples)
    /\ validationPhase \in SegmentPhases =>
           segmentIndex \in 1 .. Len(submitted.segments)
    /\ validationPhase = "VALID" => Committed

\* A trajectory is released only by a result, and while it is, nothing is checked.
ReleaseInv ==
    /\ validated => validationPhase = "VALID"
    /\ validated => location # "PATH_VALIDATION"
    /\ validating => location = "PATH_VALIDATION"

AuthoringInv == ProgramInv /\ ValidationInv /\ ReleaseInv

\* What TEACHING submits is well formed.
LEMMA SubmissionWellFormed ==
    ASSUME DraftInv, SubmitDraft
    PROVE  WellFormed(draft')
<1>1. /\ draft \in Drafts /\ draft.segments # << >>
      /\ draft' = [draft EXCEPT !.status = "SUBMITTED", !.checksum = Contents(draft)]
  BY DEF SubmitDraft, SubmissionAllowed, DraftInv, TeachingTypes
<1>2. draft' \in Drafts /\ draft'.segments = draft.segments
  BY SubmitDraftPreserves DEF DraftInv, TeachingTypes
<1>3. draft'.checksum = Contents(draft')
  BY <1>1 DEF Drafts, Contents
<1>4. OneSetup(draft')
  <2> SUFFICES ASSUME NEW i \in 1 .. Len(draft.segments),
                      NEW j \in 1 .. Len(draft.segments),
                      NEW x \in SetupsOf(draft.segments[i]),
                      NEW y \in SetupsOf(draft.segments[j])
               PROVE  x = y
    BY <1>2 DEF OneSetup
  <2>1. PICK p \in 1 .. Len(draft.segments[i].points) :
            x = draft.segments[i].points[p].setup
    BY DEF SetupsOf
  <2>2. PICK q \in 1 .. Len(draft.segments[j].points) :
            y = draft.segments[j].points[q].setup
    BY DEF SetupsOf
  <2>3. /\ draft.segments[i].points[p] \in RecordedPoints
        /\ draft.segments[j].points[q] \in RecordedPoints
    <3>1. /\ draft.segments[i].points[p] \in PointSet(draft.segments[i].points)
          /\ draft.segments[j].points[q] \in PointSet(draft.segments[j].points)
      BY DEF PointSet
    <3> QED  BY <3>1 DEF RecordedPoints, StoredPoints
  <2> QED  BY <2>1, <2>2, <2>3 DEF DraftInv, OneSetupRecorded
<1> QED  BY <1>1, <1>2, <1>3, <1>4 DEF WellFormed

\* Nothing is validated and nothing released at the start.
LEMMA ValidationInvInit == AuthoringInit => ValidationInv /\ ReleaseInv
<1> SUFFICES ASSUME AuthoringInit PROVE ValidationInv /\ ReleaseInv
  OBVIOUS
<1>1. /\ validationPhase = "IDLE" /\ validationError = "NONE"
      /\ segmentIndex = 1 /\ nextSample = 0 /\ sampleIndex = 0
      /\ storage = [writing |-> FALSE, committed |-> FALSE, samples |-> << >>,
                    metadata |-> NoMetadata]
      /\ validated = FALSE /\ validating = FALSE
  BY DEF AuthoringInit, ValidationInit
<1>2. << >> \in Seq(Samples)
  OBVIOUS
<1>3. StorageTypes
  BY <1>1, <1>2 DEF StorageTypes
<1>4. ValidationInv
  BY <1>1, <1>3 DEF ValidationInv, ValidationPhases, EndedPhases, WorkPhases,
     SegmentPhases
<1> QED  BY <1>1, <1>4 DEF ReleaseInv

\* The program under check does not change.
LEMMA KeptWellFormed ==
    ASSUME WellFormed(submitted), submitted' = submitted
    PROVE  WellFormed(submitted)'
<1>1. /\ submitted' \in Drafts /\ submitted'.segments # << >>
      /\ submitted'.checksum = Contents(submitted)'
  BY DEF WellFormed, Contents
<1>2. OneSetup(submitted)'
  <2> SUFFICES ASSUME NEW i \in 1 .. Len(submitted'.segments),
                      NEW j \in 1 .. Len(submitted'.segments),
                      NEW x \in SetupsOf(submitted'.segments[i]),
                      NEW y \in SetupsOf(submitted'.segments[j])
               PROVE  x = y
    BY DEF OneSetup, SetupsOf
  <2> QED  BY DEF WellFormed, OneSetup
<1> QED  BY <1>1, <1>2 DEF WellFormed

\* The types of a storage that is left alone.
LEMMA KeptStorageTypes ==
    ASSUME StorageTypes, UNCHANGED <<storage, sampleIndex, segmentIndex>>,
           nextSample' \in Nat
    PROVE  StorageTypes'
BY DEF StorageTypes

\* A validation begins with an empty storage and the first segment.
LEMMA EnterValidationInv ==
    ASSUME NEW program, EnterValidation(program), WellFormed(program)
    PROVE  ValidationInv'
<1>1. /\ submitted' = program /\ validationPhase' = "SNAPSHOT_CHECK"
      /\ validationError' = "NONE" /\ segmentIndex' = 1
      /\ nextSample' = 0 /\ sampleIndex' = 0
      /\ storage' = [writing |-> TRUE, committed |-> FALSE, samples |-> << >>,
                     metadata |-> NoMetadata]
  BY DEF EnterValidation, Begin
<1>2. StorageTypes'
  BY <1>1 DEF StorageTypes
<1>3. 1 \in 1 .. Len(submitted'.segments)
  <2>1. program.segments \in Seq(TaughtSegments) /\ program.segments # << >>
    BY DEF WellFormed, Drafts
  <2> QED  BY <1>1, <2>1
<1>4. WellFormed(submitted)'
  BY <1>1 DEF WellFormed, OneSetup, SetupsOf, Contents
<1>5. storage'.writing /\ sampleIndex' = Len(storage'.samples)
  BY <1>1
<1> QED  BY <1>1, <1>2, <1>3, <1>4, <1>5
         DEF ValidationInv, ValidationPhases, EndedPhases, WorkPhases, SegmentPhases

\* A rejection gives the storage up.
LEMMA InvalidPreserves ==
    ASSUME ValidationInv, NEW error \in {"INVALID_PARAMETER", "GEOMETRY", "SAMPLE"},
           validationPhase \in WorkPhases, Invalid(error)
    PROVE  ValidationInv'
<1>1. /\ validationPhase' = "INVALID" /\ validationError' = error
      /\ storage' = [storage EXCEPT !.writing = FALSE, !.committed = FALSE,
                                    !.samples = << >>]
      /\ UNCHANGED <<submitted, segmentIndex, nextSample, sampleIndex>>
  BY DEF Invalid, AbortStorage
<1>2. StorageTypes'
  <2>1. StorageTypes
    BY DEF ValidationInv
  <2>2. storage' = [writing |-> FALSE, committed |-> FALSE, samples |-> << >>,
                    metadata |-> storage.metadata]
    BY <1>1, <2>1 DEF StorageTypes
  <2>3. /\ storage'.writing = FALSE /\ storage'.committed = FALSE
        /\ storage'.samples = << >> /\ storage'.metadata = storage.metadata
    BY <2>2
  <2>4. << >> \in Seq(Samples)
    OBVIOUS
  <2>5. /\ sampleIndex' \in Nat /\ segmentIndex' \in Nat /\ nextSample' \in Nat
    BY <1>1, <2>1 DEF StorageTypes
  <2> QED  BY <2>2, <2>3, <2>4, <2>5 DEF StorageTypes
<1>3. WellFormed(submitted)'
  BY <1>1, KeptWellFormed DEF ValidationInv, WorkPhases
<1> QED  BY <1>1, <1>2, <1>3
         DEF ValidationInv, ValidationPhases, EndedPhases, WorkPhases, SegmentPhases

\* The next phase, with nothing else changed.
LEMMA ProceedPreserves ==
    ASSUME ValidationInv, NEW phase \in SegmentPhases,
           validationPhase \in SegmentPhases, Proceed(phase)
    PROVE  ValidationInv'
<1>1. /\ validationPhase' = phase
      /\ UNCHANGED <<submitted, validationError, segmentIndex, nextSample,
                     sampleIndex, storage>>
  BY DEF Proceed
<1>2. StorageTypes'
  BY <1>1, KeptStorageTypes DEF ValidationInv, StorageTypes
<1>3. WellFormed(submitted)'
  BY <1>1, KeptWellFormed DEF ValidationInv, WorkPhases, SegmentPhases
<1> QED  BY <1>1, <1>2, <1>3
         DEF ValidationInv, ValidationPhases, WorkPhases, SegmentPhases

\* The checks of the snapshot and of its structure are passed.
LEMMA ChecksPreserve ==
    ASSUME ValidationInv, SnapshotCheck \/ StructuralCheck
    PROVE  ValidationInv'
<1>1. CASE SnapshotCheck
  <2>1. validationPhase = "SNAPSHOT_CHECK" /\ WellFormed(submitted)
    BY <1>1 DEF SnapshotCheck, ValidationInv
  <2>2. Proceed("STRUCTURAL_CHECK")
    BY <1>1, <2>1 DEF SnapshotCheck, WellFormed
  <2> QED  BY <2>1, <2>2, ProceedPreserves DEF SegmentPhases, WorkPhases
<1>2. CASE StructuralCheck
  <2>1. validationPhase = "STRUCTURAL_CHECK" /\ WellFormed(submitted)
    BY <1>2 DEF StructuralCheck, ValidationInv
  <2>2. \A i \in 1 .. Len(submitted.segments) : CompleteSegment(submitted.segments[i])
    BY <2>1 DEF WellFormed, Drafts, TaughtSegments, CompleteSegment
  <2>3. Proceed("PREPARE_SEGMENT")
    BY <1>2, <2>1, <2>2 DEF StructuralCheck, WellFormed
  <2> QED  BY <2>1, <2>3, ProceedPreserves DEF SegmentPhases, WorkPhases
<1> QED  BY <1>1, <1>2

\* A segment with a stream, or one that is rejected.
LEMMA PrepareSegmentPreserves ==
    ASSUME ValidationInv, PrepareSegment
    PROVE  ValidationInv'
<1>1. validationPhase = "PREPARE_SEGMENT" /\ validationPhase \in WorkPhases
  BY DEF PrepareSegment, WorkPhases
<1>2. CASE Invalid("INVALID_PARAMETER") \/ Invalid("GEOMETRY")
  BY <1>1, <1>2, InvalidPreserves
<1>3. CASE /\ nextSample' = FirstSample
           /\ validationPhase' = "GENERATE_AND_VALIDATE_SAMPLE"
           /\ UNCHANGED <<submitted, validationError, segmentIndex, sampleIndex,
                          samplesUsed, storage>>
  <2>1. StorageTypes'
    BY <1>3, KeptStorageTypes DEF ValidationInv, FirstSample
  <2>2. WellFormed(submitted)'
    BY <1>1, <1>3, KeptWellFormed DEF ValidationInv
  <2> QED  BY <1>1, <1>3, <2>1, <2>2
           DEF ValidationInv, ValidationPhases, WorkPhases, SegmentPhases
<1> QED  BY <1>2, <1>3 DEF PrepareSegment

\* The place of a sample is a position or a point inside a segment.
LEMMA PlaceInSamples ==
    ASSUME WellFormed(submitted), segmentIndex \in 1 .. Len(submitted.segments),
           nextSample \in Nat
    PROVE  PlaceOf(nextSample) \in Samples
<1>1. Segment \in TaughtSegments
  BY DEF WellFormed, Drafts, Segment
<1>2. /\ Segment.points \in Seq(Points)
      /\ Len(Segment.points) = RequiredPoints[Segment.type]
      /\ Segment.type \in SegmentTypes
  BY <1>1 DEF TaughtSegments
<1>3. Segment.points[1] \in Points /\ EndPoint(Segment) \in Points
  <2>1. CASE Segment.type = "LINE"
    BY <1>2, <2>1 DEF RequiredPoints, EndPoint
  <2>2. CASE Segment.type = "ARC"
    BY <1>2, <2>2 DEF RequiredPoints, EndPoint
  <2>3. CASE Segment.type = "CIRCLE"
    BY <1>2, <2>3 DEF RequiredPoints, EndPoint
  <2> QED  BY <1>2, <2>1, <2>2, <2>3 DEF SegmentTypes
<1>4. Segment.points[1].place \in Positions /\ EndPoint(Segment).place \in Positions
  BY <1>3 DEF Points
<1>5. segmentIndex \in Nat
  OBVIOUS
<1> QED  BY <1>4, <1>5 DEF PlaceOf, Samples

\* A sample that passed is written behind the samples there are.
LEMMA StoreSamplePreserves ==
    ASSUME ValidationInv, StoreSample
    PROVE  ValidationInv'
<1>1. /\ validationPhase = "GENERATE_AND_VALIDATE_SAMPLE"
      /\ Write(PlaceOf(nextSample))
      /\ sampleIndex' = sampleIndex + 1 /\ nextSample' = nextSample + 1
      /\ validationPhase' = PhaseAfterSample
      /\ segmentIndex' = IF nextSample + 1 < streamLength THEN segmentIndex
                         ELSE segmentIndex + 1
      /\ submitted' = submitted /\ validationError' = validationError
  BY DEF StoreSample
<1>2. /\ StorageTypes /\ WellFormed(submitted)
      /\ storage.writing /\ sampleIndex = Len(storage.samples)
      /\ segmentIndex \in 1 .. Len(submitted.segments)
  BY <1>1 DEF ValidationInv, WorkPhases, SegmentPhases
<1>3. PlaceOf(nextSample) \in Samples
  BY <1>2, PlaceInSamples DEF StorageTypes
<1> DEFINE sample == PlaceOf(nextSample)
<1>4. storage' = [storage EXCEPT !.samples = Append(storage.samples, sample)]
  <2>1. ~(sampleIndex < Len(storage.samples))
    BY <1>2 DEF StorageTypes
  <2> QED  BY <1>1, <2>1 DEF Write
<1> HIDE DEF sample
<1>5. storage' = [writing |-> storage.writing, committed |-> storage.committed,
                  samples |-> Append(storage.samples, sample),
                  metadata |-> storage.metadata]
  BY <1>2, <1>4 DEF StorageTypes
<1>6. /\ storage'.writing = storage.writing /\ storage'.committed = storage.committed
      /\ storage'.samples = Append(storage.samples, sample)
      /\ storage'.metadata = storage.metadata
  BY <1>5
<1>7. /\ Append(storage.samples, sample) \in Seq(Samples)
      /\ Len(Append(storage.samples, sample)) = Len(storage.samples) + 1
  BY <1>2, <1>3 DEF sample, StorageTypes
<1>8. StorageTypes'
  <2>1. sampleIndex' \in Nat /\ segmentIndex' \in Nat /\ nextSample' \in Nat
    BY <1>1, <1>2 DEF StorageTypes
  <2> QED  BY <1>5, <1>6, <1>7, <2>1 DEF StorageTypes
<1>9. storage'.writing /\ sampleIndex' = Len(storage'.samples)
  BY <1>1, <1>2, <1>6, <1>7
<1>10. WellFormed(submitted)'
  BY <1>1, <1>2, KeptWellFormed
<1>11. /\ validationPhase' \in {"GENERATE_AND_VALIDATE_SAMPLE", "PREPARE_SEGMENT",
                               "FINALIZE"}
       /\ validationPhase' \in SegmentPhases =>
              segmentIndex' \in 1 .. Len(submitted'.segments)
  <2>1. Len(submitted.segments) \in Nat
    BY <1>2 DEF WellFormed, Drafts
  <2> QED  BY <1>1, <1>2, <2>1 DEF PhaseAfterSample, SegmentPhases, WorkPhases
<1> QED  BY <1>1, <1>8, <1>9, <1>10, <1>11
         DEF ValidationInv, ValidationPhases, WorkPhases, SegmentPhases

\* Nothing is missing in the storage at the end, and what is committed carries
\* the identity of the program.
LEMMA FinalizePreserves ==
    ASSUME ValidationInv, Finalize
    PROVE  ValidationInv'
<1>1. /\ validationPhase = "FINALIZE" /\ StorageTypes /\ WellFormed(submitted)
      /\ storage.writing /\ sampleIndex = Len(storage.samples)
  BY DEF Finalize, ValidationInv, WorkPhases
<1>2. ~(~storage.writing \/ sampleIndex > Len(storage.samples))
  BY <1>1 DEF StorageTypes
<1>3. /\ validationPhase' = "VALID" /\ Commit
      /\ UNCHANGED <<submitted, validationError, segmentIndex, nextSample, sampleIndex>>
  BY <1>2 DEF Finalize
<1>4. storage' = [writing |-> FALSE, committed |-> TRUE, samples |-> storage.samples,
                  metadata |-> Metadata]
  BY <1>1, <1>3 DEF Commit, StorageTypes
<1>5. /\ storage'.writing = FALSE /\ storage'.committed = TRUE
      /\ storage'.samples = storage.samples /\ storage'.metadata = Metadata
  BY <1>4
<1>6. StorageTypes'
  <2>1. /\ storage.samples \in Seq(Samples)
        /\ sampleIndex' \in Nat /\ segmentIndex' \in Nat /\ nextSample' \in Nat
    BY <1>1, <1>3 DEF StorageTypes
  <2> QED  BY <1>4, <1>5, <2>1 DEF StorageTypes
<1>7. WellFormed(submitted)'
  BY <1>1, <1>3, KeptWellFormed
<1>8. Committed'
  <2>1. /\ Metadata.samples = Len(storage.samples)
        /\ Metadata.checksum = Contents(submitted)
        /\ Metadata.id = submitted.id /\ Metadata.revision = submitted.revision
    BY <1>1 DEF Metadata, WellFormed
  <2>2. Contents(submitted)' = Contents(submitted)
    BY <1>3 DEF Contents
  <2> QED  BY <1>3, <1>5, <2>1, <2>2 DEF Committed
<1> QED  BY <1>3, <1>6, <1>7, <1>8
         DEF ValidationInv, ValidationPhases, EndedPhases, WorkPhases, SegmentPhases

\* Every turn of the loop of a step.
LEMMA TurnPreserves ==
    ASSUME ValidationInv, ValidationTurn
    PROVE  ValidationInv'
<1>1. CASE RejectSample
  BY <1>1, InvalidPreserves DEF RejectSample, WorkPhases
<1> QED  BY <1>1, ChecksPreserve, PrepareSegmentPreserves, StoreSamplePreserves,
            FinalizePreserves DEF ValidationTurn

\* A step that leaves the program, the result and the storage alone, and keeps
\* the phase: the indices may be dropped once there is a result.
LEMMA KeptPreserves ==
    ASSUME ValidationInv,
           UNCHANGED <<submitted, validationPhase, validationError, storage>>,
           \/ UNCHANGED <<sampleIndex, segmentIndex, nextSample>>
           \/ /\ validationPhase \in EndedPhases
              /\ sampleIndex' = 0 /\ segmentIndex' = 1 /\ nextSample' = 0
    PROVE  ValidationInv'
<1>1. StorageTypes'
  BY DEF ValidationInv, StorageTypes
<1>2. validationPhase # "IDLE" => WellFormed(submitted)'
  BY KeptWellFormed DEF ValidationInv
<1>3. Committed => Committed'
  <2>1. Contents(submitted)' = Contents(submitted)
    BY DEF Contents
  <2> QED  BY <2>1 DEF Committed
<1> QED  BY <1>1, <1>2, <1>3
         DEF ValidationInv, EndedPhases, WorkPhases, SegmentPhases

\* A step of the supervisor leaves the validation alone, enters it, takes a turn
\* of its loop, or begins or ends a step of it.
LEMMA ValidationStep ==
    ASSUME [Next]_vars
    PROVE  \/ UNCHANGED <<validationVars, storage>>
           \/ Submit
           \/ ContinueValidationStep
           \/ EndValidationStep
<1>1. CASE UNCHANGED vars
  BY <1>1 DEF vars
<1>2. CASE BeginProgram \/ Command \/ Edit \/ BeginValidationStep
  BY <1>2 DEF BeginProgram, Command, Edit, BeginValidationStep
<1>3. CASE ResetProgram \/ BeginMotion \/ EndMotion \/ StopInput \/ Recover
  BY <1>3 DEF ResetProgram, BeginMotion, EndMotion, StopInput, Recover
<1> QED  BY <1>1, <1>2, <1>3 DEF Next, Lost

\* The validation under any step of the supervisor.
LEMMA ValidationInvNext ==
    ASSUME ProgramInv, ValidationInv, [Next]_vars
    PROVE  ValidationInv'
<1>1. CASE UNCHANGED <<validationVars, storage>>
  BY <1>1, KeptPreserves DEF validationVars
<1>2. CASE Submit
  BY <1>2, SubmissionWellFormed, EnterValidationInv DEF Submit, ProgramInv
<1>3. CASE ContinueValidationStep
  BY <1>3, TurnPreserves DEF ContinueValidationStep
<1>4. CASE EndValidationStep
  BY <1>4, KeptPreserves DEF EndValidationStep, DropIndices, NextStep
<1> QED  BY <1>1, <1>2, <1>3, <1>4, ValidationStep

\* A trajectory is released by the end of a validation step only, and a stop, a
\* reset or a new program never finds a step running.
LEMMA ReleaseInvNext ==
    ASSUME ReleaseInv, [Next]_vars
    PROVE  ReleaseInv'
<1> USE DEF ReleaseInv
<1>1. CASE UNCHANGED vars \/ Lost
  BY <1>1 DEF Lost, vars, validationVars, supervisorVars
<1>2. CASE BeginProgram \/ Command \/ Edit
  BY <1>2 DEF BeginProgram, Command, Edit, validationVars
<1>3. CASE Submit
  BY <1>3 DEF Submit
<1>4. CASE BeginValidationStep
  BY <1>4 DEF BeginValidationStep, validationVars
<1>5. CASE ContinueValidationStep
  BY <1>5 DEF ContinueValidationStep, supervisorVars
<1>6. CASE EndValidationStep
  <2>1. CASE validationPhase \in EndedPhases
    BY <1>6, <2>1 DEF EndValidationStep, DropIndices
  <2>2. CASE validationPhase \notin EndedPhases
    BY <1>6, <2>2 DEF EndValidationStep, NextStep
  <2> QED  BY <2>1, <2>2
<1>7. CASE ResetProgram \/ BeginMotion \/ EndMotion \/ StopInput \/ Recover
  BY <1>7 DEF ResetProgram, BeginMotion, EndMotion, StopInput, Recover,
     validationVars
<1> QED  BY <1>1, <1>2, <1>3, <1>4, <1>5, <1>6, <1>7 DEF Next

\* Draft, validation and release together, in every reachable state.
THEOREM AuthoringInvariant == Spec => []AuthoringInv
<1>1. AuthoringInit => AuthoringInv
  BY ProgramInvInit, ValidationInvInit DEF AuthoringInv
<1>2. AuthoringInv /\ [Next]_vars => AuthoringInv'
  BY ProgramInvNext, ValidationInvNext, ReleaseInvNext DEF AuthoringInv
<1> QED  BY <1>1, <1>2, PTL DEF Spec

\* What TEACHING submits is never rejected for its checksum, an empty program, an
\* incomplete segment, a second setup, or a gap in the storage
\* (state_teaching_step(), state_path_validation_step()).
THEOREM SubmissionsAreWellFormed == Spec => []SubmissionIsWellFormed
<1>1. AuthoringInv => SubmissionIsWellFormed
  BY DEF AuthoringInv, ValidationInv, SubmissionIsWellFormed
<1> QED  BY <1>1, AuthoringInvariant, PTL

\* The trajectory that may be followed is committed, complete and carries number,
\* revision and contents of the submitted program (ram_storage_commit(), enter_active_state()).
THEOREM ReleasedTrajectoryIsOfSubmission == Spec => []TrajectoryIsOfSubmission
<1>1. AuthoringInv => TrajectoryIsOfSubmission
  BY DEF AuthoringInv, ValidationInv, ReleaseInv, Committed, TrajectoryIsOfSubmission
<1> QED  BY <1>1, AuthoringInvariant, PTL

-----------------------------------------------------------------------------
(* The types.                                                              *)

\* An event changes the revision of the draft by one, or not at all: the events
\* that are not bounded do not, and neither does a point for a full draft.
LEMMA RevisionStep ==
    ASSUME DraftInv, NEW event \in TeachingEvents, EditStep(event)
    PROVE  /\ draft'.revision \in {draft.revision, draft.revision + 1}
           /\ event \in SegmentTypes \cup {"VALIDATE_PATH"} =>
                  draft'.revision = draft.revision
           /\ event = "RECORD_POINT" /\ Len(draft.segments) = MaxSegments =>
                  draft'.revision = draft.revision
<1>1. draft \in Drafts
  BY DEF DraftInv, TeachingTypes
<1>2. ASSUME NEW segments, NEW status, draft' = Edited(segments, status)
      PROVE  draft'.revision = draft.revision + 1
  BY <1>1, <1>2 DEF Edited, Drafts
<1>3. CASE event \in SegmentTypes /\ SelectSegment(event)
  BY <1>1, <1>3 DEF SelectSegment, Drafts, SegmentTypes
<1>4. CASE event = "RECORD_POINT" /\ RecordStep
  <2>1. ASSUME NEW point \in PointsNow, RecordPoint(point), draft' # draft
        PROVE  /\ Len(draft.segments) # MaxSegments
               /\ \E segments, status : draft' = Edited(segments, status)
    BY <2>1 DEF RecordPoint, WritePastSegment, CapturePoint, KeepPoint,
       DropThirdPoint, StoreSegment
  <2> QED  BY <1>2, <1>4, <2>1 DEF RecordStep, teachingVars, SegmentTypes
<1>5. CASE event \in SpeedEvents /\ ChangeSpeed(SpeedAfter(event))
  <2>1. draft'.revision = draft.revision + 1
    BY <1>2, <1>5 DEF ChangeSpeed
  <2> QED  BY <1>5, <2>1 DEF SpeedEvents, SegmentTypes
<1>6. CASE event = "RESET" /\ ResetDraft
  BY <1>6 DEF ResetDraft, EmptyDraft, SegmentTypes
<1>7. CASE UNCHANGED teachingVars
  BY <1>7 DEF teachingVars
<1> QED  BY <1>3, <1>4, <1>5, <1>6, <1>7 DEF EditStep

\* What TEACHING does while it is active is counted by the bound on the edits, and
\* its speed is never zero.
EditInv ==
    /\ location \in Locations
    /\ selected \in SegmentTypes \cup {"NONE"}
    /\ edits \in 0 .. MaxEdits
    /\ draft.revision <= edits
    /\ draft.segments # << >> => speed \in 1 .. MaxSpeed
    /\ location = "TEACHING" =>
           /\ speed \in 1 .. MaxSpeed
           /\ \/ edits < MaxEdits
              \/ pending \in SegmentTypes \cup {"VALIDATE_PATH", "NONE"}
              \/ pending = "RECORD_POINT" /\ Len(draft.segments) = MaxSegments

\* A step of EDIT keeps it.
LEMMA EditKeepsEditInv ==
    ASSUME ProgramInv, EditInv, Edit
    PROVE  EditInv'
<1>1. /\ location = "TEACHING" /\ EditStep(pending) /\ pending' = "NONE"
      /\ location' = location /\ edits' = edits + (draft'.revision - draft.revision)
      /\ speed \in 1 .. MaxSpeed
  BY DEF Edit, EditInv
<1>2. pending \in TeachingEvents /\ DraftInv
  BY <1>1 DEF EditStep, ProgramInv, TeachingEvents
<1>3. PICK r \in Nat : draft.revision = r
  BY <1>2 DEF DraftInv, TeachingTypes, Drafts
<1>4. PICK e \in 0 .. MaxEdits : edits = e /\ r <= e
  BY <1>3 DEF EditInv
<1>5. MaxEdits \in Nat
  BY AuthoringAssumption DEF AuthoringAssumption
<1>6. /\ draft'.revision \in {r, r + 1}
      /\ e < MaxEdits \/ draft'.revision = r
  <2>1. EditStep(pending) /\ pending # "NONE"
    BY <1>1, <1>2 DEF TeachingEvents, SegmentTypes, SpeedEvents
  <2>2. /\ draft'.revision \in {r, r + 1}
        /\ pending \in SegmentTypes \cup {"VALIDATE_PATH"} => draft'.revision = r
        /\ pending = "RECORD_POINT" /\ Len(draft.segments) = MaxSegments =>
               draft'.revision = r
    BY <1>2, <1>3, <2>1, RevisionStep
  <2> QED  BY <1>1, <1>4, <2>1, <2>2 DEF EditInv
<1>7. edits' \in 0 .. MaxEdits /\ draft'.revision <= edits'
  BY <1>1, <1>3, <1>4, <1>5, <1>6
<1>8. speed' \in 1 .. MaxSpeed
  <2>1. CASE UNCHANGED speed
    BY <1>1, <2>1
  <2>2. CASE pending \in SpeedEvents /\ ChangeSpeed(SpeedAfter(pending))
    <3>1. SpeedAfter(pending) \in 1 .. MaxSpeed
      <4>1. MaxSpeed \in Nat /\ DefaultSpeed \in 1 .. MaxSpeed
        BY TeachingAssumption DEF TeachingAssumption
      <4> QED  BY <1>1, <2>2, <4>1 DEF SpeedAfter, SpeedEvents
    <3> QED  BY <2>2, <3>1 DEF ChangeSpeed
  <2> QED  BY <1>1, <2>1, <2>2
           DEF EditStep, SelectSegment, RecordStep, RecordPoint, WritePastSegment,
               CapturePoint, KeepPoint, DropThirdPoint, StoreSegment, ResetDraft,
               teachingVars
<1>9. selected' \in SegmentTypes \cup {"NONE"}
  BY <1>1
  DEF EditStep, SelectSegment, RecordStep, RecordPoint, WritePastSegment, CapturePoint,
      KeepPoint, DropThirdPoint, StoreSegment, ChangeSpeed, ResetDraft, teachingVars,
      EditInv
<1> QED  BY <1>1, <1>7, <1>8, <1>9 DEF EditInv

\* And so does every other step.
LEMMA EditInvNext ==
    ASSUME ProgramInv, EditInv, [Next]_vars
    PROVE  EditInv'
<1>1. CASE BeginProgram
  <2>1. DefaultSpeed \in 1 .. MaxSpeed
    BY TeachingAssumption DEF TeachingAssumption
  <2>2. /\ draft' = EmptyDraft(nextProgram, 0) /\ speed' = DefaultSpeed
        /\ selected' = "NONE" /\ location' = "TEACHING" /\ edits' = edits
        /\ pending' \in SegmentTypes
    BY <1>1 DEF BeginProgram, EnterTeaching
  <2>3. draft'.revision = 0
    BY <2>2 DEF EmptyDraft
  <2>4. 0 <= edits
    BY AuthoringAssumption DEF AuthoringAssumption, EditInv
  <2> QED  BY <2>1, <2>2, <2>3, <2>4 DEF EditInv, Locations
<1>2. CASE Edit
  BY <1>2, EditKeepsEditInv
<1>3. CASE Submit
  <2>1. /\ draft'.revision = draft.revision /\ draft'.segments = draft.segments
        /\ UNCHANGED <<selected, speed, edits>> /\ location' = "PATH_VALIDATION"
    BY <1>3 DEF Submit, SubmitDraft, ProgramInv, DraftInv, TeachingTypes, Drafts
  <2> QED  BY <2>1 DEF EditInv, Locations
<1>4. CASE Command
  BY <1>4 DEF Command, teachingVars, EditInv
<1>5. CASE BeginValidationStep \/ ContinueValidationStep \/ EndValidationStep
  <2>1. /\ UNCHANGED <<teachingVars, edits, pending>>
        /\ location' = location \/ location' = "IDLE"
    BY <1>5 DEF BeginValidationStep, ContinueValidationStep, EndValidationStep,
                supervisorVars
  <2> QED  BY <2>1 DEF teachingVars, EditInv, Locations
<1>6. CASE ResetProgram \/ BeginMotion \/ EndMotion \/ StopInput \/ Recover
  <2>1. /\ UNCHANGED <<teachingVars, edits, pending>>
        /\ location' \in {"IDLE", "MOTION", "STOPPED"}
    BY <1>6 DEF ResetProgram, BeginMotion, EndMotion, StopInput, Recover
  <2> QED  BY <2>1 DEF teachingVars, EditInv, Locations
<1>7. CASE UNCHANGED vars
  BY <1>7 DEF vars, teachingVars, supervisorVars, EditInv
<1> QED  BY <1>1, <1>2, <1>3, <1>4, <1>5, <1>6, <1>7 DEF Next, Lost

\* The indices of the validation stay within the program, the stream, the storage
\* and the budget.
IndexInv ==
    /\ submitted.segments \in Seq(TaughtSegments)
    /\ Len(submitted.segments) <= MaxSegments
    /\ segmentIndex \in 1 .. MaxSegments + 1
    /\ streamLength \in 0 .. MaxStream
    /\ nextSample \in 0 .. MaxStream
    /\ validationPhase = "GENERATE_AND_VALIDATE_SAMPLE" => nextSample < streamLength
    /\ sampleIndex \in 0 .. StorageCapacity
    /\ samplesUsed \in 0 .. SampleBudget

\* A turn of the loop keeps the indices.
LEMMA TurnKeepsIndices ==
    ASSUME ValidationInv, IndexInv, ValidationTurn
    PROVE  IndexInv'
<1>1. /\ MaxSegments \in Nat \ {0} /\ MaxStream \in Nat \ {0, 1}
      /\ StorageCapacity \in Nat \ {0} /\ SampleBudget \in Nat \ {0}
  BY TeachingAssumption, ValidationAssumption
  DEF TeachingAssumption, ValidationAssumption
<1>2. submitted' = submitted
  BY DEF ValidationTurn, SnapshotCheck, StructuralCheck, PrepareSegment, RejectSample,
         StoreSample, Finalize, Invalid, Proceed
<1>3. CASE StoreSample
  <2>1. /\ validationPhase = "GENERATE_AND_VALIDATE_SAMPLE"
        /\ segmentIndex \in 1 .. Len(submitted.segments)
        /\ Len(submitted.segments) \in 0 .. MaxSegments
    BY <1>1, <1>3 DEF StoreSample, ValidationInv, SegmentPhases, WorkPhases, IndexInv
  <2>2. /\ nextSample < streamLength /\ nextSample \in 0 .. MaxStream
        /\ streamLength \in 0 .. MaxStream /\ sampleIndex \in 0 .. StorageCapacity
        /\ samplesUsed \in 0 .. SampleBudget
    BY <2>1 DEF IndexInv
  <2>3. /\ sampleIndex < StorageCapacity /\ samplesUsed < SampleBudget
        /\ sampleIndex' = sampleIndex + 1 /\ nextSample' = nextSample + 1
        /\ samplesUsed' = samplesUsed + 1 /\ validationPhase' = PhaseAfterSample
        /\ segmentIndex' = IF nextSample + 1 < streamLength THEN segmentIndex
                           ELSE segmentIndex + 1
        /\ streamLength' = streamLength
    BY <1>3 DEF StoreSample, ValidationTurn
  <2>4. segmentIndex' \in 1 .. MaxSegments + 1
    BY <1>1, <2>1, <2>3
  <2>5. /\ nextSample' \in 0 .. MaxStream /\ streamLength' \in 0 .. MaxStream
        /\ sampleIndex' \in 0 .. StorageCapacity /\ samplesUsed' \in 0 .. SampleBudget
    BY <1>1, <2>2, <2>3
  <2>6. validationPhase' = "GENERATE_AND_VALIDATE_SAMPLE" => nextSample' < streamLength'
    BY <2>3 DEF PhaseAfterSample
  <2> QED  BY <1>2, <2>4, <2>5, <2>6 DEF IndexInv
<1>4. CASE /\ streamLength' \in 2 .. MaxStream /\ nextSample' = FirstSample
           /\ UNCHANGED <<segmentIndex, sampleIndex, samplesUsed>>
  <2>1. nextSample' \in 0 .. MaxStream /\ nextSample' < streamLength'
    BY <1>1, <1>4 DEF FirstSample
  <2> QED  BY <1>1, <1>2, <1>4, <2>1 DEF IndexInv
<1>5. CASE /\ validationPhase' # "GENERATE_AND_VALIDATE_SAMPLE"
           /\ UNCHANGED <<segmentIndex, streamLength, nextSample, sampleIndex,
                          samplesUsed>>
  BY <1>2, <1>5 DEF IndexInv
<1> QED  BY <1>3, <1>4, <1>5
         DEF ValidationTurn, SnapshotCheck, StructuralCheck, PrepareSegment,
             RejectSample, Finalize, Invalid, Proceed

\* Any step of the supervisor keeps them.
LEMMA IndexInvNext ==
    ASSUME ProgramInv, ValidationInv, IndexInv, [Next]_vars
    PROVE  IndexInv'
<1>1. /\ MaxSegments \in Nat \ {0} /\ MaxStream \in Nat \ {0, 1}
      /\ StorageCapacity \in Nat \ {0} /\ SampleBudget \in Nat \ {0}
  BY TeachingAssumption, ValidationAssumption
  DEF TeachingAssumption, ValidationAssumption
<1>2. CASE UNCHANGED <<validationVars, storage>>
  BY <1>2 DEF validationVars, IndexInv
<1>3. CASE Submit
  <2>1. /\ submitted' = draft' /\ validationPhase' = "SNAPSHOT_CHECK"
        /\ segmentIndex' = 1 /\ streamLength' = 0 /\ nextSample' = 0
        /\ sampleIndex' = 0 /\ samplesUsed' = 0
    BY <1>3 DEF Submit, EnterValidation
  <2>2. draft'.segments \in Seq(TaughtSegments) /\ Len(draft'.segments) <= MaxSegments
    BY <1>3, SubmitDraftPreserves DEF Submit, ProgramInv, DraftInv, TeachingTypes, Drafts
  <2> QED  BY <1>1, <2>1, <2>2 DEF IndexInv
<1>4. CASE ContinueValidationStep
  BY <1>4, TurnKeepsIndices DEF ContinueValidationStep
<1>5. CASE EndValidationStep
  <2>1. CASE NextStep
    BY <1>1, <2>1 DEF NextStep, IndexInv
  <2>2. CASE DropIndices /\ validationPhase \in EndedPhases
    BY <1>1, <2>2 DEF DropIndices, IndexInv, EndedPhases
  <2> QED  BY <1>5, <2>1, <2>2 DEF EndValidationStep
<1> QED  BY <1>2, <1>3, <1>4, <1>5, ValidationStep

\* The edits stay within their bound and the indices within theirs.
LEMMA CountersInvariant == Spec => [](EditInv /\ IndexInv)
<1>1. AuthoringInit => EditInv /\ IndexInv
  <2> SUFFICES ASSUME AuthoringInit PROVE EditInv /\ IndexInv
    OBVIOUS
  <2>1. /\ draft = EmptyDraft(0, 0) /\ submitted = EmptyDraft(0, 0)
        /\ draft.revision = 0 /\ draft.segments = << >> /\ submitted.segments = << >>
    BY DEF AuthoringInit, Init, ValidationInit, EmptyDraft
  <2>2. EditInv
    BY <2>1, AuthoringAssumption
    DEF AuthoringInit, Init, EditInv, Locations, AuthoringAssumption
  <2>3. submitted.segments \in Seq(TaughtSegments) /\ Len(submitted.segments) = 0
    <3>1. << >> \in Seq(TaughtSegments) /\ Len(<< >>) = 0
      OBVIOUS
    <3> QED  BY <2>1, <3>1 DEF EmptyDraft
  <2>4. /\ segmentIndex = 1 /\ streamLength = 0 /\ nextSample = 0
        /\ sampleIndex = 0 /\ samplesUsed = 0 /\ validationPhase = "IDLE"
    BY DEF AuthoringInit, ValidationInit
  <2>5. /\ MaxSegments \in Nat \ {0} /\ MaxStream \in Nat \ {0, 1}
        /\ StorageCapacity \in Nat \ {0} /\ SampleBudget \in Nat \ {0}
    BY TeachingAssumption, ValidationAssumption
    DEF TeachingAssumption, ValidationAssumption
  <2>6. IndexInv
    <3>1. /\ segmentIndex \in 1 .. MaxSegments + 1
          /\ Len(submitted.segments) <= MaxSegments
          /\ streamLength \in 0 .. MaxStream /\ nextSample \in 0 .. MaxStream
          /\ sampleIndex \in 0 .. StorageCapacity /\ samplesUsed \in 0 .. SampleBudget
      BY <2>3, <2>4, <2>5
    <3> QED  BY <2>3, <2>4, <3>1 DEF IndexInv
  <2> QED  BY <2>2, <2>6
<1>2. AuthoringInv /\ EditInv /\ IndexInv /\ [Next]_vars => EditInv' /\ IndexInv'
  BY EditInvNext, IndexInvNext DEF AuthoringInv
<1> QED  BY <1>1, <1>2, AuthoringInvariant, PTL DEF Spec

\* The draft is sound: its types and indices, its chain of segments, their extent
\* and their one speed, for any number of segments, edits, samples and programs
\* (state_teaching_step(), state_path_validation_step()).
THEOREM DraftsAreSound == Spec => []DraftIsSound
<1>1. AuthoringInv /\ EditInv /\ IndexInv => DraftIsSound
  <2> SUFFICES ASSUME AuthoringInv, EditInv, IndexInv PROVE DraftIsSound
    OBVIOUS
  <2>1. DraftInv /\ validationPhase \in ValidationPhases
    BY DEF AuthoringInv, ProgramInv, ValidationInv
  <2>2. /\ draft \in Drafts /\ draft.segments \in Seq(TaughtSegments)
        /\ Len(draft.segments) \in Nat /\ draft.revision \in Nat
    BY <2>1 DEF DraftInv, TeachingTypes, Drafts
  <2>3. \A i \in 1 .. Len(draft.segments) : SegmentTypeOK(draft.segments[i])
    <3> TAKE i \in 1 .. Len(draft.segments)
    <3>1. draft.segments[i] \in TaughtSegments /\ draft.segments # << >>
      BY <2>2
    <3>2. draft.segments[i].speed = speed /\ speed \in 1 .. MaxSpeed
      BY <2>1, <3>1 DEF DraftInv, OneSpeed, EditInv
    <3> QED  BY <3>1, <3>2 DEF SegmentTypeOK, TaughtSegments
  <2>4. draft.revision \in 0 .. MaxEdits /\ draft.status \in DraftStatuses
    BY <2>2, AuthoringAssumption DEF Drafts, EditInv, AuthoringAssumption
  <2>5. /\ Len(draft.segments) \in 0 .. MaxSegments
        /\ Len(working) \in 0 .. MaxPointsPerSegment
    <3>1. MaxSegments \in Nat
      BY TeachingAssumption DEF TeachingAssumption
    <3>2. working \in Seq(Points) /\ Len(working) <= MaxPointsPerSegment
      BY <2>1 DEF DraftInv, TeachingTypes
    <3>3. PICK n \in Nat : Len(working) = n
      BY <3>2
    <3>4. Len(draft.segments) <= MaxSegments
      BY <2>1 DEF DraftInv, TeachingTypes
    <3>5. Len(draft.segments) \in 0 .. MaxSegments
      BY <2>2, <3>1, <3>4
    <3>6. n \in 0 .. MaxPointsPerSegment
      BY <3>2, <3>3 DEF MaxPointsPerSegment
    <3> QED  BY <3>3, <3>5, <3>6
  <2>6. AuthoringTypeOK
    BY <2>1, <2>3, <2>4, <2>5
    DEF AuthoringTypeOK, DraftInv, TeachingTypes, EditInv, IndexInv
  <2>7. SegmentsAreChained /\ SegmentsHaveExtent /\ OneSpeedPerDraft
    BY <2>1 DEF DraftInv, OneSpeed, OneSpeedPerDraft
  <2> QED  BY <2>6, <2>7 DEF DraftIsSound
<1> QED  BY <1>1, AuthoringInvariant, CountersInvariant, PTL

-----------------------------------------------------------------------------
(* The samples of the first segments together.                             *)

\* Of a set of numbers one is the smallest: what is to be shown of every number is
\* shown of the first one it fails for.
LEMMA SmallestOf ==
    ASSUME NEW T, T \subseteq Nat, T # {}
    PROVE  \E i \in T : \A j \in T : ~ (j < i)
<1>1. PICK i \in T : \A j \in T : <<j, i>> \notin OpToRel(<, Nat)
  BY WFMin, NatLessThanWellFounded
<1> QED  BY <1>1 DEF OpToRel

SumOf(c) ==
    LET sum[n \in 0 .. MaxSegments] == IF n = 0 THEN 0 ELSE sum[n - 1] + c[n]
    IN sum

\* The recursive definition of a sum has a solution.
LEMMA SumExists ==
    ASSUME NEW c, NEW m \in Nat
    PROVE  \E f : f = [n \in 0 .. m |-> IF n = 0 THEN 0 ELSE f[n - 1] + c[n]]
<1> DEFINE Is(f, k) == f = [n \in 0 .. k |-> IF n = 0 THEN 0 ELSE f[n - 1] + c[n]]
           Without == {k \in Nat : ~ \E f : Is(f, k)}
<1>1. \E f : Is(f, 0)
  <2>1. Is([n \in 0 .. 0 |-> 0], 0)
    OBVIOUS
  <2> QED  BY <2>1
<1>2. ASSUME NEW k \in Nat, \E f : Is(f, k)
      PROVE  \E f : Is(f, k + 1)
  <2>1. PICK f : Is(f, k)
    BY <1>2
  <2> DEFINE g == [n \in 0 .. k + 1 |-> IF n = k + 1 THEN f[k] + c[k + 1] ELSE f[n]]
  <2>2. \A n \in 0 .. k : f[n] = IF n = 0 THEN 0 ELSE f[n - 1] + c[n]
    BY <2>1
  <2>3. \A n \in 0 .. k + 1 : g[n] = IF n = 0 THEN 0 ELSE g[n - 1] + c[n]
    BY <2>2
  <2>4. DOMAIN g = 0 .. k + 1 /\ g = [n \in 0 .. k + 1 |-> g[n]]
    OBVIOUS
  <2> HIDE DEF g
  <2>5. g = [n \in 0 .. k + 1 |-> IF n = 0 THEN 0 ELSE g[n - 1] + c[n]]
    BY <2>3, <2>4
  <2> QED  BY <2>5
<1> HIDE DEF Is
<1>3. ASSUME Without # {} PROVE FALSE
  <2>1. PICK k \in Without : \A j \in Without : ~ (j < k)
    BY <1>3, SmallestOf
  <2>2. k \in Nat /\ k # 0
    BY <1>1, <2>1
  <2>3. k - 1 \in Nat /\ k - 1 < k /\ (k - 1) + 1 = k
    BY <2>2
  <2>4. \E f : Is(f, k - 1)
    BY <2>1, <2>3
  <2>5. \E f : Is(f, k)
    BY <1>2, <2>3, <2>4
  <2> QED  BY <2>1, <2>5
<1> QED  BY <1>3 DEF Is

\* Nothing before the first segment, and then one segment more.
LEMMA SumEquation ==
    ASSUME NEW c
    PROVE  /\ SumOf(c)[0] = 0
           /\ \A n \in 1 .. MaxSegments : SumOf(c)[n] = SumOf(c)[n - 1] + c[n]
<1>1. MaxSegments \in Nat
  BY TeachingAssumption DEF TeachingAssumption
<1> DEFINE Is(f) == f = [n \in 0 .. MaxSegments |-> IF n = 0 THEN 0 ELSE f[n - 1] + c[n]]
<1>2. \E f : Is(f)
  BY <1>1, SumExists
<1>3. SumOf(c) = CHOOSE f : Is(f)
  BY DEF SumOf
<1> HIDE DEF Is
<1>4. Is(SumOf(c))
  BY <1>2, <1>3
<1>5. 0 \in 0 .. MaxSegments /\ \A n \in 1 .. MaxSegments : n \in 0 .. MaxSegments /\ n # 0
  BY <1>1
<1> QED  BY <1>4, <1>5 DEF Is

\* A sum depends on what is counted up to there only.
LEMMA SumOfSamePrefix ==
    ASSUME NEW c, NEW d, NEW m \in 0 .. MaxSegments,
           \A n \in 1 .. m : c[n] = d[n]
    PROVE  \A n \in 0 .. m : SumOf(c)[n] = SumOf(d)[n]
<1> DEFINE Differ == {n \in 0 .. m : SumOf(c)[n] # SumOf(d)[n]}
<1>1. MaxSegments \in Nat
  BY TeachingAssumption DEF TeachingAssumption
<1>2. ASSUME Differ # {} PROVE FALSE
  <2>1. Differ \subseteq Nat
    OBVIOUS
  <2>2. PICK n \in Differ : \A j \in Differ : ~ (j < n)
    BY <1>2, <2>1, SmallestOf
  <2>3. n \in 1 .. m
    BY <2>2, SumEquation
  <2>4. SumOf(c)[n - 1] = SumOf(d)[n - 1]
    BY <2>2, <2>3
  <2>5. /\ SumOf(c)[n] = SumOf(c)[n - 1] + c[n]
        /\ SumOf(d)[n] = SumOf(d)[n - 1] + d[n]
    BY <1>1, <2>3, SumEquation
  <2> QED  BY <2>2, <2>3, <2>4, <2>5
<1> QED  BY <1>2

-----------------------------------------------------------------------------
(* The trajectory is whole.                                                *)

\* The samples pass through the ends of the first n segments, which have as many
\* samples as counted, and start at the first taught point.
PassesEnds(c, n) ==
    /\ \A i \in 1 .. n :
           /\ SumOf(c)[i] \in 1 .. Len(storage.samples)
           /\ storage.samples[SumOf(c)[i]] = EndPoint(submitted.segments[i]).place
    /\ storage.samples # << >> =>
           storage.samples[1] = submitted.segments[1].points[1].place

CheckPhases == {"SNAPSHOT_CHECK", "STRUCTURAL_CHECK", "PREPARE_SEGMENT"}

\* The counts are of the segments that were begun, and account for every sample.
Counted(n) ==
    /\ counts \in Seq(Nat)
    /\ Len(counts) = n
    /\ SumOf(counts)[n] = sampleIndex

PassageInv ==
    /\ validationPhase # "IDLE" => Chained(submitted.segments)
    /\ validationPhase \in CheckPhases =>
           /\ Counted(segmentIndex - 1)
           /\ PassesEnds(counts, segmentIndex - 1)
    /\ validationPhase = "GENERATE_AND_VALIDATE_SAMPLE" =>
           /\ Counted(segmentIndex)
           /\ PassesEnds(counts, segmentIndex - 1)
           /\ segmentIndex = 1 => nextSample = sampleIndex
           /\ streamLength \in 2 .. MaxStream
    /\ validationPhase = "FINALIZE" =>
           /\ counts \in Seq(Nat)
           /\ PassesEnds(counts, Len(submitted.segments))
    /\ validationPhase = "VALID" =>
           PassesEnds(storage.metadata.counts, Len(submitted.segments))

\* A validation begins with nothing counted and nothing stored.
LEMMA EnterPassage ==
    ASSUME NEW program, EnterValidation(program), Chained(program.segments)
    PROVE  PassageInv'
<1>1. /\ submitted' = program /\ validationPhase' = "SNAPSHOT_CHECK"
      /\ segmentIndex' = 1 /\ counts' = << >> /\ sampleIndex' = 0
      /\ storage' = [writing |-> TRUE, committed |-> FALSE, samples |-> << >>,
                     metadata |-> NoMetadata]
  BY DEF EnterValidation, Begin
<1>2. storage'.samples = << >>
  BY <1>1
<1>3. << >> \in Seq(Nat) /\ Len(<< >>) = 0 /\ 1 - 1 = 0
  OBVIOUS
<1>4. Counted(segmentIndex - 1)'
  BY <1>1, <1>3, SumEquation DEF Counted
<1>5. PassesEnds(counts, segmentIndex - 1)'
  BY <1>1, <1>2, <1>3 DEF PassesEnds
<1>6. Chained(submitted.segments)'
  BY <1>1 DEF Chained, EndPoint
<1> QED  BY <1>1, <1>4, <1>5, <1>6 DEF PassageInv

\* The invariants of the validation, for the steps that only go on.
LEMMA KeptPassage ==
    ASSUME PassageInv, ValidationInv,
           UNCHANGED <<submitted, segmentIndex, counts, sampleIndex, storage>>,
           \/ UNCHANGED <<validationPhase, nextSample, streamLength>>
           \/ validationPhase \in CheckPhases /\ validationPhase' \in CheckPhases
    PROVE  PassageInv'
<1>1. Chained(submitted.segments) => Chained(submitted.segments)'
  BY DEF Chained, EndPoint
<1>2. \A n : Counted(n) => Counted(n)'
  BY DEF Counted
<1>3. \A n : PassesEnds(counts, n) => PassesEnds(counts, n)'
  BY DEF PassesEnds, EndPoint
<1>4. \A n : PassesEnds(storage.metadata.counts, n) => PassesEnds(storage.metadata.counts, n)'
  BY DEF PassesEnds, EndPoint
<1> QED  BY <1>1, <1>2, <1>3, <1>4 DEF PassageInv, CheckPhases

\* A rejection leaves no trajectory.
LEMMA InvalidPassage ==
    ASSUME PassageInv, NEW error, validationPhase \in WorkPhases, Invalid(error)
    PROVE  PassageInv'
<1>1. validationPhase' = "INVALID" /\ submitted' = submitted
  BY DEF Invalid
<1>2. Chained(submitted.segments)'
  BY <1>1 DEF PassageInv, WorkPhases, Chained, EndPoint
<1> QED  BY <1>1, <1>2 DEF PassageInv, CheckPhases

\* A segment that is begun has no sample yet.
LEMMA PreparePassage ==
    ASSUME PassageInv, ValidationInv, IndexInv, PrepareSegment
    PROVE  PassageInv'
<1>1. validationPhase = "PREPARE_SEGMENT" /\ validationPhase \in WorkPhases
  BY DEF PrepareSegment, WorkPhases
<1>2. CASE Invalid("INVALID_PARAMETER") \/ Invalid("GEOMETRY")
  BY <1>1, <1>2, InvalidPassage
<1>3. CASE /\ streamLength' \in 2 .. MaxStream
           /\ nextSample' = FirstSample
           /\ counts' = Append(counts, 0)
           /\ validationPhase' = "GENERATE_AND_VALIDATE_SAMPLE"
           /\ UNCHANGED <<submitted, segmentIndex, sampleIndex, storage>>
  <2>1. /\ Chained(submitted.segments) /\ Counted(segmentIndex - 1)
        /\ PassesEnds(counts, segmentIndex - 1)
    BY <1>1 DEF PassageInv, CheckPhases
  <2>2. /\ StorageTypes /\ segmentIndex \in 1 .. Len(submitted.segments)
        /\ Len(submitted.segments) \in Nat /\ Len(submitted.segments) <= MaxSegments
        /\ MaxSegments \in Nat
    BY <1>1, TeachingAssumption
    DEF ValidationInv, SegmentPhases, WorkPhases, IndexInv, TeachingAssumption
  <2>3. PICK n \in 0 .. MaxSegments : segmentIndex = n + 1 /\ segmentIndex - 1 = n
    BY <2>2
  <2>4. counts \in Seq(Nat) /\ Len(counts) = n /\ SumOf(counts)[n] = sampleIndex
    BY <2>1, <2>3 DEF Counted
  <2>5. /\ counts' \in Seq(Nat) /\ Len(counts') = n + 1 /\ counts'[n + 1] = 0
        /\ \A k \in 1 .. n : counts'[k] = counts[k]
    BY <1>3, <2>3, <2>4
  <2>6. SumOf(counts')[n] = sampleIndex
    BY <2>3, <2>4, <2>5, SumOfSamePrefix
  <2>7. SumOf(counts')[n + 1] = sampleIndex
    <3>1. n + 1 \in 1 .. MaxSegments /\ (n + 1) - 1 = n
      BY <2>2, <2>3
    <3>2. SumOf(counts')[n + 1] = SumOf(counts')[n] + counts'[n + 1]
      BY <3>1, SumEquation
    <3>3. sampleIndex \in Nat
      BY <2>2 DEF StorageTypes
    <3> QED  BY <2>5, <2>6, <3>2, <3>3
  <2>8. Counted(segmentIndex)'
    BY <1>3, <2>3, <2>5, <2>7 DEF Counted
  <2>9. PassesEnds(counts, segmentIndex - 1)'
    <3>1. PassesEnds(counts, n)
      BY <2>1, <2>3
    <3>2. storage.samples \in Seq(Samples) /\ storage' = storage /\ submitted' = submitted
      BY <1>3, <2>2 DEF StorageTypes
    <3>3. \A i \in 0 .. n : SumOf(counts')[i] = SumOf(counts)[i]
      BY <2>3, <2>5, SumOfSamePrefix
    <3>4. \A i \in 1 .. n : i \in 0 .. n
      BY <2>3
    <3>5. PassesEnds(counts, n)'
      BY <3>1, <3>2, <3>3, <3>4 DEF PassesEnds, EndPoint
    <3> QED  BY <1>3, <2>3, <3>5
  <2>10. segmentIndex' = 1 => nextSample' = sampleIndex'
    <3>1. segmentIndex = 1 => n = 0
      BY <2>3
    <3> QED  BY <1>3, <2>4, <3>1, SumEquation DEF FirstSample
  <2>11. Chained(submitted.segments)'
    BY <1>3, <2>1 DEF Chained, EndPoint
  <2> QED  BY <1>3, <2>8, <2>9, <2>10, <2>11 DEF PassageInv, CheckPhases
<1> QED  BY <1>2, <1>3 DEF PrepareSegment

\* A sample more is counted and stored; the last one of a segment is its end, and
\* the first one of all the first taught point.
LEMMA StorePassage ==
    ASSUME PassageInv, ValidationInv, IndexInv, StoreSample
    PROVE  PassageInv'
<1>1. /\ validationPhase = "GENERATE_AND_VALIDATE_SAMPLE"
      /\ Write(PlaceOf(nextSample))
      /\ counts' = [counts EXCEPT ![segmentIndex] = counts[segmentIndex] + 1]
      /\ sampleIndex' = sampleIndex + 1 /\ nextSample' = nextSample + 1
      /\ validationPhase' = PhaseAfterSample
      /\ segmentIndex' = IF nextSample + 1 < streamLength THEN segmentIndex
                         ELSE segmentIndex + 1
      /\ submitted' = submitted /\ streamLength' = streamLength
  BY DEF StoreSample
<1>2. /\ StorageTypes /\ WellFormed(submitted) /\ sampleIndex = Len(storage.samples)
      /\ segmentIndex \in 1 .. Len(submitted.segments)
      /\ Len(submitted.segments) \in Nat /\ Len(submitted.segments) <= MaxSegments
      /\ MaxSegments \in Nat /\ nextSample \in Nat
  BY <1>1, TeachingAssumption
  DEF ValidationInv, SegmentPhases, WorkPhases, IndexInv, StorageTypes, TeachingAssumption
<1>3. /\ Chained(submitted.segments) /\ Counted(segmentIndex)
      /\ PassesEnds(counts, segmentIndex - 1)
      /\ segmentIndex = 1 => nextSample = sampleIndex
      /\ streamLength \in 2 .. MaxStream /\ nextSample < streamLength
  BY <1>1 DEF PassageInv, IndexInv
<1> DEFINE sample == PlaceOf(nextSample)
<1>4. PICK n \in 0 .. MaxSegments :
          /\ segmentIndex = n + 1 /\ segmentIndex - 1 = n
          /\ n + 1 \in 1 .. MaxSegments /\ n + 1 \in 1 .. Len(submitted.segments)
  BY <1>2
<1>5. /\ counts \in Seq(Nat) /\ Len(counts) = n + 1
      /\ SumOf(counts)[n + 1] = Len(storage.samples)
  BY <1>2, <1>3, <1>4 DEF Counted
<1>6. sample \in Samples
  BY <1>2, PlaceInSamples
<1>7. storage'.samples = Append(storage.samples, sample)
  <2>1. ~(sampleIndex < Len(storage.samples))
    BY <1>2 DEF StorageTypes
  <2>2. storage' = [storage EXCEPT !.samples = Append(storage.samples, sample)]
    BY <1>1, <2>1 DEF Write
  <2> HIDE DEF sample
  <2> QED  BY <1>2, <2>2 DEF StorageTypes
<1> HIDE DEF sample
<1>8. PICK m \in Nat :
          /\ Len(storage.samples) = m /\ Len(storage'.samples) = m + 1
          /\ storage.samples \in Seq(Samples) /\ storage'.samples \in Seq(Samples)
          /\ \A k \in 1 .. m : storage'.samples[k] = storage.samples[k]
          /\ storage'.samples[m + 1] = sample
  <2>1. PICK old \in Seq(Samples) : old = storage.samples
    BY <1>2 DEF StorageTypes
  <2>2. /\ Append(old, sample) \in Seq(Samples) /\ Len(old) \in Nat
        /\ Len(Append(old, sample)) = Len(old) + 1
        /\ \A k \in 1 .. Len(old) : Append(old, sample)[k] = old[k]
        /\ Append(old, sample)[Len(old) + 1] = sample
    BY <1>6, <2>1
  <2> QED  BY <1>7, <2>1, <2>2
<1>9. /\ counts' \in Seq(Nat) /\ Len(counts') = n + 1
      /\ counts'[n + 1] = counts[n + 1] + 1 /\ counts[n + 1] \in Nat
      /\ \A k \in 1 .. n : counts'[k] = counts[k]
  BY <1>1, <1>4, <1>5
<1>10. SumOf(counts')[n + 1] = m + 1
  <2>1. SumOf(counts')[n] = SumOf(counts)[n]
    BY <1>4, <1>9, SumOfSamePrefix
  <2>2. /\ SumOf(counts')[n + 1] = SumOf(counts')[n] + counts'[n + 1]
        /\ SumOf(counts)[n + 1] = SumOf(counts)[n] + counts[n + 1]
    <3>1. (n + 1) - 1 = n
      BY <1>4
    <3> QED  BY <1>4, <3>1, SumEquation
  <2>3. PICK q : q = SumOf(counts)[n]
    OBVIOUS
  <2>4. q \in Int
    <3>1. CASE n = 0
      BY <2>3, <3>1, SumEquation
    <3>2. CASE n # 0
      BY <1>4, <1>3, <2>3, <3>2 DEF PassesEnds
    <3> QED  BY <3>1, <3>2
  <2>5. PICK a \in Nat : a = counts[n + 1] /\ counts'[n + 1] = a + 1
    BY <1>9
  <2>6. q + a = m /\ SumOf(counts')[n + 1] = q + (a + 1)
    BY <1>5, <1>8, <2>1, <2>2, <2>3, <2>5
  <2> QED  BY <2>4, <2>6
<1>11. storage.samples = << >> => sample = submitted.segments[1].points[1].place
  <2> SUFFICES ASSUME storage.samples = << >>
               PROVE  sample = submitted.segments[1].points[1].place
    OBVIOUS
  <2>1. m = 0
    BY <1>8
  <2>2. n = 0
    <3>1. ASSUME n # 0 PROVE FALSE
      <4>1. n \in 1 .. n
        BY <1>4, <3>1
      <4>2. SumOf(counts)[n] \in 1 .. Len(storage.samples)
        BY <1>3, <1>4, <4>1 DEF PassesEnds
      <4> QED  BY <1>8, <2>1, <4>2
    <3> QED  BY <3>1
  <2>3. segmentIndex = 1 /\ nextSample = 0
    BY <1>2, <1>3, <1>4, <1>8, <2>1, <2>2
  <2> QED  BY <2>3 DEF sample, PlaceOf, Segment
<1>12. PassesEnds(counts, n)'
  <2>1. /\ \A i \in 0 .. n : SumOf(counts')[i] = SumOf(counts)[i]
        /\ PassesEnds(counts, n)
    BY <1>3, <1>4, <1>9, SumOfSamePrefix
  <2>2. ASSUME NEW i \in 1 .. n
        PROVE  /\ SumOf(counts')[i] \in 1 .. Len(storage'.samples)
               /\ storage'.samples[SumOf(counts')[i]]
                      = EndPoint(submitted.segments[i]).place
    <3>1. /\ SumOf(counts)[i] \in 1 .. m
          /\ storage.samples[SumOf(counts)[i]] = EndPoint(submitted.segments[i]).place
      BY <1>8, <2>1 DEF PassesEnds
    <3>2. SumOf(counts')[i] = SumOf(counts)[i]
      BY <1>4, <2>1
    <3>3. SumOf(counts)[i] \in 1 .. m + 1
      BY <1>8, <3>1
    <3> QED  BY <1>8, <3>1, <3>2, <3>3
  <2>3. storage'.samples[1] = submitted.segments[1].points[1].place
    <3>1. CASE m = 0
      BY <1>8, <1>11, <3>1
    <3>2. CASE m # 0
      <4>1. 1 \in 1 .. m /\ storage.samples # << >>
        BY <1>8, <3>2
      <4> QED  BY <1>8, <2>1, <4>1 DEF PassesEnds
    <3> QED  BY <3>1, <3>2
  <2> QED  BY <1>1, <2>2, <2>3 DEF PassesEnds, EndPoint
<1>13. Chained(submitted.segments)'
  BY <1>1, <1>3 DEF Chained, EndPoint
<1>14. CASE nextSample + 1 < streamLength
  <2>1. validationPhase' = "GENERATE_AND_VALIDATE_SAMPLE" /\ segmentIndex' = n + 1
    BY <1>1, <1>4, <1>14 DEF PhaseAfterSample
  <2>2. Counted(segmentIndex)'
    BY <1>1, <1>2, <1>8, <1>9, <1>10, <2>1 DEF Counted
  <2>3. PassesEnds(counts, segmentIndex - 1)'
    BY <1>4, <1>12, <2>1
  <2>4. /\ segmentIndex' = 1 => nextSample' = sampleIndex'
        /\ streamLength' \in 2 .. MaxStream
    BY <1>1, <1>3, <1>4, <2>1
  <2> QED  BY <1>13, <2>1, <2>2, <2>3, <2>4 DEF PassageInv, CheckPhases
<1>15. CASE ~(nextSample + 1 < streamLength)
  <2>1. nextSample = streamLength - 1 /\ nextSample # 0
    BY <1>2, <1>3, <1>15
  <2>2. sample = EndPoint(submitted.segments[n + 1]).place
    BY <1>4, <2>1 DEF sample, PlaceOf, Segment
  <2>3. PassesEnds(counts, n + 1)'
    <3>1. /\ SumOf(counts')[n + 1] \in 1 .. Len(storage'.samples)
          /\ storage'.samples[SumOf(counts')[n + 1]]
                 = EndPoint(submitted'.segments[n + 1]).place
      BY <1>1, <1>8, <1>10, <2>2
    <3>2. \A i \in 1 .. n + 1 : i \in 1 .. n \/ i = n + 1
      BY <1>4
    <3> QED  BY <1>12, <3>1, <3>2 DEF PassesEnds, EndPoint
  <2>4. segmentIndex' = n + 2 /\ segmentIndex' - 1 = n + 1
    BY <1>1, <1>4, <1>15
  <2>5. CASE validationPhase' = "PREPARE_SEGMENT"
    <3>1. Counted(segmentIndex - 1)'
      BY <1>1, <1>2, <1>8, <1>9, <1>10, <2>4 DEF Counted
    <3>2. PassesEnds(counts, segmentIndex - 1)'
      BY <2>3, <2>4
    <3> QED  BY <1>13, <2>5, <3>1, <3>2 DEF PassageInv, CheckPhases
  <2>6. CASE ~(segmentIndex < Len(submitted.segments)) /\ validationPhase' = "FINALIZE"
    <3>1. Len(submitted'.segments) = n + 1
      BY <1>1, <1>2, <1>4, <2>6
    <3>2. PassesEnds(counts, Len(submitted.segments))'
      BY <2>3, <3>1
    <3> QED  BY <1>9, <1>13, <2>6, <3>2 DEF PassageInv, CheckPhases
  <2> QED  BY <1>1, <1>15, <2>5, <2>6 DEF PhaseAfterSample
<1> QED  BY <1>14, <1>15

\* What is committed is what was counted and stored.
LEMMA FinalizePassage ==
    ASSUME PassageInv, ValidationInv, Finalize
    PROVE  PassageInv'
<1>1. validationPhase = "FINALIZE" /\ validationPhase \in WorkPhases /\ StorageTypes
  BY DEF Finalize, WorkPhases, ValidationInv
<1>2. CASE Invalid("STORAGE")
  BY <1>1, <1>2, InvalidPassage
<1>3. CASE /\ validationPhase' = "VALID" /\ Commit /\ submitted' = submitted
           /\ counts' = counts
  <2>1. storage' = [storage EXCEPT !.writing = FALSE, !.committed = TRUE,
                                   !.metadata = Metadata]
    BY <1>3 DEF Commit
  <2>2. storage'.samples = storage.samples /\ storage'.metadata.counts = counts
    BY <1>1, <2>1 DEF StorageTypes, Metadata
  <2>3. Chained(submitted.segments) /\ PassesEnds(counts, Len(submitted.segments))
    BY <1>1 DEF PassageInv
  <2>4. PassesEnds(storage.metadata.counts, Len(submitted.segments))'
    BY <1>3, <2>2, <2>3 DEF PassesEnds, EndPoint
  <2>5. Chained(submitted.segments)'
    BY <1>3, <2>3 DEF Chained, EndPoint
  <2> QED  BY <1>3, <2>4, <2>5 DEF PassageInv, CheckPhases
<1> QED  BY <1>2, <1>3 DEF Finalize

\* Any step of the supervisor keeps it.
LEMMA PassageInvNext ==
    ASSUME ProgramInv, ValidationInv, IndexInv, PassageInv, [Next]_vars
    PROVE  PassageInv'
<1>1. CASE UNCHANGED <<validationVars, storage>>
  BY <1>1, KeptPassage DEF validationVars
<1>2. CASE Submit
  <2>1. draft'.segments = draft.segments /\ Chained(draft.segments)
    BY <1>2 DEF Submit, SubmitDraft, ProgramInv, DraftInv, TeachingTypes, Drafts,
                SegmentsAreChained
  <2>2. Chained(draft'.segments)
    BY <2>1 DEF Chained, EndPoint
  <2> QED  BY <1>2, <2>2, EnterPassage DEF Submit
<1>3. CASE ContinueValidationStep
  <2>1. CASE SnapshotCheck \/ StructuralCheck
    <3>1. CASE Proceed("STRUCTURAL_CHECK") \/ Proceed("PREPARE_SEGMENT")
      BY <2>1, <3>1, KeptPassage
      DEF Proceed, SnapshotCheck, StructuralCheck, CheckPhases
    <3>2. ASSUME NEW error, Invalid(error) PROVE PassageInv'
      BY <2>1, <3>2, InvalidPassage DEF SnapshotCheck, StructuralCheck, WorkPhases
    <3> QED  BY <2>1, <3>1, <3>2 DEF SnapshotCheck, StructuralCheck
  <2>2. CASE RejectSample
    BY <2>2, InvalidPassage DEF RejectSample, WorkPhases
  <2> QED  BY <1>3, <2>1, <2>2, PreparePassage, StorePassage, FinalizePassage
           DEF ContinueValidationStep, ValidationTurn
<1>4. CASE EndValidationStep
  <2>1. CASE NextStep
    BY <2>1, KeptPassage DEF NextStep
  <2>2. CASE validationPhase \in EndedPhases /\ DropIndices
    <3>1. UNCHANGED <<submitted, validationPhase, storage>>
      BY <2>2 DEF DropIndices
    <3>2. /\ Chained(submitted.segments) => Chained(submitted.segments)'
          /\ PassesEnds(storage.metadata.counts, Len(submitted.segments)) =>
                 PassesEnds(storage.metadata.counts, Len(submitted.segments))'
      BY <3>1 DEF Chained, PassesEnds, EndPoint
    <3> QED  BY <2>2, <3>1, <3>2 DEF PassageInv, EndedPhases, CheckPhases
  <2> QED  BY <1>4, <2>1, <2>2 DEF EndValidationStep
<1> QED  BY <1>1, <1>2, <1>3, <1>4, ValidationStep

\* A trajectory that passes through the ends is whole.
LEMMA PassageIsWhole ==
    ASSUME AuthoringInv, IndexInv, PassageInv
    PROVE  TrajectoryIsWhole
<1> SUFFICES ASSUME validated
             PROVE  TrajectoryIsWhole
  BY DEF TrajectoryIsWhole
<1>1. /\ validationPhase = "VALID" /\ WellFormed(submitted) /\ StorageTypes
      /\ Chained(submitted.segments)
      /\ PassesEnds(storage.metadata.counts, Len(submitted.segments))
  BY DEF AuthoringInv, ReleaseInv, ValidationInv, PassageInv
<1>2. PICK n \in Nat \ {0} :
          /\ Len(submitted.segments) = n /\ n <= MaxSegments
          /\ submitted.segments \in Seq(TaughtSegments)
  BY <1>1 DEF WellFormed, Drafts, IndexInv
<1>3. SamplesOfFirst = SumOf(storage.metadata.counts)
  BY DEF SamplesOfFirst, SumOf
<1> DEFINE Sum == SumOf(storage.metadata.counts)
<1>4. ASSUME NEW i \in 1 .. n
      PROVE  /\ Sum[i] \in 1 .. Len(storage.samples)
             /\ storage.samples[Sum[i]] = EndPoint(submitted.segments[i]).place
  BY <1>1, <1>2 DEF PassesEnds
<1>5. /\ 1 \in 1 .. Len(storage.samples)
      /\ storage.samples[1] = submitted.segments[1].points[1].place
  <2>1. Sum[1] \in 1 .. Len(storage.samples)
    BY <1>2, <1>4
  <2>2. Len(storage.samples) \in Nat /\ storage.samples # << >>
    BY <1>1, <2>1 DEF StorageTypes
  <2> QED  BY <1>1, <2>1, <2>2 DEF PassesEnds
<1>6. ASSUME NEW i \in 2 .. n
      PROVE  /\ Sum[i - 1] \in 1 .. Len(storage.samples)
             /\ storage.samples[Sum[i - 1]] = submitted.segments[i].points[1].place
  <2>1. i - 1 \in 1 .. n - 1 /\ i - 1 \in 1 .. n /\ (i - 1) + 1 = i
    BY <1>2
  <2>2. submitted.segments[i].points[1] = EndPoint(submitted.segments[i - 1])
    BY <1>1, <1>2, <2>1 DEF Chained
  <2> QED  BY <1>4, <2>1, <2>2
<1> HIDE DEF Sum
<1> QED  BY <1>2, <1>3, <1>4, <1>5, <1>6 DEF TrajectoryIsWhole, Sum

\* The trajectory that may be followed starts at the first taught point and passes
\* through the end of every segment, where the next one starts, for any number of
\* segments and samples: what is stored was counted, the chain of the draft makes the
\* sample that is left out superfluous (state_path_validation_step(),
\* ram_storage_write()).
THEOREM TrajectoriesAreWhole == Spec => []TrajectoryIsWhole
<1>1. AuthoringInit => PassageInv
  BY DEF AuthoringInit, ValidationInit, PassageInv, CheckPhases
<1>2. AuthoringInv /\ IndexInv /\ PassageInv /\ [Next]_vars => PassageInv'
  BY PassageInvNext DEF AuthoringInv
<1>3. AuthoringInv /\ IndexInv /\ PassageInv => TrajectoryIsWhole
  BY PassageIsWhole
<1> QED  BY <1>1, <1>2, <1>3, AuthoringInvariant, CountersInvariant, PTL DEF Spec
=============================================================================
